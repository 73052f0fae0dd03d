----------------------------- MODULE GdbProbesProofs -----------------------------
(***************************************************************************)
(* What the evaluations of the gdb captures say of the engine was so, for  *)
(* any number of threads, handles and contexts and any size of the lists.  *)
(*                                                                         *)
(* Each script has its own inductive invariant.  That of the shutdown      *)
(* probe relates the order numbers in its lists to the engine's clock,     *)
(* that of the pipeline probe its table of modules to the driver's and its *)
(* open calls to the threads, and that of the fault probe its ring to the  *)
(* binds in force.                                                         *)
(***************************************************************************)
EXTENDS GdbProbes, TLAPS, SequenceTheorems, WellFoundedInduction

--------------------------------------------------------------------------------
(* The probe of the shutdown.                                              *)

Roles == {"target", "other", "unread", "set", "cleared", "register", "remove", "exit", "release", "static-release"}
Hits == [role : Roles, order : Nat, at : Nat]
Entries == [role : Roles, order : Nat, at : Nat, handlers : SUBSET {0, 1}, seq : Nat]
Lists == {"check", "watch", "socket"}
Fields == {"started", "resolved", "check", "watch", "socket", "sequence", "truncated", "errors", "signals", "exit",
           "observing", "complete", "failures"}

\* Shapes.
ShutdownShape ==
    /\ DOMAIN ue = {"map", "exiting", "logged", "over", "todo", "clock", "target"}
    /\ ue.map \in {0, 1} /\ ue.clock \in Nat /\ ue.todo \in Seq(Roles)
    /\ DOMAIN capture = Fields
    /\ capture.sequence \in Nat /\ capture.observing \in Hits \cup {Nobody}
    /\ \A list \in Lists : capture[list] \in Seq(Entries)

\* What the script has seen of the order of events is how they came: all entries have
\* their own numbers, below the numbers of the event it is looking at.
Before(one, other) == one.order < other.order /\ one.at < other.at

Ordered(lists, seen, sequence, clock) ==
    /\ \A list \in Lists : \A i \in DOMAIN lists[list] :
          /\ lists[list][i].order <= sequence /\ lists[list][i].at <= clock
          /\ seen # Nobody => Before(lists[list][i], seen)
    /\ seen # Nobody => seen.order <= sequence /\ seen.at <= clock
    /\ \A list, more \in Lists : \A i \in DOMAIN lists[list], j \in DOMAIN lists[more] :
          \/ list = more /\ i = j
          \/ Before(lists[list][i], lists[more][j])
          \/ Before(lists[more][j], lists[list][i])

Listing == [list \in Lists |-> capture[list]]

OrderInv == Ordered(Listing, capture.observing, capture.sequence, ue.clock)

\* exit() comes once, and static destructors run in it.
Inside(role) == role \in {"exit", "static-release"}

ExitInv ==
    /\ \A i \in DOMAIN ue.todo : ue.todo[i] = "exit" => ~ue.exiting /\ Len(ue.todo) = 1
    /\ \A i \in DOMAIN ue.todo : ue.todo[i] = "static-release" => ue.exiting
    /\ Inside(capture.observing.role) => ue.exiting
    /\ \A i \in DOMAIN capture.socket : Inside(capture.socket[i].role) => ue.exiting
    /\ \A i, j \in DOMAIN capture.socket :
          capture.socket[i].role = "exit" /\ capture.socket[j].role = "static-release" =>
              capture.socket[i].at < capture.socket[j].at
    /\ capture.observing.role = "exit" => \A i \in DOMAIN capture.socket : capture.socket[i].role # "static-release"

\* The journal has the beginnings of the lists, and the last one has all.
Begins(part, list) == \A i \in DOMAIN part : i \in DOMAIN list /\ part[i] = list[i]

WholeJournal ==
    /\ journal.check = capture.check /\ journal.resolved = capture.resolved
    /\ journal.truncated = capture.truncated /\ journal.errors = capture.errors /\ capture.complete

JournalInv ==
    /\ journal # NoJournal =>
          /\ \A list \in Lists : journal[list] \in Seq(Entries) /\ Begins(journal[list], capture[list])
          /\ journal.complete => WholeJournal
    /\ probe = "shutdown" /\ session # "done" => ~capture.complete
    /\ probe = "shutdown" /\ session \in {"finish", "done"} => capture.observing = Nobody

\* A failed check is noted, if it is hooked, unless its list is full, its text cannot be read
\* or its observation fails.
TargetInv ==
    /\ ~capture.started => ue.target = 0
    /\ capture.resolved \subseteq armed
    /\ ue.target # 0 /\ "check" \in armed =>
          \/ capture.truncated \/ capture.errors
          \/ capture.observing.role = "target"
          \/ \E i \in DOMAIN capture.check : capture.check[i].role \in {"target", "unread"}

ShutdownInv == ShutdownShape /\ OrderInv /\ ExitInv /\ JournalInv /\ TargetInv

--------------------------------------------------------------------------------
(* The probe of pipeline creation.                                         *)

Calling == [thread : Threads, handle : Handles, module : Nat, real : Nat, returned : BOOLEAN, target : BOOLEAN]

PipelineShape ==
    /\ DOMAIN gpu = {"step", "thread", "live", "made", "crashed", "left"}
    /\ gpu.thread \in [Threads -> [at : {"ue", "create", "compute"}, of : Nat]]
    /\ gpu.live \in [Handles -> Nat] /\ gpu.made \in Nat
    /\ DOMAIN state = {"modules", "objects", "calls", "target", "errors", "instance", "timer"}
    /\ state.modules \in [Handles -> Nat] /\ state.calls \in Seq(Calling) /\ state.target \in Nat
    /\ DOMAIN files = {"pipeline", "device"}

\* The table of the script and that of the driver agree on the handles both of them have.
ModulesInv ==
    /\ gpu.step \notin {"hooked", "crashed"} => \A h \in Handles : state.modules[h] = Unknown
    /\ \A h \in Handles : state.modules[h] # Unknown /\ gpu.live[h] # Unknown => state.modules[h] = gpu.live[h]
    /\ \A k \in DOMAIN state.calls : state.calls[k].module = state.calls[k].real

\* A call is open as long as its thread is in it, and for good once it has vanished; the
\* call that a thread is in is its last one.
Latest(t) ==
    LET k == gpu.thread[t].of IN
    /\ k \in DOMAIN state.calls /\ state.calls[k].thread = t /\ ~state.calls[k].returned
    /\ \A j \in gpu.left : state.calls[j].thread = t => j < k

OpenInv ==
    /\ gpu.left \subseteq DOMAIN state.calls
    /\ \A t \in Threads : In(t, "compute") => Latest(t)
    /\ \A k \in DOMAIN state.calls : ~state.calls[k].returned =>
          \/ k \in gpu.left
          \/ In(state.calls[k].thread, "compute") /\ gpu.thread[state.calls[k].thread].of = k

\* The target is one of the calls, in the mode's sense.
SelectedInv ==
    /\ gpu.step = "crashed" => session # "run"
    /\ state.target # 0 => state.target \in DOMAIN state.calls
    /\ mode = "crash" /\ state.target # 0 =>
          /\ session # "run"
          /\ IF gpu.crashed # Unknown THEN state.target = gpu.crashed ELSE state.target \in gpu.left
    /\ mode # "crash" /\ state.target # 0 => state.calls[state.target].target

\* The file has what the script knows of the calls.
FileInv ==
    files.pipeline.whole =>
        /\ files.pipeline.calls = state.calls /\ files.pipeline.target_call = state.target
        /\ files.pipeline.capture_complete => state.target # 0

PipelineInv == PipelineShape /\ ModulesInv /\ OpenInv /\ SelectedInv /\ FileInv

--------------------------------------------------------------------------------
(* The probe of the first fault.                                           *)

Traces == [sequence : Nat, thread : Threads, kind : {"bind", "parameters"}, context : Contexts, after : Nat]

Fatal == {"vulkan-check", "fatal-signal"}
Fault(event) == event \in [reason : Fatal, thread : Threads, work : Work]

FaultShape ==
    /\ DOMAIN scene = {"bound", "first", "stop"} /\ scene.bound \in [Contexts -> Nat]
    /\ DOMAIN fault = {"pending", "timer", "taken", "sampled", "shows", "errors", "traced", "kept", "dropped"}
    /\ fault.traced \in Nat /\ fault.dropped \in Nat /\ fault.kept \in Seq(Traces)

\* The first fault is what gdb stopped at, if it stopped at a fault, and what is captured.
FirstInv ==
    /\ scene.stop = NoFault => scene.first = NoFault /\ fault.pending = NoFault /\ fault.taken = NoFault
    /\ fault.pending # NoFault => scene.stop = fault.pending /\ scene.stop.reason = "vulkan-check"
    /\ scene.stop.reason \in Fatal => Fault(scene.stop) /\ scene.first = scene.stop
    /\ fault.taken.reason \in Fatal =>
          /\ Fault(fault.taken) /\ fault.taken = scene.first
          /\ fault.shows \in {fault.taken.work, NoWork}
    /\ probe = "fault" /\ session = "run" => fault.taken = NoFault

\* The ring has the last events, and what it has of binds is what was bound.
Ring(kept, traced, dropped) ==
    /\ Len(kept) <= MaxKept /\ traced = Len(kept) + dropped
    /\ \A i \in DOMAIN kept : kept[i].sequence = dropped + i

Binds(event, context) == event.kind = "bind" /\ event.context = context

Bounds(kept, bound) ==
    \A i \in DOMAIN kept, context \in Contexts : Binds(kept[i], context) =>
        /\ kept[i].sequence <= bound[context]
        /\ \E j \in DOMAIN kept : Binds(kept[j], context) /\ kept[j].sequence = bound[context]

Afters(kept) ==
    \A p \in DOMAIN kept : kept[p].kind = "parameters" =>
        \A i \in 1 .. p - 1 : Binds(kept[i], kept[p].context) =>
            /\ kept[i].sequence <= kept[p].after
            /\ \E j \in 1 .. p - 1 : Binds(kept[j], kept[p].context) /\ kept[j].sequence = kept[p].after

KeptInv == Ring(fault.kept, fault.traced, fault.dropped)
BoundInv == Bounds(fault.kept, scene.bound)
AfterInv == Afters(fault.kept)

FaultInv == FaultShape /\ FirstInv /\ KeptInv /\ BoundInv /\ AfterInv

Inv == GdbType /\ ShutdownInv /\ PipelineInv /\ FaultInv

--------------------------------------------------------------------------------
(* Minima and maxima of positions.                                         *)

LEMMA LeastExists ==
  ASSUME NEW S \in SUBSET Nat, S # {}
  PROVE  \E i \in S : \A j \in S : i <= j
<1>1. PICK x \in S : \A y \in S : ~(<<y, x>> \in OpToRel(<, Nat))
  BY WFMin, NatLessThanWellFounded, Zenon
<1>2. \A y \in S : ~(y < x)
  BY <1>1, Zenon DEF OpToRel
<1> QED BY <1>2

LEMMA MinOfPositions ==
  ASSUME NEW n \in Nat, NEW S \in SUBSET (1 .. n), S # {}
  PROVE  Min(S) \in S /\ \A x \in S : Min(S) <= x
<1>1. S \in SUBSET Nat
  OBVIOUS
<1>2. \E i \in S : \A j \in S : i <= j
  BY <1>1, LeastExists
<1> QED BY <1>2 DEF Min

LEMMA MaxOfPositions ==
  ASSUME NEW n \in Nat, NEW S \in SUBSET (1 .. n), S # {}
  PROVE  Max(S) \in S /\ \A x \in S : x <= Max(S)
<1> DEFINE T == {n - i : i \in S}
<1>0. \A i \in S : n - i \in Nat
  OBVIOUS
<1>1. T \in SUBSET Nat /\ T # {}
  BY <1>0, Zenon
<1>2. PICK least \in T : \A other \in T : least <= other
  BY <1>1, LeastExists
<1>3. PICK i \in S : least = n - i
  BY <1>2
<1>4. \A j \in S : n - j \in T
  OBVIOUS
<1>5. \A j \in S : i >= j
  BY <1>2, <1>3, <1>4
<1>6. Max(S) \in S /\ \A y \in S : Max(S) >= y
  BY <1>3, <1>5 DEF Max
<1> QED BY <1>6

--------------------------------------------------------------------------------
(* The probe of the first fault.                                           *)

LEMMA FaultInit_ == FaultInit => FaultInv
<1> SUFFICES ASSUME FaultInit PROVE FaultInv
  OBVIOUS
<1>1. fault.kept = << >> /\ fault.traced = 0 /\ fault.dropped = 0 /\ MaxKept \in Nat
  BY LimitsAssumption DEF FaultInit
<1>2. << >> \in Seq(Traces) /\ Len(<< >>) = 0 /\ DOMAIN << >> = {}
  OBVIOUS
<1>3. FaultShape
  BY <1>1, <1>2 DEF FaultInit, FaultShape
<1>4. FirstInv
  BY DEF FaultInit, FirstInv, Fatal, NoFault
<1>5. KeptInv /\ BoundInv /\ AfterInv
  BY <1>1, <1>2 DEF KeptInv, BoundInv, AfterInv, Ring, Bounds, Afters
<1> QED BY <1>3, <1>4, <1>5 DEF FaultInv

\* A step that traces nothing leaves the ring as it is.
LEMMA SameRing ==
  ASSUME FaultInv, scene'.bound = scene.bound, fault'.kept = fault.kept, fault'.traced = fault.traced,
         fault'.dropped = fault.dropped
  PROVE  KeptInv' /\ BoundInv' /\ AfterInv'
BY DEF FaultInv, KeptInv, BoundInv, AfterInv

LEMMA CheckStep ==
  ASSUME FaultInv, NEW t \in Threads, NEW work \in Work, NEW vulkan \in BOOLEAN, CheckFails(t, work, vulkan)
  PROVE  FaultInv'
<1> DEFINE event == [reason |-> "vulkan-check", thread |-> t, work |-> work]
<1>1. FaultShape /\ FirstInv
  BY DEF FaultInv
<1>2. /\ scene.stop = NoFault /\ scene.first = NoFault /\ fault.pending = NoFault /\ fault.taken = NoFault
      /\ UNCHANGED gdbVars
  BY <1>1 DEF CheckFails, FaultWatches, FirstInv
<1>3. event # NoFault /\ Fault(event) /\ event.reason = "vulkan-check" /\ "vulkan-check" \in Fatal
      /\ NoFault.reason \notin Fatal
  BY DEF NoFault, Fault, Fatal
<1>4. CASE Notes(event, vulkan)
  <2>1. /\ fault' = [fault EXCEPT !.pending = event, !.timer = FALSE]
        /\ scene' = [scene EXCEPT !.stop = event, !.first = event]
    BY <1>2, <1>4 DEF Notes, IsFirst
  <2> HIDE DEF event
  <2>2. /\ FaultShape' /\ scene'.bound = scene.bound /\ fault'.kept = fault.kept /\ fault'.traced = fault.traced
        /\ fault'.dropped = fault.dropped
        /\ fault'.pending = event /\ scene'.stop = event /\ scene'.first = event /\ fault'.taken = fault.taken
    BY <1>1, <2>1 DEF FaultShape
  <2>3. FirstInv'
    BY <1>2, <1>3, <2>2 DEF FirstInv, Fault
  <2> QED BY <2>2, <2>3, SameRing DEF FaultInv
<1>5. CASE Passes(vulkan)
  BY <1>5, <1>2, <1>1, SameRing DEF Passes, FaultInv, FaultShape, FirstInv, Fault, gdbVars
<1>6. CASE Unread(event, vulkan)
  <2> HIDE DEF event
  <2> DEFINE unread == [reason |-> "unread"]
  <2>0. PICK first \in {event, NoFault} : first = IF vulkan THEN event ELSE NoFault
    OBVIOUS
  <2>1. /\ fault' = [fault EXCEPT !.errors = TRUE]
        /\ scene' = [scene EXCEPT !.stop = unread, !.first = first]
    BY <1>2, <1>6, <1>1, <2>0 DEF Unread, IsFirst, FaultShape
  <2>2. unread.reason \notin Fatal /\ unread # NoFault
    BY DEF Fatal, NoFault
  <2> HIDE DEF unread
  <2>3. /\ FaultShape' /\ scene'.bound = scene.bound /\ fault'.kept = fault.kept /\ fault'.traced = fault.traced
        /\ fault'.dropped = fault.dropped
        /\ fault'.pending = fault.pending /\ scene'.stop = unread /\ fault'.taken = fault.taken
    BY <1>1, <2>1 DEF FaultShape
  <2>4. FirstInv'
    BY <1>2, <1>3, <2>2, <2>3 DEF FirstInv, Fault
  <2> QED BY <2>3, <2>4, SameRing DEF FaultInv
<1> QED BY <1>4, <1>5, <1>6 DEF CheckFails

LEMMA SignalStep ==
  ASSUME FaultInv, NEW t \in Threads, NEW work \in Work, NEW reason \in {"fatal-signal", "other-signal"},
         Signalled(t, work, reason)
  PROVE  FaultInv'
<1> DEFINE event == [reason |-> reason, thread |-> t, work |-> work]
<1>1. FaultShape /\ FirstInv
  BY DEF FaultInv
<1>2. /\ scene.stop = NoFault /\ scene.first = NoFault /\ fault.pending = NoFault /\ fault.taken = NoFault
      /\ UNCHANGED gdbVars /\ fault' = fault
  BY <1>1 DEF Signalled, FaultWatches, FirstInv
<1>3. /\ event # NoFault /\ event.reason = reason /\ NoFault.reason \notin Fatal
      /\ event.reason \in Fatal <=> reason = "fatal-signal"
      /\ reason = "fatal-signal" => Fault(event)
  BY DEF NoFault, Fault, Fatal
<1> HIDE DEF event
<1>4. PICK first \in {event, NoFault} : first = IF reason = "fatal-signal" THEN event ELSE NoFault
  OBVIOUS
<1>5. scene' = [scene EXCEPT !.stop = event, !.first = first]
  BY <1>1, <1>2, <1>4 DEF Signalled, IsFirst, FaultShape, event
<1>6. /\ FaultShape' /\ scene'.bound = scene.bound /\ scene'.stop = event /\ scene'.first = first
  BY <1>1, <1>2, <1>5 DEF FaultShape
<1>7. FirstInv'
  BY <1>2, <1>3, <1>4, <1>6 DEF FirstInv, Fault
<1> QED BY <1>2, <1>6, <1>7, SameRing DEF FaultInv

LEMMA FaultTimeoutStep ==
  ASSUME FaultInv, FaultTimeout
  PROVE  FaultInv'
<1>1. FaultShape /\ FirstInv
  BY DEF FaultInv
<1>2. /\ scene.stop = NoFault /\ scene.first = NoFault /\ fault.pending = NoFault /\ fault.taken = NoFault
      /\ UNCHANGED gdbVars /\ fault' = [fault EXCEPT !.timer = FALSE]
  BY <1>1 DEF FaultTimeout, FaultWatches, FirstInv
<1>3. PICK t \in Threads, work \in Work :
         scene' = [scene EXCEPT !.stop = [reason |-> "observation-ended", thread |-> t, work |-> work]]
  BY DEF FaultTimeout
<1> DEFINE event == [reason |-> "observation-ended", thread |-> t, work |-> work]
<1>4. event # NoFault /\ event.reason \notin Fatal /\ NoFault.reason \notin Fatal
  BY DEF NoFault, Fatal
<1>5. scene' = [scene EXCEPT !.stop = event]
  BY <1>3
<1> HIDE DEF event
<1>6. /\ FaultShape' /\ scene'.bound = scene.bound /\ scene'.stop = event /\ scene'.first = scene.first
      /\ fault'.pending = fault.pending /\ fault'.taken = fault.taken /\ fault'.kept = fault.kept
      /\ fault'.traced = fault.traced /\ fault'.dropped = fault.dropped
  BY <1>1, <1>2, <1>5 DEF FaultShape
<1>7. FirstInv'
  BY <1>2, <1>4, <1>6 DEF FirstInv
<1> QED BY <1>6, <1>7, SameRing DEF FaultInv

\* What a capture takes, if nothing was taken before.
LEMMA CaptureTakes ==
  ASSUME FaultInv, NEW reason, NEW t, NEW work, Capture(reason, t, work),
         UNCHANGED scene, session' # "run",
         reason \in Fatal => Fault([reason |-> reason, thread |-> t, work |-> work])
                             /\ [reason |-> reason, thread |-> t, work |-> work] = scene.first,
         scene.stop # NoFault
  PROVE  FaultInv'
<1> DEFINE taken == [reason |-> reason, thread |-> t, work |-> work]
<1>1. FaultShape /\ FirstInv
  BY DEF FaultInv
<1>2. CASE fault.taken # NoFault
  BY <1>1, <1>2, SameRing DEF Capture, FaultInv, FaultShape, FirstInv, Fault
<1>3. CASE fault.taken = NoFault
  <2>1. PICK sampled \in {"nothing", "others", "fault_thread"}, shows \in {work, NoWork} :
            fault' = [fault EXCEPT !.taken = taken, !.timer = FALSE, !.sampled = sampled, !.shows = shows,
                                   !.errors = @ \/ sampled # "fault_thread"]
    BY <1>3 DEF Capture, Shown
  <2>2. taken.reason = reason /\ taken.work = work /\ (reason \in Fatal => Fault(taken) /\ taken = scene.first)
    OBVIOUS
  <2> HIDE DEF taken
  <2>3. /\ FaultShape' /\ fault'.pending = fault.pending /\ fault'.taken = taken /\ fault'.shows = shows
        /\ fault'.kept = fault.kept /\ fault'.traced = fault.traced /\ fault'.dropped = fault.dropped
    BY <1>1, <2>1 DEF FaultShape
  <2>4. FirstInv'
    BY <1>1, <2>2, <2>3 DEF FirstInv, Fault
  <2> QED BY <2>3, <2>4, SameRing DEF FaultInv
<1> QED BY <1>2, <1>3

LEMMA StoppedStep ==
  ASSUME FaultInv, GdbType, Stopped
  PROVE  FaultInv'
<1>1. FaultShape /\ FirstInv
  BY DEF FaultInv
<1>2. /\ session = "run" /\ session' = "finish" /\ scene.stop # NoFault /\ scene' = scene /\ probe' = probe
      /\ NoFault.reason \notin Fatal /\ "vulkan-check" \in Fatal /\ "observation-ended" \notin Fatal
      /\ "fatal-signal" \in Fatal
  BY DEF Stopped, Running, Stops, NoFault, Fatal
<1>3. CASE UNCHANGED fault
  BY <1>1, <1>2, <1>3, SameRing DEF FaultInv, FaultShape, FirstInv, Fault
<1>4. CASE fault.pending # NoFault
  <2>1. /\ Capture("vulkan-check", scene.stop.thread, scene.stop.work)
        /\ Fault(scene.stop) /\ scene.stop.reason = "vulkan-check" /\ scene.first = scene.stop
    BY <1>1, <1>2, <1>4 DEF Stopped, FirstInv
  <2>2. scene.stop = [reason |-> "vulkan-check", thread |-> scene.stop.thread, work |-> scene.stop.work]
    BY <2>1 DEF Fault
  <2> QED BY <1>2, <2>1, <2>2, CaptureTakes
<1>5. CASE fault.pending = NoFault /\ scene.stop.reason \in {"fatal-signal", "observation-ended"}
  <2>1. /\ Capture(scene.stop.reason, scene.stop.thread, scene.stop.work)
        /\ scene.stop.reason \in Fatal => Fault(scene.stop) /\ scene.first = scene.stop
    BY <1>1, <1>2, <1>5 DEF Stopped, FirstInv
  <2>2. scene.stop.reason \in Fatal =>
            scene.stop = [reason |-> scene.stop.reason, thread |-> scene.stop.thread, work |-> scene.stop.work]
    BY <2>1 DEF Fault
  <2> QED BY <1>2, <2>1, <2>2, CaptureTakes
<1> QED BY <1>3, <1>4, <1>5 DEF Stopped

LEMMA FinishFaultStep ==
  ASSUME FaultInv, FinishFault
  PROVE  FaultInv'
<1>1. FaultShape /\ FirstInv
  BY DEF FaultInv
<1>2. session' = "done" /\ scene' = scene /\ probe' = probe /\ "observation-ended" \notin Fatal
  BY DEF FinishFault, Fatal
<1>3. CASE scene.stop # NoFault
  <2>1. PICK t \in Threads, work \in Work : Capture("observation-ended", t, work)
    BY <1>3 DEF FinishFault
  <2> QED BY <1>2, <1>3, <2>1, CaptureTakes
<1>4. CASE scene.stop = NoFault
  <2>1. fault' = [fault EXCEPT !.timer = FALSE]
    BY <1>4 DEF FinishFault
  <2>2. /\ FaultShape' /\ fault'.pending = fault.pending /\ fault'.taken = fault.taken /\ fault'.shows = fault.shows
        /\ fault'.kept = fault.kept /\ fault'.traced = fault.traced /\ fault'.dropped = fault.dropped
    BY <1>1, <1>2, <2>1 DEF FaultShape
  <2>3. FirstInv'
    BY <1>1, <1>2, <2>2 DEF FirstInv, Fault
  <2> QED BY <1>2, <2>2, <2>3, SameRing DEF FaultInv
<1> QED BY <1>3, <1>4

\* A ring that got one more event at its end, and lost one at its start if it was full.
Shifted(old, new, cut, e) ==
    /\ cut <= Len(old) /\ (cut = 1 <=> Len(old) = MaxKept)
    /\ Len(new) = Len(old) - cut + 1 /\ new[Len(new)] = e
    /\ \A i \in 1 .. Len(new) - 1 : new[i] = old[i + cut]

LEMMA TracedRing ==
  ASSUME NEW old \in Seq(Traces), Len(old) <= MaxKept, NEW e \in Traces
  PROVE  \E cut \in {0, 1}, new \in Seq(Traces) :
            /\ new = Append(IF Len(old) = MaxKept THEN Tail(old) ELSE old, e) 
            /\ Shifted(old, new, cut, e)
<1>1. Len(old) \in Nat /\ MaxKept \in Nat \ {0}
  BY LimitsAssumption
<1>2. CASE Len(old) = MaxKept
  <2>1. old # << >>
    BY <1>1, <1>2
  <2>2. /\ Tail(old) \in Seq(Traces) /\ Len(Tail(old)) = Len(old) - 1
        /\ \A i \in 1 .. Len(old) - 1 : Tail(old)[i] = old[i + 1]
    BY <2>1, HeadTailProperties
  <2>3. /\ Append(Tail(old), e) \in Seq(Traces) /\ Len(Append(Tail(old), e)) = Len(old)
        /\ \A i \in 1 .. Len(old) - 1 : Append(Tail(old), e)[i] = Tail(old)[i]
        /\ Append(Tail(old), e)[Len(old)] = e
    BY <1>1, <2>2
  <2>4. Len(old) - 1 + 1 = Len(old) /\ 1 <= Len(old)
    BY <1>1, <1>2
  <2>5. Shifted(old, Append(Tail(old), e), 1, e)
    BY <1>2, <2>2, <2>3, <2>4 DEF Shifted
  <2> QED BY <1>2, <2>3, <2>5
<1>3. CASE Len(old) # MaxKept
  <2>1. /\ Append(old, e) \in Seq(Traces) /\ Len(Append(old, e)) = Len(old) + 1
        /\ \A i \in 1 .. Len(old) : Append(old, e)[i] = old[i]
        /\ Append(old, e)[Len(old) + 1] = e
    OBVIOUS
  <2>2. Len(old) - 0 = Len(old) /\ (\A i \in 1 .. Len(old) : i + 0 = i) /\ 0 <= Len(old) /\ Len(old) + 1 - 1 = Len(old)
    BY <1>1
  <2>3. Shifted(old, Append(old, e), 0, e)
    BY <1>3, <2>1, <2>2 DEF Shifted
  <2> QED BY <1>3, <2>1, <2>3
<1> QED BY <1>2, <1>3

\* In the positions of the two rings.
LEMMA ShiftedPositions ==
  ASSUME NEW old \in Seq(Traces), NEW new \in Seq(Traces), NEW cut \in {0, 1}, NEW e, Shifted(old, new, cut, e)
  PROVE  /\ DOMAIN old = 1 .. Len(old) /\ DOMAIN new = 1 .. Len(new) /\ Len(old) \in Nat /\ Len(new) \in Nat \ {0}
         /\ Len(old) = Len(new) - 1 + cut /\ new[Len(new)] = e
         /\ \A i \in 1 .. Len(new) - 1 : i + cut \in 1 .. Len(old) /\ new[i] = old[i + cut]
<1>1. DOMAIN old = 1 .. Len(old) /\ DOMAIN new = 1 .. Len(new) /\ Len(old) \in Nat /\ Len(new) \in Nat
  OBVIOUS
<1>2. PICK m, n \in Nat : m = Len(old) /\ n = Len(new)
  BY <1>1
<1>3. cut <= m /\ n = m - cut + 1
  BY <1>2 DEF Shifted
<1>4. n \in Nat \ {0} /\ m = n - 1 + cut /\ \A i \in 1 .. n - 1 : i + cut \in 1 .. m
  BY <1>3
<1> QED BY <1>1, <1>2, <1>4 DEF Shifted

LEMMA ShiftedRing ==
  ASSUME NEW old \in Seq(Traces), NEW new \in Seq(Traces), NEW cut \in {0, 1}, NEW traced \in Nat, NEW dropped \in Nat,
         NEW e, e.sequence = traced + 1, Shifted(old, new, cut, e), Ring(old, traced, dropped)
  PROVE  Ring(new, traced + 1, dropped + cut)
<1>1. /\ DOMAIN old = 1 .. Len(old) /\ DOMAIN new = 1 .. Len(new) /\ Len(old) \in Nat /\ Len(new) \in Nat \ {0}
      /\ Len(old) = Len(new) - 1 + cut /\ new[Len(new)] = e
      /\ \A i \in 1 .. Len(new) - 1 : i + cut \in 1 .. Len(old) /\ new[i] = old[i + cut]
  BY ONLY old \in Seq(Traces), new \in Seq(Traces), cut \in {0, 1}, Shifted(old, new, cut, e), ShiftedPositions
<1>2. PICK m, n \in Nat : m = Len(old) /\ n = Len(new)
  BY <1>1
<1>3. m <= MaxKept /\ (cut = 1 <=> m = MaxKept) /\ MaxKept \in Nat /\ m = n - 1 + cut /\ traced = m + dropped
  BY <1>1, <1>2, LimitsAssumption DEF Shifted, Ring
<1>4. n <= MaxKept /\ traced + 1 = n + (dropped + cut)
  BY <1>3
<1>5. ASSUME NEW i \in 1 .. n PROVE new[i].sequence = dropped + cut + i
  <2>1. CASE i = n
    BY <1>1, <1>2, <1>4, <2>1
  <2>2. CASE i # n
    <3>1. i \in 1 .. n - 1
      BY <2>2
    <3>2. i + cut \in 1 .. m /\ new[i] = old[i + cut]
      BY <1>1, <1>2, <3>1
    <3>3. new[i].sequence = dropped + (i + cut)
      BY <1>1, <1>2, <3>2 DEF Ring
    <3> QED BY <3>3
  <2> QED BY <2>1, <2>2
<1> QED BY <1>1, <1>2, <1>4, <1>5 DEF Ring

\* What is in force once an event is through.
Rebound(e, bound, next) ==
    \A c \in Contexts : next[c] = IF Binds(e, c) THEN e.sequence ELSE bound[c]

\* A bind of the old ring that another one of its context follows: the later one stays.
LEMMA ShiftedBounds ==
  ASSUME NEW old \in Seq(Traces), NEW new \in Seq(Traces), NEW cut \in {0, 1}, NEW traced \in Nat, NEW dropped \in Nat,
         NEW e \in Traces, Shifted(old, new, cut, e), Ring(old, traced, dropped), e.sequence = traced + 1,
         NEW bound \in [Contexts -> Nat], NEW next \in [Contexts -> Nat], Bounds(old, bound),
         Rebound(e, bound, next)
  PROVE  Bounds(new, next)
<1>1. /\ DOMAIN old = 1 .. Len(old) /\ DOMAIN new = 1 .. Len(new) /\ Len(old) \in Nat /\ Len(new) \in Nat \ {0}
      /\ Len(old) = Len(new) - 1 + cut /\ new[Len(new)] = e
      /\ \A i \in 1 .. Len(new) - 1 : i + cut \in 1 .. Len(old) /\ new[i] = old[i + cut]
  BY ONLY old \in Seq(Traces), new \in Seq(Traces), cut \in {0, 1}, Shifted(old, new, cut, e), ShiftedPositions
<1>2. PICK m, n \in Nat : m = Len(old) /\ n = Len(new)
  BY <1>1
<1>3. m = n - 1 + cut /\ traced = m + dropped /\ n \in 1 .. n
  BY <1>1, <1>2 DEF Ring
<1>4. SUFFICES ASSUME NEW i \in 1 .. n, NEW c \in Contexts, Binds(new[i], c)
               PROVE  /\ new[i].sequence <= next[c]
                      /\ \E j \in 1 .. n : Binds(new[j], c) /\ new[j].sequence = next[c]
  BY <1>1, <1>2 DEF Bounds
<1>5. \A k \in 1 .. m : old[k].sequence = dropped + k
  BY <1>1, <1>2 DEF Ring
<1>6. CASE i = n
  BY <1>1, <1>2, <1>3, <1>4, <1>6 DEF Rebound
<1>7. CASE i # n
  <2>1. i \in 1 .. n - 1
    BY <1>7
  <2>2. i + cut \in 1 .. m /\ new[i] = old[i + cut]
    BY <1>1, <1>2, <2>1
  <2>3. PICK j \in 1 .. m : /\ old[i + cut].sequence <= bound[c] /\ Binds(old[j], c) /\ old[j].sequence = bound[c]
    BY <1>1, <1>2, <1>4, <2>2 DEF Bounds
  <2>4. dropped + (i + cut) <= dropped + j /\ bound[c] = dropped + j /\ new[i].sequence = dropped + (i + cut)
    BY <1>5, <2>2, <2>3
  <2>5. i <= j - cut /\ j - cut \in 1 .. n - 1 /\ (j - cut) + cut = j
    <3>1. i + cut <= j
      BY <2>4
    <3>2. m = n - 1 + cut
      BY <1>3
    <3> QED BY ONLY <3>1, <3>2, i \in 1 .. n, j \in 1 .. m, m \in Nat, n \in Nat, cut \in {0, 1}
  <2>6. PICK k \in 1 .. n - 1 : k = j - cut
    BY <2>5
  <2>7. new[k] = old[j]
    BY <1>1, <1>2, <2>5, <2>6
  <2>8. CASE Binds(e, c)
    <3>1. dropped + (i + cut) <= traced + 1
      BY <1>3, <2>1
    <3>2. next[c] = traced + 1
      BY <2>8 DEF Rebound
    <3> QED BY <1>1, <1>2, <1>3, <2>4, <2>8, <3>1, <3>2
  <2>9. CASE ~Binds(e, c)
    <3>1. next[c] = bound[c]
      BY <2>9 DEF Rebound
    <3> QED BY <2>3, <2>4, <2>6, <2>7, <3>1, <1>3
  <2> QED BY <2>8, <2>9
<1> QED BY <1>6, <1>7

\* What was in force at parameters stays in the ring as long as any earlier bind does.
LEMMA ShiftedAfters ==
  ASSUME NEW old \in Seq(Traces), NEW new \in Seq(Traces), NEW cut \in {0, 1}, NEW traced \in Nat, NEW dropped \in Nat,
         NEW e \in Traces, Shifted(old, new, cut, e), Ring(old, traced, dropped),
         NEW bound \in [Contexts -> Nat], Bounds(old, bound), e.after = bound[e.context], Afters(old)
  PROVE  Afters(new)
<1>1. /\ DOMAIN old = 1 .. Len(old) /\ DOMAIN new = 1 .. Len(new) /\ Len(old) \in Nat /\ Len(new) \in Nat \ {0}
      /\ Len(old) = Len(new) - 1 + cut /\ new[Len(new)] = e
      /\ \A i \in 1 .. Len(new) - 1 : i + cut \in 1 .. Len(old) /\ new[i] = old[i + cut]
  BY ONLY old \in Seq(Traces), new \in Seq(Traces), cut \in {0, 1}, Shifted(old, new, cut, e), ShiftedPositions
<1>2. PICK m, n \in Nat : m = Len(old) /\ n = Len(new)
  BY <1>1
<1>3. m = n - 1 + cut /\ e.context \in Contexts
  BY <1>1, <1>2 DEF Traces
<1>4. SUFFICES ASSUME NEW p \in 1 .. n, new[p].kind = "parameters", NEW i \in 1 .. p - 1,
                      Binds(new[i], new[p].context)
               PROVE  /\ new[i].sequence <= new[p].after
                      /\ \E j \in 1 .. p - 1 : Binds(new[j], new[p].context) /\ new[j].sequence = new[p].after
  BY <1>1, <1>2 DEF Afters
<1>5. \A k \in 1 .. m : old[k].sequence = dropped + k
  BY <1>1, <1>2 DEF Ring
<1>6. i \in 1 .. n - 1 /\ i + cut \in 1 .. m /\ new[i] = old[i + cut]
  <2>1. i \in 1 .. n - 1
    OBVIOUS
  <2> QED BY <1>1, <1>2, <2>1
<1>7. PICK q \in 1 .. m + 1 : q = p + cut
  BY <1>3
<1>8. i + cut \in 1 .. q - 1
  BY <1>7
<1>9. PICK j \in 1 .. q - 1 : /\ old[i + cut].sequence <= new[p].after /\ Binds(old[j], new[p].context)
                              /\ old[j].sequence = new[p].after /\ j \in 1 .. m
  <2>1. CASE p = n
    <3>1. new[p] = e /\ q = m + 1
      BY <1>1, <1>2, <1>3, <1>7, <2>1
    <3>2. PICK k \in 1 .. m : /\ old[i + cut].sequence <= bound[e.context] /\ Binds(old[k], e.context)
                              /\ old[k].sequence = bound[e.context]
      BY <1>1, <1>2, <1>3, <1>4, <1>6, <3>1 DEF Bounds
    <3> QED BY <3>1, <3>2
  <2>2. CASE p # n
    <3>1. p \in 1 .. n - 1
      BY <2>2
    <3>2. q \in 1 .. m /\ new[p] = old[q]
      BY <1>1, <1>2, <1>7, <3>1
    <3>3. PICK k \in 1 .. q - 1 : /\ old[i + cut].sequence <= old[q].after /\ Binds(old[k], old[q].context)
                                  /\ old[k].sequence = old[q].after
      BY <1>1, <1>2, <1>4, <1>6, <1>8, <3>2 DEF Afters
    <3>4. k \in 1 .. m
      BY <3>2
    <3> QED BY <3>2, <3>3, <3>4
  <2> QED BY <2>1, <2>2
<1>10. dropped + (i + cut) <= dropped + j /\ new[p].after = dropped + j /\ new[i].sequence = dropped + (i + cut)
  BY <1>5, <1>6, <1>9
<1>11. i <= j - cut /\ j - cut \in 1 .. p - 1 /\ j - cut \in 1 .. n - 1 /\ (j - cut) + cut = j
  <2>1. i + cut <= j
    BY <1>10
  <2> QED BY ONLY <2>1, <1>7, i \in 1 .. p - 1, p \in 1 .. n, j \in 1 .. q - 1, n \in Nat, cut \in {0, 1}
<1>12. PICK k \in 1 .. p - 1 : k = j - cut
  BY <1>11
<1>13. new[k] = old[j]
  BY <1>1, <1>2, <1>11, <1>12
<1>14. new[i].sequence <= new[p].after
  BY <1>9, <1>6
<1> QED BY <1>9, <1>12, <1>13, <1>14

LEMMA TracedStep ==
  ASSUME FaultInv, FaultWatches, UNCHANGED gdbVars, NEW t \in Threads, NEW kind \in {"bind", "parameters"},
         NEW context \in Contexts, Traced(t, kind, context)
  PROVE  FaultInv'
<1> DEFINE number == fault.traced + 1
           e == [sequence |-> number, thread |-> t, kind |-> kind, context |-> context, after |-> scene.bound[context]]
<1>1. FaultShape /\ FirstInv /\ KeptInv /\ BoundInv /\ AfterInv
  BY DEF FaultInv
<1>2. /\ fault.traced \in Nat /\ fault.dropped \in Nat /\ fault.kept \in Seq(Traces)
      /\ scene.bound \in [Contexts -> Nat] /\ number \in Nat
  BY <1>1 DEF FaultShape
<1>3. e \in Traces /\ e.sequence = number /\ e.kind = kind /\ e.context = context /\ e.after = scene.bound[context]
  BY <1>2 DEF Traces
<1>4. /\ fault' = [fault EXCEPT !.traced = number, !.kept = Kept(e),
                                !.dropped = IF Len(fault.kept) = MaxKept THEN @ + 1 ELSE @]
      /\ scene' = IF kind = "bind" THEN [scene EXCEPT !.bound[context] = number] ELSE scene
  BY DEF Traced, TraceRecord
<1> HIDE DEF e, number
<1>5. PICK cut \in {0, 1}, new \in Seq(Traces) : new = Kept(e) /\ Shifted(fault.kept, new, cut, e)
  BY <1>1, <1>2, <1>3, TracedRing DEF Kept, KeptInv, Ring
<1>6. cut = 1 <=> Len(fault.kept) = MaxKept
  BY <1>5 DEF Shifted
<1>7. /\ fault'.traced = number /\ fault'.kept = new /\ fault'.dropped = fault.dropped + cut
      /\ fault'.pending = fault.pending /\ fault'.taken = fault.taken /\ DOMAIN fault' = DOMAIN fault
  BY <1>1, <1>2, <1>4, <1>5, <1>6 DEF FaultShape
<1>8. /\ scene'.stop = scene.stop /\ scene'.first = scene.first /\ DOMAIN scene' = DOMAIN scene
      /\ scene'.bound \in [Contexts -> Nat]
      /\ \A c \in Contexts : scene'.bound[c] = IF kind = "bind" /\ c = context THEN number ELSE scene.bound[c]
  BY <1>1, <1>2, <1>4 DEF FaultShape
<1>9. FaultShape'
  BY <1>1, <1>2, <1>5, <1>7, <1>8 DEF FaultShape
<1>10. FirstInv'
  BY <1>1, <1>7, <1>8 DEF FirstInv, FaultWatches, NoFault, Fatal, gdbVars
<1>11. KeptInv'
  BY <1>1, <1>2, <1>3, <1>5, <1>7, ShiftedRing DEF KeptInv, number
<1>12. \A c \in Contexts : scene'.bound[c] = IF Binds(e, c) THEN fault.traced + 1 ELSE scene.bound[c]
  BY <1>3, <1>8 DEF Binds, number
<1>13. BoundInv'
  <2>1. PICK next \in [Contexts -> Nat] : next = scene'.bound
    BY <1>8
  <2>2. Rebound(e, scene.bound, next)
    BY <1>12, <1>3, <2>1 DEF Rebound, number
  <2>3. /\ Ring(fault.kept, fault.traced, fault.dropped) /\ Bounds(fault.kept, scene.bound)
        /\ e.sequence = fault.traced + 1
    BY <1>1, <1>3 DEF KeptInv, BoundInv, number
  <2>4. Bounds(new, next)
    BY <1>2, <1>3, <1>5, <2>2, <2>3, ShiftedBounds
  <2> QED BY <1>7, <2>1, <2>4 DEF BoundInv
<1>14. AfterInv'
  BY <1>1, <1>2, <1>3, <1>5, <1>7, ShiftedAfters DEF KeptInv, BoundInv, AfterInv
<1> QED BY <1>9, <1>10, <1>11, <1>13, <1>14 DEF FaultInv

LEMMA UntracedStep ==
  ASSUME FaultInv, FaultWatches, UNCHANGED gdbVars, Untraced
  PROVE  FaultInv'
<1>1. FaultShape /\ FirstInv
  BY DEF FaultInv
<1>2. /\ scene.stop = NoFault /\ scene.first = NoFault /\ fault.pending = NoFault /\ fault.taken = NoFault
  BY <1>1 DEF FaultWatches, FirstInv
<1> DEFINE unread == [reason |-> "unread"]
<1>3. /\ fault' = [fault EXCEPT !.errors = TRUE]
      /\ scene' = [scene EXCEPT !.stop = unread]
  BY DEF Untraced
<1>4. unread.reason \notin Fatal /\ unread # NoFault /\ NoFault.reason \notin Fatal
  BY DEF Fatal, NoFault
<1> HIDE DEF unread
<1>5. /\ FaultShape' /\ scene'.bound = scene.bound /\ fault'.kept = fault.kept /\ fault'.traced = fault.traced
      /\ fault'.dropped = fault.dropped /\ scene'.first = scene.first
      /\ fault'.pending = fault.pending /\ scene'.stop = unread /\ fault'.taken = fault.taken
  BY <1>1, <1>3 DEF FaultShape
<1>6. FirstInv'
  BY <1>2, <1>4, <1>5 DEF FirstInv
<1> QED BY <1>5, <1>6, SameRing DEF FaultInv

\* Steps of the other probes, of the watchdog and of nobody.
LEMMA FaultStays ==
  ASSUME FaultInv, UNCHANGED faultVars, probe' = probe, probe # "fault" \/ session' # "run" \/ session' = session
  PROVE  FaultInv'
BY SameRing DEF FaultInv, FaultShape, FirstInv, Fault, faultVars

LEMMA FaultNextInv ==
  ASSUME FaultInv, GdbType, FaultNext
  PROVE  FaultInv'
<1>1. ASSUME NEW t \in Threads, NEW work \in Work, NEW vulkan \in BOOLEAN, CheckFails(t, work, vulkan)
      PROVE  FaultInv'
  BY <1>1, CheckStep
<1>2. ASSUME NEW t \in Threads, NEW work \in Work, NEW reason \in {"fatal-signal", "other-signal"},
             Signalled(t, work, reason)
      PROVE  FaultInv'
  BY <1>2, SignalStep
<1>3. ASSUME NEW t \in Threads, NEW kind \in {"bind", "parameters"}, NEW context \in Contexts,
             GraphicsEvent(t, kind, context)
      PROVE  FaultInv'
  <2>1. CASE UNCHANGED <<scene, fault>>
    BY <1>3, <2>1, FaultStays DEF GraphicsEvent, FaultWatches, faultVars, gdbVars
  <2> QED BY <1>3, <2>1, TracedStep, UntracedStep DEF GraphicsEvent, Ignored
<1>4. ASSUME FaultUeExits PROVE FaultInv'
  <2>1. UNCHANGED faultVars /\ probe' = probe /\ session' # "run"
    BY <1>4 DEF FaultUeExits, FaultWatches, Running, Stops, faultVars
  <2> QED BY <2>1, FaultStays
<1> QED BY <1>1, <1>2, <1>3, <1>4, FaultTimeoutStep, StoppedStep, FinishFaultStep DEF FaultNext

\* An accepted report is of the first fault, of its thread, and of the bind in force.
LEMMA FaultIsFirst_ ==
  ASSUME FaultInv
  PROVE  FaultIsFirst
<1> SUFFICES ASSUME AcceptsFault
             PROVE  /\ fault.taken = scene.first
                    /\ FaultBucket = "ue-graphics-binding" => scene.first.work \in Contexts
                    /\ FaultBucket = "nvidia-compute-compiler" => scene.first.work = Compiles
                    /\ Correlated => LastOf(BindsBefore(LastOf(Parameters))).sequence = LastOf(Parameters).after
  BY DEF FaultIsFirst
<1>1. FaultShape /\ FirstInv /\ KeptInv /\ AfterInv
  BY DEF FaultInv
<1>2. fault.taken = scene.first /\ fault.shows \in {scene.first.work, NoWork}
  BY <1>1 DEF FirstInv, AcceptsFault, Fatal
<1>3. /\ FaultBucket = "ue-graphics-binding" => fault.shows \in Contexts
      /\ FaultBucket = "nvidia-compute-compiler" => fault.shows = Compiles
  BY DEF FaultBucket
<1>4. Compiles # NoWork /\ NoWork \notin Contexts
  BY ContextsAssumption DEF Compiles, NoWork
<1>5. ASSUME Correlated
      PROVE  LastOf(BindsBefore(LastOf(Parameters))).sequence = LastOf(Parameters).after
  <2> DEFINE kept == fault.kept
  <2>1. PICK n \in Nat : n = Len(kept) /\ DOMAIN kept = 1 .. n /\ kept \in Seq(Traces)
    BY <1>1 DEF FaultShape
  <2>2. Parameters \in SUBSET (1 .. n) /\ Parameters # {}
    BY <1>5, <2>1 DEF Correlated, Parameters, KeptOf
  <2>3. PICK p \in Parameters : p = Max(Parameters)
    BY <2>2, MaxOfPositions
  <2>4. p \in 1 .. n /\ kept[p].kind = "parameters" /\ kept[p] = LastOf(Parameters) /\ kept[p] \in Traces
    <3>1. p \in 1 .. n /\ kept[p].kind = "parameters"
      BY <2>2, <2>3 DEF Parameters, KeptOf
    <3>2. kept[p] = LastOf(Parameters)
      BY <2>3 DEF LastOf
    <3>3. kept[p] \in Traces
      BY <2>1, <3>1
    <3> QED BY <3>1, <3>2, <3>3
  <2> DEFINE before == BindsBefore(kept[p])
  <2>5. before \in SUBSET (1 .. n) /\ before # {}
    BY <1>5, <2>1, <2>4 DEF Correlated, BindsBefore, KeptOf
  <2>6. PICK b \in before : b = Max(before) /\ \A k \in before : k <= b
    BY <2>5, MaxOfPositions
  <2>7. \A k \in 1 .. n : kept[k].sequence = fault.dropped + k
    BY <1>1, <2>1 DEF KeptInv, Ring
  <2>8. fault.dropped \in Nat
    BY <1>1 DEF FaultShape
  <2>9. b \in 1 .. n /\ Binds(kept[b], kept[p].context) /\ kept[b].sequence < kept[p].sequence
    BY <2>5, <2>6 DEF BindsBefore, KeptOf, Binds
  <2>10. b \in 1 .. p - 1
    BY <2>4, <2>7, <2>8, <2>9
  <2>11. PICK j \in 1 .. p - 1 : /\ kept[b].sequence <= kept[p].after
                                 /\ Binds(kept[j], kept[p].context) /\ kept[j].sequence = kept[p].after
    BY <1>1, <2>1, <2>4, <2>9, <2>10 DEF AfterInv, Afters
  <2>12. j \in 1 .. n /\ fault.dropped + j < fault.dropped + p
    BY <2>4, <2>8
  <2>13. j \in before
    BY <2>1, <2>4, <2>7, <2>11, <2>12 DEF BindsBefore, KeptOf, Binds
  <2>14. j <= b /\ fault.dropped + b <= fault.dropped + j
    BY <2>6, <2>7, <2>9, <2>11, <2>12, <2>13
  <2>15. j = b
    BY <2>8, <2>9, <2>12, <2>14
  <2> QED BY <2>4, <2>6, <2>11, <2>15 DEF LastOf
<1> QED BY <1>2, <1>3, <1>4, <1>5

--------------------------------------------------------------------------------
(* The probe of pipeline creation.                                         *)

\* The file is written from the state.
FileFollows ==
    files' = [files EXCEPT !.pipeline = [whole |-> TRUE, capture_complete |-> state'.target # 0 /\ ~state'.errors,
                                         calls |-> state'.calls, target_call |-> state'.target]]

LEMMA FileFollowing ==
  ASSUME PipelineShape, FileFollows
  PROVE  DOMAIN files' = {"pipeline", "device"} /\ FileInv'
BY DEF PipelineShape, FileFollows, FileInv

\* Parts of the state that a step leaves alone.
LEMMA SameFile ==
  ASSUME PipelineShape, FileInv, files'.pipeline = files.pipeline, state'.calls = state.calls,
         state'.target = state.target
  PROVE  FileInv'
BY DEF FileInv

LEMMA SameModules ==
  ASSUME ModulesInv, gpu'.step = gpu.step \/ gpu.step \notin {"hooked", "crashed"} \/ gpu'.step = "crashed",
         gpu'.live = gpu.live, state'.modules = state.modules, state'.calls = state.calls
  PROVE  ModulesInv'
BY DEF ModulesInv

LEMMA SameOpen ==
  ASSUME OpenInv, gpu'.thread = gpu.thread, gpu'.left = gpu.left, state'.calls = state.calls
  PROVE  OpenInv'
BY DEF OpenInv, Latest, In

LEMMA SameSelected ==
  ASSUME SelectedInv, gpu'.crashed = gpu.crashed, gpu'.left = gpu.left, state'.target = state.target,
         state'.calls = state.calls, mode' = mode, session' = session \/ session' # "run",
         gpu'.step = gpu.step \/ gpu'.step # "crashed" \/ session' # "run"
  PROVE  SelectedInv'
BY DEF SelectedInv

\* A thread that is in no compute call goes into none.
LEMMA OtherwiseOpen ==
  ASSUME PipelineShape, OpenInv, NEW t \in Threads, ~In(t, "compute"), NEW at \in {"ue", "create"}, NEW of \in Nat,
         gpu'.thread = [gpu.thread EXCEPT ![t] = [at |-> at, of |-> of]], gpu'.left = gpu.left,
         state'.calls = state.calls
  PROVE  OpenInv'
<1>1. /\ gpu.thread \in [Threads -> [at : {"ue", "create", "compute"}, of : Nat]]
      /\ \A k \in DOMAIN state.calls : state.calls[k].thread \in Threads
  <2>1. \A k \in DOMAIN state.calls : state.calls[k] \in Calling
    BY DEF PipelineShape
  <2> QED BY <2>1 DEF PipelineShape, Calling
<1>2. /\ gpu'.thread[t].at = at
      /\ \A other \in Threads : other # t => gpu'.thread[other] = gpu.thread[other]
  BY <1>1
<1>3. \A k \in DOMAIN state.calls : ~state.calls[k].returned => k \in gpu.left \/ state.calls[k].thread # t
  BY DEF OpenInv, In
<1>4. ASSUME NEW other \in Threads, gpu'.thread[other].at = "compute"
      PROVE  other # t /\ gpu'.thread[other] = gpu.thread[other]
  BY <1>2, <1>4
<1>5. ASSUME NEW other \in Threads, gpu'.thread[other].at = "compute"
      PROVE  Latest(other)'
  <2>1. Latest(other)
    BY <1>4, <1>5 DEF OpenInv, In
  <2> QED BY <1>4, <1>5, <2>1 DEF Latest
<1>6. ASSUME NEW k \in DOMAIN state.calls, ~state.calls[k].returned, k \notin gpu.left
      PROVE  gpu'.thread[state.calls[k].thread] = gpu.thread[state.calls[k].thread]
  BY <1>1, <1>2, <1>3, <1>6
<1>7. /\ gpu'.left \subseteq DOMAIN state'.calls
      /\ \A k \in DOMAIN state'.calls : ~state'.calls[k].returned =>
            \/ k \in gpu'.left
            \/ gpu'.thread[state'.calls[k].thread].at = "compute" /\ gpu'.thread[state'.calls[k].thread].of = k
  BY <1>6 DEF OpenInv, In
<1> QED BY <1>5, <1>7 DEF OpenInv, In

LEMMA RefusesStep ==
  ASSUME PipelineInv, session = "run", Refuses
  PROVE  PipelineInv'
<1>1. PipelineShape /\ ModulesInv /\ OpenInv /\ SelectedInv
  BY DEF PipelineInv
<1>2. state' = [state EXCEPT !.errors = TRUE] /\ UNCHANGED <<mode, gpu, probe>> /\ session' = "finish"
  BY DEF Refuses, Saves, Stops
<1>3. FileFollows
  BY <1>2 DEF Refuses, Saves, FileFollows
<1>4. DOMAIN files' = {"pipeline", "device"} /\ FileInv'
  BY <1>1, <1>3, FileFollowing
<1>5. /\ DOMAIN state' = DOMAIN state /\ state'.calls = state.calls /\ state'.modules = state.modules
      /\ state'.target = state.target
  BY <1>1, <1>2 DEF PipelineShape
<1>6. PipelineShape'
  BY <1>1, <1>2, <1>4, <1>5 DEF PipelineShape
<1> QED BY <1>1, <1>2, <1>4, <1>5, <1>6, SameModules, SameOpen, SameSelected DEF PipelineInv

\* Before the device is there.
LEMMA SetupSteps ==
  ASSUME PipelineInv, session = "run", InstanceEntry \/ DeviceEntry \/ SetupEntry
  PROVE  PipelineInv'
<1>1. PipelineShape /\ ModulesInv /\ OpenInv /\ SelectedInv /\ FileInv
  BY DEF PipelineInv
<1>2. ASSUME NEW step \in {"instance", "device", "formats"}, NEW next \in {"device", "formats", "hooked"},
             Setup(step, next)
      PROVE  /\ gpu'.step = next /\ gpu.step = step /\ DOMAIN gpu' = DOMAIN gpu /\ gpu'.thread = gpu.thread
             /\ gpu'.live = gpu.live /\ gpu'.made = gpu.made /\ gpu'.crashed = gpu.crashed /\ gpu'.left = gpu.left
             /\ UNCHANGED <<mode, probe, session>>
  BY <1>1, <1>2 DEF Setup, PipelineShape, gdbVars
<1>3. CASE Setup("instance", "device") /\ InstanceRead
  <2>1. /\ DOMAIN state' = DOMAIN state /\ state'.calls = state.calls /\ state'.modules = state.modules
        /\ state'.target = state.target /\ UNCHANGED files
    BY <1>1, <1>3 DEF InstanceRead, PipelineShape
  <2>2. PipelineShape'
    BY <1>1, <1>2, <1>3, <2>1 DEF PipelineShape
  <2> QED BY <1>1, <1>2, <1>3, <2>1, <2>2, SameModules, SameOpen, SameSelected, SameFile DEF PipelineInv
<1>4. CASE Setup("device", "formats") /\ DeviceSaved
  <2>1. UNCHANGED state /\ DOMAIN files' = DOMAIN files /\ files'.pipeline = files.pipeline
    BY <1>1, <1>4 DEF DeviceSaved, PipelineShape
  <2>2. PipelineShape'
    BY <1>1, <1>2, <1>4, <2>1 DEF PipelineShape
  <2> QED BY <1>1, <1>2, <1>4, <2>1, <2>2, SameModules, SameOpen, SameSelected, SameFile DEF PipelineInv
<1>5. CASE Setup("formats", "hooked") /\ Saves(state)
  <2>1. UNCHANGED state /\ FileFollows
    BY <1>5 DEF Saves, FileFollows
  <2>2. DOMAIN files' = {"pipeline", "device"} /\ FileInv'
    BY <1>1, <2>1, FileFollowing
  <2>3. PipelineShape'
    BY <1>1, <1>2, <1>5, <2>1, <2>2 DEF PipelineShape
  <2> QED BY <1>1, <1>2, <1>5, <2>1, <2>2, <2>3, SameModules, SameOpen, SameSelected DEF PipelineInv
<1> QED BY <1>3, <1>4, <1>5, RefusesStep DEF InstanceEntry, DeviceEntry, SetupEntry

LEMMA CreateEntryStep ==
  ASSUME PipelineInv, NEW t \in Threads, CreateEntry(t)
  PROVE  PipelineInv'
<1>1. PipelineShape /\ ModulesInv /\ OpenInv /\ SelectedInv /\ FileInv
  BY DEF PipelineInv
<1>2. session = "run" /\ In(t, "ue") /\ ~In(t, "compute")
  BY DEF CreateEntry, PipelineCaptures, Running, In
<1>3. CASE Refuses
  BY <1>2, <1>3, RefusesStep
<1>4. CASE ~Refuses
  <2> DEFINE made == gpu.made + 1
  <2>1. made \in Nat
    BY <1>1 DEF PipelineShape
  <2>2. /\ gpu' = [gpu EXCEPT !.thread[t] = [at |-> "create", of |-> made], !.made = made]
        /\ state' = IF Hooked THEN [state EXCEPT !.objects = @ + 1] ELSE state
        /\ UNCHANGED <<mode, files, gdbVars>>
    BY <1>1, <1>4 DEF CreateEntry, Goes, PipelineShape
  <2> HIDE DEF made
  <2>3. /\ DOMAIN state' = DOMAIN state /\ state'.calls = state.calls /\ state'.modules = state.modules
        /\ state'.target = state.target
    BY <1>1, <2>2 DEF PipelineShape
  <2>4. /\ DOMAIN gpu' = DOMAIN gpu /\ gpu'.step = gpu.step /\ gpu'.live = gpu.live /\ gpu'.made = made
        /\ gpu'.crashed = gpu.crashed /\ gpu'.left = gpu.left
        /\ gpu'.thread = [gpu.thread EXCEPT ![t] = [at |-> "create", of |-> made]]
    BY <1>1, <2>2 DEF PipelineShape
  <2>5. PipelineShape'
    BY <1>1, <2>1, <2>2, <2>3, <2>4 DEF PipelineShape
  <2>6. OpenInv'
    BY <1>1, <1>2, <2>1, <2>3, <2>4, OtherwiseOpen
  <2> QED BY <1>1, <2>2, <2>3, <2>4, <2>5, <2>6, SameModules, SameSelected, SameFile DEF PipelineInv, gdbVars
<1> QED BY <1>3, <1>4

LEMMA CreatedStep ==
  ASSUME PipelineInv, NEW t \in Threads, Created(t)
  PROVE  PipelineInv'
<1>1. PipelineShape /\ ModulesInv /\ OpenInv /\ SelectedInv /\ FileInv
  BY DEF PipelineInv
<1>2. session = "run" /\ ~In(t, "compute") /\ UNCHANGED <<mode, gdbVars>>
  BY DEF Created, PipelineCaptures, Running, In
<1>3. PICK h \in Handles :
        /\ gpu.live[h] = Unknown
        /\ gpu' = [Goes(t, "ue", 0) EXCEPT !.live[h] = gpu.thread[t].of]
        /\ IF Hooked THEN Saves([state EXCEPT !.modules[h] = gpu.thread[t].of]) ELSE UNCHANGED <<state, files>>
  BY DEF Created
<1>4. PICK content \in Nat : content = gpu.thread[t].of
  BY <1>1 DEF PipelineShape
<1>5. /\ DOMAIN gpu' = DOMAIN gpu /\ gpu'.step = gpu.step /\ gpu'.made = gpu.made
      /\ gpu'.crashed = gpu.crashed /\ gpu'.left = gpu.left
      /\ gpu'.live = [gpu.live EXCEPT ![h] = content]
      /\ gpu'.thread = [gpu.thread EXCEPT ![t] = [at |-> "ue", of |-> 0]]
  BY <1>1, <1>3, <1>4 DEF PipelineShape, Goes
<1>6. /\ DOMAIN state' = DOMAIN state /\ state'.calls = state.calls /\ state'.target = state.target
      /\ DOMAIN files' = {"pipeline", "device"} /\ FileInv'
      /\ state'.modules = IF Hooked THEN [state.modules EXCEPT ![h] = content] ELSE state.modules
  <2>1. CASE Hooked
    <3>1. state' = [state EXCEPT !.modules[h] = content]
      BY <1>3, <1>4, <2>1 DEF Saves
    <3>2. FileFollows
      BY <1>3, <2>1, <3>1 DEF Saves, FileFollows
    <3> QED BY <1>1, <2>1, <3>1, <3>2, FileFollowing DEF PipelineShape
  <2>2. CASE ~Hooked
    BY <1>1, <1>3, <2>2 DEF PipelineShape, FileInv
  <2> QED BY <2>1, <2>2
<1>7. PipelineShape'
  BY <1>1, <1>4, <1>5, <1>6 DEF PipelineShape
<1>8. ModulesInv'
  <2>1. gpu.live \in [Handles -> Nat] /\ state.modules \in [Handles -> Nat]
    BY <1>1 DEF PipelineShape
  <2>2. CASE Hooked
    BY <1>1, <1>5, <1>6, <2>1, <2>2 DEF ModulesInv, Hooked
  <2>3. CASE ~Hooked
    <3>1. gpu.step # "crashed" => \A g \in Handles : state.modules[g] = Unknown
      BY <1>1, <2>3 DEF ModulesInv, Hooked
    <3>2. state'.modules = state.modules /\ \A g \in Handles : g # h => gpu'.live[g] = gpu.live[g]
      BY <1>5, <1>6, <2>1, <2>3
    <3>3. gpu.step # "crashed"
      BY <1>1, <1>2 DEF SelectedInv
    <3> QED BY <1>1, <1>5, <1>6, <2>3, <3>1, <3>2, <3>3 DEF ModulesInv, Hooked
  <2> QED BY <2>2, <2>3
<1>9. OpenInv'
  BY <1>1, <1>2, <1>5, <1>6, OtherwiseOpen
<1> QED BY <1>1, <1>2, <1>5, <1>6, <1>7, <1>8, <1>9, SameSelected DEF PipelineInv, gdbVars

LEMMA CreateFailsStep ==
  ASSUME PipelineInv, GdbType, NEW t \in Threads, CreateFails(t)
  PROVE  PipelineInv'
<1>1. PipelineShape /\ ModulesInv /\ OpenInv /\ SelectedInv /\ FileInv
  BY DEF PipelineInv
<1>2. /\ session = "run" /\ ~In(t, "compute") /\ UNCHANGED mode /\ gpu' = Goes(t, "ue", 0)
      /\ session' = session \/ session' # "run"
  BY DEF CreateFails, PipelineCaptures, Running, In, Stops
<1>3. /\ DOMAIN gpu' = DOMAIN gpu /\ gpu'.step = gpu.step /\ gpu'.made = gpu.made
      /\ gpu'.crashed = gpu.crashed /\ gpu'.left = gpu.left
      /\ gpu'.live = gpu.live /\ gpu'.thread = [gpu.thread EXCEPT ![t] = [at |-> "ue", of |-> 0]]
  BY <1>1, <1>2 DEF PipelineShape, Goes
<1>4. /\ DOMAIN state' = DOMAIN state /\ state'.calls = state.calls /\ state'.target = state.target
      /\ state'.modules = state.modules /\ DOMAIN files' = {"pipeline", "device"} /\ FileInv'
  <2>1. CASE Hooked
    <3>1. state' = [state EXCEPT !.errors = TRUE]
      BY <2>1 DEF CreateFails, Saves
    <3>2. FileFollows
      BY <2>1, <3>1 DEF CreateFails, Saves, FileFollows
    <3> QED BY <1>1, <3>1, <3>2, FileFollowing DEF PipelineShape
  <2>2. CASE ~Hooked
    BY <1>1, <2>2 DEF CreateFails, PipelineShape, FileInv
  <2> QED BY <2>1, <2>2
<1>5. PipelineShape'
  BY <1>1, <1>3, <1>4 DEF PipelineShape
<1>6. OpenInv'
  BY <1>1, <1>2, <1>3, <1>4, OtherwiseOpen
<1> QED BY <1>1, <1>2, <1>3, <1>4, <1>5, <1>6, SameModules, SameSelected DEF PipelineInv

LEMMA DestroyStep ==
  ASSUME PipelineInv, NEW h \in Handles, Destroy(h)
  PROVE  PipelineInv'
<1>1. PipelineShape /\ ModulesInv /\ OpenInv /\ SelectedInv /\ FileInv
  BY DEF PipelineInv
<1>2. gpu' = [gpu EXCEPT !.live[h] = Unknown] /\ UNCHANGED <<mode, state, files, gdbVars>>
  BY DEF Destroy
<1>3. /\ DOMAIN gpu' = DOMAIN gpu /\ gpu'.step = gpu.step /\ gpu'.made = gpu.made
      /\ gpu'.crashed = gpu.crashed /\ gpu'.left = gpu.left
      /\ gpu'.live = [gpu.live EXCEPT ![h] = Unknown] /\ gpu'.thread = gpu.thread
  BY <1>1, <1>2 DEF PipelineShape
<1>4. PipelineShape'
  BY <1>1, <1>2, <1>3 DEF PipelineShape, Unknown
<1>5. ModulesInv'
  <2>1. gpu.live \in [Handles -> Nat]
    BY <1>1 DEF PipelineShape
  <2> QED BY <1>1, <1>2, <1>3, <2>1 DEF ModulesInv
<1> QED BY <1>1, <1>2, <1>3, <1>4, <1>5, SameOpen, SameSelected, SameFile DEF PipelineInv, gdbVars

\* A call is noted with what is known of its handle, which is what the driver has.
LEMMA ComputeNoted ==
  ASSUME PipelineInv, GdbType, NEW t \in Threads, NEW h \in Handles, ComputeEntry(t, h), ~Refuses
  PROVE  PipelineInv'
<1>1. PipelineShape /\ ModulesInv /\ OpenInv /\ SelectedInv /\ FileInv
  BY DEF PipelineInv
<1>2. /\ session = "run" /\ Hooked /\ In(t, "ue") /\ gpu.live[h] # Unknown /\ state.modules[h] # Unknown
      /\ UNCHANGED mode /\ (session' = session \/ session' # "run")
  BY DEF ComputeEntry, PipelineCaptures, Running, Stops
<1>3. PICK n \in Nat : n = Len(state.calls) /\ DOMAIN state.calls = 1 .. n
  <2>1. state.calls \in Seq(Calling)
    BY <1>1 DEF PipelineShape
  <2> QED BY ONLY <2>1
<1>4. PICK k \in Nat \ {0} : k = n + 1
  OBVIOUS
<1>5. PICK target \in BOOLEAN, selected \in BOOLEAN, last \in BOOLEAN :
        /\ selected = (target /\ mode # "crash")
        /\ Saves([state EXCEPT !.calls = Append(@, Record(t, h, target)), !.target = IF selected THEN k ELSE @,
                               !.timer = @ /\ ~last])
        /\ gpu' = Goes(t, "compute", k)
  BY <1>3, <1>4 DEF ComputeEntry
<1>6. PICK record \in Calling : record = Record(t, h, target)
  BY <1>1 DEF Record, Calling, PipelineShape
<1>7. /\ record.thread = t /\ ~record.returned /\ record.module = state.modules[h] /\ record.real = gpu.live[h]
      /\ record.target = target
  BY <1>6 DEF Record
<1>8. PICK chosen \in Nat : chosen = IF selected THEN k ELSE state.target
  BY <1>1 DEF PipelineShape
<1>9. state' = [state EXCEPT !.calls = Append(@, record), !.target = chosen, !.timer = @ /\ ~last]
  BY <1>1, <1>5, <1>6, <1>8 DEF Saves, PipelineShape
<1>10. FileFollows
  BY <1>5 DEF Saves, FileFollows
<1>11. DOMAIN files' = {"pipeline", "device"} /\ FileInv'
  BY <1>1, <1>10, FileFollowing
<1>12. /\ DOMAIN state' = DOMAIN state /\ state'.modules = state.modules /\ state'.target = chosen
       /\ state'.calls = Append(state.calls, record)
  BY <1>1, <1>9 DEF PipelineShape
<1>13. PICK calls \in Seq(Calling) : /\ calls = Append(state.calls, record) /\ DOMAIN calls = 1 .. k /\ calls[k] = record
                                     /\ \A i \in 1 .. n : calls[i] = state.calls[i]
  <2>1. state.calls \in Seq(Calling)
    BY <1>1 DEF PipelineShape
  <2>2. /\ Append(state.calls, record) \in Seq(Calling) /\ Len(Append(state.calls, record)) = Len(state.calls) + 1
        /\ \A i \in 1 .. Len(state.calls) : Append(state.calls, record)[i] = state.calls[i]
        /\ Append(state.calls, record)[Len(state.calls) + 1] = record
    BY <2>1
  <2>3. DOMAIN Append(state.calls, record) = 1 .. k
    BY <1>3, <1>4, <2>2
  <2> QED BY <1>3, <1>4, <2>2, <2>3
<1>14. state'.calls = calls
  BY <1>12, <1>13
<1>15. /\ DOMAIN gpu' = DOMAIN gpu /\ gpu'.step = gpu.step /\ gpu'.made = gpu.made
       /\ gpu'.crashed = gpu.crashed /\ gpu'.left = gpu.left
       /\ gpu'.live = gpu.live /\ gpu'.thread = [gpu.thread EXCEPT ![t] = [at |-> "compute", of |-> k]]
  BY <1>1, <1>5 DEF PipelineShape, Goes
<1>16. gpu.thread \in [Threads -> [at : {"ue", "create", "compute"}, of : Nat]]
  BY <1>1 DEF PipelineShape
<1>17. PipelineShape'
  BY <1>1, <1>11, <1>12, <1>14, <1>15, <1>16 DEF PipelineShape
<1>18. \A i \in 1 .. k : i = k \/ i \in 1 .. n
  BY <1>4
<1>19. ModulesInv'
  <2>1. record.module = record.real
    BY <1>1, <1>2, <1>7 DEF ModulesInv
  <2> QED BY <1>1, <1>3, <1>12, <1>13, <1>14, <1>15, <1>18, <2>1 DEF ModulesInv
<1>20. OpenInv'
  <2>0. gpu.left \subseteq 1 .. n /\ \A j \in gpu.left : j < k /\ j \in 1 .. k
    <3>1. gpu.left \subseteq 1 .. n
      BY <1>1, <1>3 DEF OpenInv
    <3> QED BY <1>4, <3>1
  <2>1. \A i \in 1 .. n : ~state.calls[i].returned =>
           \/ i \in gpu.left
           \/ /\ gpu.thread[state.calls[i].thread].at = "compute" /\ gpu.thread[state.calls[i].thread].of = i
              /\ state.calls[i].thread \in Threads
    <3>1. \A i \in 1 .. n : state.calls[i] \in Calling
      BY <1>1, <1>3 DEF PipelineShape
    <3>2. \A i \in 1 .. n : state.calls[i].thread \in Threads
      BY <3>1 DEF Calling
    <3>3. \A i \in 1 .. n : ~state.calls[i].returned =>
             \/ i \in gpu.left
             \/ gpu.thread[state.calls[i].thread].at = "compute" /\ gpu.thread[state.calls[i].thread].of = i
      BY <1>1, <1>3 DEF OpenInv, In
    <3> QED BY <3>2, <3>3
  <2>2. \A i \in 1 .. n : ~state.calls[i].returned => i \in gpu.left \/ state.calls[i].thread # t
    BY <1>2, <2>1 DEF In
  <2>3. /\ gpu'.thread[t] = [at |-> "compute", of |-> k]
        /\ \A other \in Threads : other # t => gpu'.thread[other] = gpu.thread[other]
    BY <1>15, <1>16
  <2>4. ASSUME NEW other \in Threads, gpu'.thread[other].at = "compute"
        PROVE  LET i == gpu'.thread[other].of IN
               /\ i \in 1 .. k /\ calls[i].thread = other /\ ~calls[i].returned
               /\ \A j \in gpu.left : calls[j].thread = other => j < i
    <3>1. CASE other = t
      BY <1>4, <1>7, <1>13, <2>0, <2>3, <3>1
    <3>2. CASE other # t
      <4>1. /\ gpu.thread[other].of \in 1 .. n /\ state.calls[gpu.thread[other].of].thread = other
            /\ ~state.calls[gpu.thread[other].of].returned
            /\ \A j \in gpu.left : state.calls[j].thread = other => j < gpu.thread[other].of
        BY <1>1, <1>3, <2>3, <2>4, <3>2 DEF OpenInv, Latest, In
      <4>2. PICK i \in 1 .. n : i = gpu.thread[other].of
        BY <4>1
      <4>3. i \in 1 .. k /\ calls[i] = state.calls[i]
        BY <1>4, <1>13, <4>2
      <4>4. \A j \in gpu.left : calls[j] = state.calls[j]
        BY <1>13, <2>0
      <4>5. gpu'.thread[other].of = i
        BY <2>3, <3>2, <4>2
      <4>6. /\ calls[i].thread = other /\ ~calls[i].returned
            /\ \A j \in gpu.left : calls[j].thread = other => j < i
        BY <4>1, <4>2, <4>3, <4>4
      <4> QED BY <4>3, <4>5, <4>6
    <3> QED BY <3>1, <3>2
  <2>5. ASSUME NEW i \in 1 .. k, ~calls[i].returned
        PROVE  \/ i \in gpu.left
               \/ gpu'.thread[calls[i].thread].at = "compute" /\ gpu'.thread[calls[i].thread].of = i
    <3>1. CASE i = k
      BY <1>7, <1>13, <2>3, <3>1
    <3>2. CASE i \in 1 .. n /\ i \notin gpu.left
      <4>1. calls[i] = state.calls[i]
        BY <1>13, <3>2
      <4>2. /\ gpu.thread[calls[i].thread].at = "compute" /\ gpu.thread[calls[i].thread].of = i
            /\ calls[i].thread \in Threads /\ calls[i].thread # t
        BY <2>1, <2>2, <2>5, <3>2, <4>1
      <4> QED BY <2>3, <4>2
    <3> QED BY <1>18, <3>1, <3>2
  <2>6. gpu'.left \subseteq DOMAIN state'.calls /\ DOMAIN state'.calls = 1 .. k /\ gpu'.left = gpu.left
    BY <1>13, <1>14, <1>15, <2>0
  <2>7. ASSUME NEW other \in Threads, gpu'.thread[other].at = "compute"
        PROVE  Latest(other)'
    BY <1>14, <2>4, <2>6, <2>7 DEF Latest
  <2>8. \A i \in DOMAIN state'.calls : ~state'.calls[i].returned =>
           \/ i \in gpu'.left
           \/ gpu'.thread[state'.calls[i].thread].at = "compute" /\ gpu'.thread[state'.calls[i].thread].of = i
    BY <1>14, <2>5, <2>6
  <2> QED BY <2>6, <2>7, <2>8 DEF OpenInv, In
<1>21. SelectedInv'
  <2>1. state.target # 0 => state.target \in 1 .. n
    BY <1>1, <1>3 DEF SelectedInv
  <2>2. mode = "crash" => state.target = 0 /\ ~selected
    BY <1>1, <1>2, <1>5 DEF SelectedInv
  <2>3. mode # "crash" /\ state.target # 0 => state.calls[state.target].target
    BY <1>1 DEF SelectedInv
  <2>4. chosen # 0 => chosen \in 1 .. k /\ mode # "crash" /\ calls[chosen].target
    <3>1. CASE selected
      <4>1. target /\ mode # "crash"
        BY <1>5, <3>1, Zenon
      <4>2. chosen = k /\ k \in 1 .. k
        BY <1>8, <3>1
      <4> QED BY <1>7, <1>13, <4>1, <4>2
    <3>2. CASE ~selected /\ chosen # 0
      <4>1. chosen = state.target /\ chosen \in 1 .. n /\ mode # "crash" /\ state.calls[chosen].target
        BY <1>8, <2>1, <2>2, <2>3, <3>2
      <4>2. chosen \in 1 .. k /\ calls[chosen] = state.calls[chosen]
        BY <1>4, <1>13, <4>1
      <4> QED BY <4>1, <4>2
    <3> QED BY <3>1, <3>2
  <2>5. gpu'.step = "crashed" => session' # "run"
    BY <1>1, <1>2, <1>15 DEF SelectedInv
  <2>6. state'.target = chosen /\ mode' = mode /\ DOMAIN state'.calls = 1 .. k
    BY <1>2, <1>12, <1>13, <1>14
  <2> QED BY <1>14, <2>4, <2>5, <2>6 DEF SelectedInv
<1> QED BY <1>11, <1>17, <1>19, <1>20, <1>21 DEF PipelineInv

LEMMA ComputeReturnedStep ==
  ASSUME PipelineInv, GdbType, NEW t \in Threads, ComputeReturned(t)
  PROVE  PipelineInv'
<1>1. PipelineShape /\ ModulesInv /\ OpenInv /\ SelectedInv /\ FileInv
  BY DEF PipelineInv
<1>2. session = "run" /\ In(t, "compute") /\ UNCHANGED mode /\ (session' = session \/ session' # "run")
  BY DEF ComputeReturned, PipelineCaptures, Running, Stops
<1>3. PICK n \in Nat : n = Len(state.calls) /\ DOMAIN state.calls = 1 .. n
  <2>1. state.calls \in Seq(Calling)
    BY <1>1 DEF PipelineShape
  <2> QED BY ONLY <2>1
<1>4. PICK k \in 1 .. n : k = gpu.thread[t].of /\ state.calls[k].thread = t /\ ~state.calls[k].returned
  BY <1>1, <1>2, <1>3 DEF OpenInv, Latest
<1>5. PICK last \in BOOLEAN :
         Saves([state EXCEPT !.calls[k].returned = TRUE, !.timer = @ /\ ~last])
  BY <1>4 DEF ComputeReturned
<1>6. state' = [state EXCEPT !.calls[k].returned = TRUE, !.timer = @ /\ ~last] /\ FileFollows
  BY <1>5 DEF Saves, FileFollows
<1>7. DOMAIN files' = {"pipeline", "device"} /\ FileInv'
  BY <1>1, <1>6, FileFollowing
<1>8. \A i \in 1 .. n : state.calls[i] \in Calling
  BY <1>1, <1>3 DEF PipelineShape
<1>9. /\ DOMAIN state' = DOMAIN state /\ state'.modules = state.modules /\ state'.target = state.target
      /\ state'.calls = [state.calls EXCEPT ![k] = [@ EXCEPT !.returned = TRUE]]
  BY <1>1, <1>6 DEF PipelineShape
<1>10. PICK record \in Calling :
         /\ record = [state.calls[k] EXCEPT !.returned = TRUE]
         /\ record.returned /\ record.thread = t /\ record.module = state.calls[k].module
         /\ record.real = state.calls[k].real /\ record.target = state.calls[k].target
  <2>1. PICK call \in Calling : call = state.calls[k]
    BY <1>8
  <2>2. /\ [call EXCEPT !.returned = TRUE] \in Calling /\ [call EXCEPT !.returned = TRUE].returned
        /\ [call EXCEPT !.returned = TRUE].thread = call.thread /\ [call EXCEPT !.returned = TRUE].module = call.module
        /\ [call EXCEPT !.returned = TRUE].real = call.real /\ [call EXCEPT !.returned = TRUE].target = call.target
    BY DEF Calling
  <2> QED BY <1>4, <2>1, <2>2
<1>11. PICK calls \in Seq(Calling) : /\ calls = [state.calls EXCEPT ![k] = record] /\ DOMAIN calls = 1 .. n
                                     /\ calls[k] = record
                                     /\ \A i \in 1 .. n : i # k => calls[i] = state.calls[i]
  <2>1. state.calls \in Seq(Calling)
    BY <1>1 DEF PipelineShape
  <2>2. /\ [state.calls EXCEPT ![k] = record] \in Seq(Calling)
        /\ Len([state.calls EXCEPT ![k] = record]) = Len(state.calls)
        /\ \A i \in 1 .. Len(state.calls) :
              [state.calls EXCEPT ![k] = record][i] = IF i = k THEN record ELSE state.calls[i]
    BY <1>3, <2>1, ExceptSeq
  <2>3. DOMAIN [state.calls EXCEPT ![k] = record] = 1 .. n
    BY <1>3
  <2> QED BY <1>3, <2>2, <2>3
<1>12. state'.calls = calls
  BY <1>9, <1>10, <1>11
<1>13. /\ DOMAIN gpu' = DOMAIN gpu /\ gpu'.step = gpu.step /\ gpu'.made = gpu.made
       /\ gpu'.crashed = gpu.crashed /\ gpu'.left = gpu.left
       /\ gpu'.live = gpu.live /\ gpu'.thread = [gpu.thread EXCEPT ![t] = [at |-> "ue", of |-> 0]]
  BY <1>1 DEF ComputeReturned, PipelineShape, Goes
<1>14. gpu.thread \in [Threads -> [at : {"ue", "create", "compute"}, of : Nat]]
  BY <1>1 DEF PipelineShape
<1>15. PipelineShape'
  <2>1. gpu'.thread \in [Threads -> [at : {"ue", "create", "compute"}, of : Nat]]
    BY <1>13, <1>14
  <2> QED BY <1>1, <1>7, <1>9, <1>12, <1>13, <2>1 DEF PipelineShape
<1>16. ModulesInv'
  <2>1. \A i \in 1 .. n : calls[i].module = calls[i].real
    BY <1>1, <1>3, <1>10, <1>11 DEF ModulesInv
  <2> QED BY <1>1, <1>9, <1>11, <1>12, <1>13, <2>1 DEF ModulesInv
<1>17. OpenInv'
  <2>0. gpu.left \subseteq 1 .. n /\ k \notin gpu.left /\ \A i \in 1 .. n : calls[i].thread = state.calls[i].thread
    <3>1. \A j \in gpu.left : state.calls[j].thread = t => j < k
      BY <1>1, <1>2, <1>4 DEF OpenInv, Latest
    <3>2. gpu.left \subseteq 1 .. n
      BY <1>1, <1>3 DEF OpenInv
    <3>3. state.calls[k].thread = t /\ k \in Nat
      BY <1>1, <1>2, <1>3, <1>4 DEF OpenInv, Latest
    <3>4. k \notin gpu.left
      BY <3>1, <3>3
    <3>5. \A i \in 1 .. n : calls[i].thread = state.calls[i].thread
      BY <1>10, <1>11, <3>3
    <3> QED BY <3>2, <3>4, <3>5
  <2>1. /\ gpu'.thread[t].at = "ue"
        /\ \A other \in Threads : other # t => gpu'.thread[other] = gpu.thread[other]
    BY <1>13, <1>14
  <2>2. ASSUME NEW other \in Threads, gpu'.thread[other].at = "compute"
        PROVE  LET i == gpu'.thread[other].of IN
               /\ i \in 1 .. n /\ calls[i].thread = other /\ ~calls[i].returned
               /\ \A j \in gpu.left : calls[j].thread = other => j < i
    <3>1. other # t /\ gpu'.thread[other] = gpu.thread[other]
      BY <2>1, <2>2
    <3>2. /\ gpu.thread[other].of \in 1 .. n /\ state.calls[gpu.thread[other].of].thread = other
          /\ ~state.calls[gpu.thread[other].of].returned
          /\ \A j \in gpu.left : state.calls[j].thread = other => j < gpu.thread[other].of
      BY <1>1, <1>3, <2>2, <3>1 DEF OpenInv, Latest, In
    <3> QED BY <1>4, <1>11, <2>0, <3>1, <3>2
  <2>3. ASSUME NEW i \in 1 .. n, ~calls[i].returned, i \notin gpu.left
        PROVE  gpu'.thread[calls[i].thread].at = "compute" /\ gpu'.thread[calls[i].thread].of = i
    <3>1. i # k /\ calls[i] = state.calls[i] /\ calls[i].thread \in Threads
      BY <1>8, <1>10, <1>11, <2>3 DEF Calling
    <3>2. gpu.thread[calls[i].thread].at = "compute" /\ gpu.thread[calls[i].thread].of = i
      BY <1>1, <1>3, <2>3, <3>1 DEF OpenInv, In
    <3>3. calls[i].thread # t
      BY <1>4, <3>1, <3>2
    <3> QED BY <2>1, <3>1, <3>2, <3>3
  <2>4. gpu'.left \subseteq DOMAIN state'.calls /\ DOMAIN state'.calls = 1 .. n /\ gpu'.left = gpu.left
    BY <1>11, <1>12, <1>13, <2>0
  <2>5. ASSUME NEW other \in Threads, gpu'.thread[other].at = "compute"
        PROVE  Latest(other)'
    BY <1>12, <2>2, <2>4, <2>5 DEF Latest
  <2>6. \A i \in DOMAIN state'.calls : ~state'.calls[i].returned =>
           \/ i \in gpu'.left
           \/ gpu'.thread[state'.calls[i].thread].at = "compute" /\ gpu'.thread[state'.calls[i].thread].of = i
    BY <1>12, <2>3, <2>4
  <2> QED BY <2>4, <2>5, <2>6 DEF OpenInv, In
<1>18. SelectedInv'
  <2>1. \A i \in 1 .. n : calls[i].target = state.calls[i].target
    BY <1>10, <1>11
  <2> QED BY <1>1, <1>2, <1>3, <1>9, <1>11, <1>12, <1>13, <2>1 DEF SelectedInv
<1> QED BY <1>7, <1>15, <1>16, <1>17, <1>18 DEF PipelineInv

\* A call that vanishes is the last one of its thread so far.
LEMMA ComputeVanishesStep ==
  ASSUME PipelineInv, NEW t \in Threads, ComputeVanishes(t)
  PROVE  PipelineInv'
<1>1. PipelineShape /\ ModulesInv /\ OpenInv /\ SelectedInv /\ FileInv
  BY DEF PipelineInv
<1>2. session = "run" /\ In(t, "compute") /\ UNCHANGED <<mode, state, files, gdbVars>>
  BY DEF ComputeVanishes, PipelineCaptures, Running
<1>3. PICK n \in Nat : n = Len(state.calls) /\ DOMAIN state.calls = 1 .. n
  <2>1. state.calls \in Seq(Calling)
    BY <1>1 DEF PipelineShape
  <2> QED BY ONLY <2>1
<1>4. PICK k \in 1 .. n : /\ k = gpu.thread[t].of /\ state.calls[k].thread = t /\ ~state.calls[k].returned
                          /\ \A j \in gpu.left : state.calls[j].thread = t => j < k
  BY <1>1, <1>2, <1>3 DEF OpenInv, Latest
<1>5. PICK left : left = gpu.left \cup {k}
  OBVIOUS
<1>6. /\ DOMAIN gpu' = DOMAIN gpu /\ gpu'.step = gpu.step /\ gpu'.made = gpu.made
      /\ gpu'.crashed = gpu.crashed /\ gpu'.left = left
      /\ gpu'.live = gpu.live /\ gpu'.thread = [gpu.thread EXCEPT ![t] = [at |-> "ue", of |-> 0]]
  BY <1>1, <1>4, <1>5 DEF ComputeVanishes, PipelineShape, Goes
<1>7. gpu.thread \in [Threads -> [at : {"ue", "create", "compute"}, of : Nat]]
  BY <1>1 DEF PipelineShape
<1>8. PipelineShape'
  <2>1. gpu'.thread \in [Threads -> [at : {"ue", "create", "compute"}, of : Nat]]
    BY <1>6, <1>7
  <2> QED BY <1>1, <1>2, <1>6, <2>1 DEF PipelineShape
<1>9. OpenInv'
  <2>1. /\ gpu'.thread[t].at = "ue"
        /\ \A other \in Threads : other # t => gpu'.thread[other] = gpu.thread[other]
    BY <1>6, <1>7
  <2>2. ASSUME NEW other \in Threads, gpu'.thread[other].at = "compute"
        PROVE  LET i == gpu'.thread[other].of IN
               /\ i \in 1 .. n /\ state.calls[i].thread = other /\ ~state.calls[i].returned
               /\ \A j \in left : state.calls[j].thread = other => j < i
    <3>1. other # t /\ gpu'.thread[other] = gpu.thread[other]
      BY <2>1, <2>2
    <3>2. /\ gpu.thread[other].of \in 1 .. n /\ state.calls[gpu.thread[other].of].thread = other
          /\ ~state.calls[gpu.thread[other].of].returned
          /\ \A j \in gpu.left : state.calls[j].thread = other => j < gpu.thread[other].of
      BY <1>1, <1>3, <2>2, <3>1 DEF OpenInv, Latest, In
    <3> QED BY <1>4, <1>5, <3>1, <3>2
  <2>3. ASSUME NEW i \in 1 .. n, ~state.calls[i].returned, i \notin left
        PROVE  gpu'.thread[state.calls[i].thread].at = "compute" /\ gpu'.thread[state.calls[i].thread].of = i
    <3>1. i # k /\ i \notin gpu.left
      BY <1>5, <2>3
    <3>2. gpu.thread[state.calls[i].thread].at = "compute" /\ gpu.thread[state.calls[i].thread].of = i
      BY <1>1, <1>3, <2>3, <3>1 DEF OpenInv, In
    <3>3. state.calls[i] \in Calling
      BY <1>1, <1>3 DEF PipelineShape
    <3>4. state.calls[i].thread \in Threads /\ state.calls[i].thread # t
      BY <1>4, <3>1, <3>2, <3>3 DEF Calling
    <3> QED BY <2>1, <3>2, <3>4
  <2>4. left \subseteq 1 .. n
    BY <1>1, <1>3, <1>5 DEF OpenInv
  <2> QED BY <1>2, <1>3, <1>6, <2>2, <2>3, <2>4 DEF OpenInv, Latest, In
<1>10. SelectedInv'
  BY <1>1, <1>2, <1>6 DEF SelectedInv, gdbVars
<1> QED BY <1>1, <1>2, <1>6, <1>8, <1>9, <1>10, SameModules, SameFile DEF PipelineInv

\* The last of the pending calls of a thread is the one it is in, if it is in one, and has
\* vanished if it is not.
LEMMA CrashStep ==
  ASSUME PipelineInv, NEW t \in Threads, Crash(t)
  PROVE  PipelineInv'
<1>1. PipelineShape /\ ModulesInv /\ OpenInv /\ SelectedInv /\ FileInv
  BY DEF PipelineInv
<1>2. session = "run" /\ session' = "finish" /\ UNCHANGED mode
  BY DEF Crash, PipelineCaptures, Running, Stops
<1>3. PICK n \in Nat : n = Len(state.calls) /\ DOMAIN state.calls = 1 .. n
  <2>1. state.calls \in Seq(Calling)
    BY <1>1 DEF PipelineShape
  <2> QED BY ONLY <2>1
<1>4. PICK current \in Nat : current = gpu.thread[t].of
  BY <1>1 DEF PipelineShape
<1>5. /\ DOMAIN gpu' = DOMAIN gpu /\ gpu'.step = "crashed" /\ gpu'.made = gpu.made
      /\ gpu'.crashed = IF In(t, "compute") THEN current ELSE Unknown
      /\ gpu'.live = gpu.live /\ gpu'.thread = gpu.thread /\ gpu'.left = gpu.left
  BY <1>1, <1>4 DEF Crash, PipelineShape
<1>6. /\ Pending(t) \in SUBSET (1 .. n)
      /\ \A k \in Pending(t) : k \in gpu.left \/ (In(t, "compute") /\ k = current)
  BY <1>1, <1>3, <1>4 DEF Pending, OpenInv, In
<1>7. In(t, "compute") => current \in Pending(t) /\ current # 0 /\ \A k \in Pending(t) : k <= current
  <2>1. ASSUME In(t, "compute")
        PROVE  /\ current \in 1 .. n /\ current \in Pending(t)
               /\ \A j \in gpu.left : state.calls[j].thread = t => j < current
    BY <1>1, <1>3, <1>4, <2>1 DEF OpenInv, Latest, Pending
  <2>2. ASSUME In(t, "compute"), NEW k \in Pending(t)
        PROVE  k <= current
    BY <1>6, <2>1, <2>2 DEF Pending
  <2> QED BY <2>1, <2>2
<1>8. PICK chosen \in Nat :
        /\ mode = "crash" /\ Pending(t) # {} =>
              chosen \in Pending(t) /\ (In(t, "compute") => chosen = current) /\ state' = [state EXCEPT !.target = chosen]
        /\ ~(mode = "crash" /\ Pending(t) # {}) => chosen = state.target /\ state' = state
  <2>1. CASE mode = "crash" /\ Pending(t) # {}
    <3>1. PICK last : last = CHOOSE k \in Pending(t) : \A other \in Pending(t) : other <= k
      OBVIOUS
    <3>2. \E k \in Pending(t) : \A other \in Pending(t) : other <= k
      <4>1. Max(Pending(t)) \in Pending(t) /\ \A k \in Pending(t) : k <= Max(Pending(t))
        BY <1>3, <1>6, <2>1, MaxOfPositions
      <4> QED BY <4>1
    <3>3. last \in Pending(t) /\ \A other \in Pending(t) : other <= last
      BY <3>1, <3>2, Zenon
    <3>4. last \in 1 .. n
      BY <1>6, <3>3
    <3>5. In(t, "compute") => last = current
      BY <1>4, <1>7, <3>3, <3>4
    <3>6. state' = [state EXCEPT !.target = last]
      BY <2>1, <3>1 DEF Crash, Saves
    <3> QED BY <2>1, <3>3, <3>4, <3>5, <3>6
  <2>2. CASE ~(mode = "crash" /\ Pending(t) # {})
    BY <1>1, <2>2 DEF Crash, Saves, PipelineShape
  <2> QED BY <2>1, <2>2
<1>9. /\ DOMAIN state' = DOMAIN state /\ state'.modules = state.modules /\ state'.target = chosen
      /\ state'.calls = state.calls
  <2>1. CASE mode = "crash" /\ Pending(t) # {}
    BY <1>1, <1>8, <2>1 DEF PipelineShape
  <2>2. CASE ~(mode = "crash" /\ Pending(t) # {})
    BY <1>8, <2>2
  <2> QED BY <2>1, <2>2
<1>10. FileFollows
  <2>1. Saves(state')
    BY DEF Crash, Saves
  <2> QED BY <2>1 DEF Saves, FileFollows
<1>11. DOMAIN files' = {"pipeline", "device"} /\ FileInv'
  BY <1>1, <1>10, FileFollowing
<1>12. PipelineShape'
  BY <1>1, <1>5, <1>9, <1>11 DEF PipelineShape
<1>13. ModulesInv' /\ OpenInv'
  BY <1>1, <1>5, <1>9, SameModules, SameOpen
<1>14. SelectedInv'
  <2>1. CASE mode = "crash" /\ Pending(t) # {}
    <3>1. chosen \in 1 .. n /\ (In(t, "compute") => chosen = current)
          /\ (~In(t, "compute") => chosen \in gpu.left)
      BY <1>6, <1>8, <2>1
    <3> QED BY <1>2, <1>3, <1>5, <1>7, <1>9, <2>1, <3>1 DEF SelectedInv, Unknown
  <2>2. CASE mode # "crash"
    BY <1>1, <1>2, <1>5, <1>8, <1>9, <2>2 DEF SelectedInv
  <2>3. CASE mode = "crash" /\ Pending(t) = {}
    <3>1. chosen = 0
      BY <1>1, <1>2, <1>8, <2>3 DEF SelectedInv
    <3> QED BY <1>2, <1>9, <2>3, <3>1 DEF SelectedInv
  <2> QED BY <2>1, <2>2, <2>3
<1> QED BY <1>11, <1>12, <1>13, <1>14 DEF PipelineInv

LEMMA PipelineInit_ == PipelineInit => PipelineInv
<1> SUFFICES ASSUME PipelineInit PROVE PipelineInv
  OBVIOUS
<1>1. << >> \in Seq(Calling) /\ DOMAIN << >> = {}
  OBVIOUS
<1>2. /\ DOMAIN gpu = {"step", "thread", "live", "made", "crashed", "left"} /\ gpu.left = {} /\ gpu.thread = [t \in Threads |-> InUe]
      /\ gpu.live = [h \in Handles |-> Unknown] /\ gpu.made = 0 /\ gpu.step = "instance"
      /\ DOMAIN state = {"modules", "objects", "calls", "target", "errors", "instance", "timer"}
      /\ state.modules = [h \in Handles |-> Unknown] /\ state.calls = << >> /\ state.target = 0
      /\ DOMAIN files = {"pipeline", "device"} /\ ~files.pipeline.whole
  BY DEF PipelineInit, NoFile
<1>3. PipelineShape
  BY <1>1, <1>2 DEF PipelineShape, InUe, Unknown
<1>4. ModulesInv
  BY <1>1, <1>2 DEF ModulesInv
<1>5. OpenInv
  BY <1>1, <1>2 DEF OpenInv, In, InUe
<1>6. SelectedInv /\ FileInv
  BY <1>2 DEF SelectedInv, FileInv
<1> QED BY <1>3, <1>4, <1>5, <1>6 DEF PipelineInv

\* The ends of a run, which write what is there.
LEMMA PipelineEnds ==
  ASSUME PipelineInv, PipelineTimeout \/ UeExits \/ FinishPipeline
  PROVE  PipelineInv'
<1>1. PipelineShape /\ ModulesInv /\ OpenInv /\ SelectedInv /\ FileInv
  BY DEF PipelineInv
<1>2. gpu' = gpu /\ mode' = mode /\ session' # "run"
  BY DEF PipelineTimeout, UeExits, FinishPipeline, PipelineCaptures, Running, Stops
<1>3. /\ DOMAIN state' = DOMAIN state /\ state'.calls = state.calls /\ state'.target = state.target
      /\ state'.modules = state.modules /\ DOMAIN files' = {"pipeline", "device"} /\ FileInv'
  <2>1. CASE PipelineTimeout
    <3>1. state' = state /\ FileFollows
      BY <2>1 DEF PipelineTimeout, Saves, FileFollows
    <3> QED BY <1>1, <3>1, FileFollowing
  <2>2. CASE UeExits
    BY <1>1, <2>2 DEF UeExits, PipelineShape, FileInv
  <2>3. CASE FinishPipeline
    <3>1. state' = [state EXCEPT !.timer = FALSE] /\ FileFollows
      BY <2>3 DEF FinishPipeline, Saves, FileFollows
    <3> QED BY <1>1, <3>1, FileFollowing DEF PipelineShape
  <2> QED BY <2>1, <2>2, <2>3
<1>4. PipelineShape'
  BY <1>1, <1>2, <1>3 DEF PipelineShape
<1> QED BY <1>1, <1>2, <1>3, <1>4, SameModules, SameOpen, SameSelected DEF PipelineInv

LEMMA PipelineStays ==
  ASSUME PipelineInv, UNCHANGED pipelineVars \/ PipelineKilled, session' # "run" \/ session' = session
  PROVE  PipelineInv'
<1>1. PipelineShape /\ ModulesInv /\ OpenInv /\ SelectedInv /\ FileInv
  BY DEF PipelineInv
<1>2. UNCHANGED <<mode, gpu, state>>
  BY DEF pipelineVars, PipelineKilled
<1>3. DOMAIN files' = {"pipeline", "device"} /\ FileInv'
  <2>1. CASE files' = files
    BY <1>1, <1>2, <2>1, SameFile DEF PipelineShape
  <2>2. CASE files' = [files EXCEPT !.pipeline = NoFile]
    BY <1>1, <2>2 DEF PipelineShape, FileInv, NoFile
  <2> QED BY <2>1, <2>2 DEF pipelineVars, PipelineKilled
<1>4. PipelineShape'
  BY <1>1, <1>2, <1>3 DEF PipelineShape
<1> QED BY <1>1, <1>2, <1>3, <1>4, SameModules, SameOpen, SameSelected DEF PipelineInv

LEMMA PipelineNextInv ==
  ASSUME PipelineInv, GdbType, PipelineNext
  PROVE  PipelineInv'
<1>1. ASSUME InstanceEntry \/ DeviceEntry \/ SetupEntry PROVE PipelineInv'
  <2>1. session = "run"
    BY <1>1 DEF InstanceEntry, DeviceEntry, SetupEntry, Setup, PipelineCaptures, Running
  <2> QED BY <1>1, <2>1, SetupSteps
<1>2. ASSUME NEW t \in Threads, NEW h \in Handles, ComputeEntry(t, h) PROVE PipelineInv'
  <2>1. session = "run"
    BY <1>2 DEF ComputeEntry, PipelineCaptures, Running
  <2> QED BY <1>2, <2>1, RefusesStep, ComputeNoted
<1> QED BY <1>1, <1>2, CreateEntryStep, CreatedStep, CreateFailsStep, ComputeReturnedStep, ComputeVanishesStep,
           CrashStep, DestroyStep, PipelineEnds DEF PipelineNext

LEMMA AcceptedIsTheCall_ ==
  ASSUME PipelineInv
  PROVE  AcceptedIsTheCall
<1> SUFFICES ASSUME Accepts
             PROVE  LET call == files.pipeline.calls[files.pipeline.target_call] IN
                    /\ call.module = call.real
                    /\ IF mode # "crash" THEN call.target
                       ELSE IF gpu.crashed # Unknown THEN files.pipeline.target_call = gpu.crashed
                       ELSE files.pipeline.target_call \in gpu.left
  BY DEF AcceptedIsTheCall
<1>1. /\ files.pipeline.calls = state.calls /\ files.pipeline.target_call = state.target /\ state.target # 0
  BY DEF PipelineInv, FileInv, Accepts
<1> QED BY <1>1 DEF PipelineInv, SelectedInv, ModulesInv

--------------------------------------------------------------------------------
(* The probe of the shutdown.                                              *)

LEMMA NobodyIsNoHit == Nobody \notin Hits /\ Nobody.role \notin Roles /\ ~Inside(Nobody.role)
                       /\ Nobody.role # "target" /\ Nobody.role # "exit"
BY DEF Nobody, Hits, Roles, Inside

LEMMA ShutdownInit_ == ASSUME ShutdownInit, session = "run" PROVE ShutdownInv
<1>1. << >> \in Seq(Entries) /\ << >> \in Seq(Roles) /\ DOMAIN << >> = {}
  OBVIOUS
<1>2. /\ DOMAIN ue = {"map", "exiting", "logged", "over", "todo", "clock", "target"}
      /\ ue.map = 0 /\ ue.clock = 0 /\ ue.todo = << >> /\ ue.target = 0
      /\ DOMAIN capture = Fields
      /\ capture.sequence = 0 /\ capture.observing = Nobody /\ capture.resolved = {} /\ ~capture.complete
      /\ \A list \in Lists : capture[list] = << >>
      /\ journal = NoJournal /\ capture.check = << >> /\ capture.socket = << >>
  BY DEF ShutdownInit, Lists, Fields
<1>3. ShutdownShape
  <2>1. \A list \in Lists : capture[list] \in Seq(Entries)
    BY <1>1, <1>2
  <2>2. ue.map \in {0, 1} /\ ue.clock \in Nat /\ ue.todo \in Seq(Roles) /\ capture.sequence \in Nat
        /\ capture.observing \in Hits \cup {Nobody}
    BY <1>1, <1>2
  <2> QED BY <1>2, <2>1, <2>2 DEF ShutdownShape
<1>4. OrderInv
  <2>1. \A list \in Lists : DOMAIN Listing[list] = {}
    BY <1>1, <1>2 DEF Listing
  <2> QED BY <1>2, <2>1 DEF OrderInv, Ordered
<1>5. ExitInv
  <2>1. DOMAIN ue.todo = {} /\ DOMAIN capture.socket = {} /\ capture.observing = Nobody
    BY <1>1, <1>2
  <2> QED BY <2>1, NobodyIsNoHit DEF ExitInv
<1>6. JournalInv /\ TargetInv
  BY <1>2 DEF JournalInv, TargetInv
<1> QED BY <1>3, <1>4, <1>5, <1>6 DEF ShutdownInv

LEMMA SameOrder ==
  ASSUME OrderInv, \A list \in Lists : capture'[list] = capture[list], capture'.observing = capture.observing,
         capture'.sequence = capture.sequence, ue'.clock = ue.clock
  PROVE  OrderInv'
<1>1. Listing' = Listing
  BY DEF Listing
<1> QED BY <1>1 DEF OrderInv

LEMMA SameExit ==
  ASSUME ExitInv, ue'.todo = ue.todo, ue'.exiting = ue.exiting, capture'.observing = capture.observing,
         capture'.socket = capture.socket
  PROVE  ExitInv'
BY DEF ExitInv

\* The engine's calls.
LEMMA CallsStep ==
  ASSUME ShutdownInv, NEW events \in Seq(Roles), Calls(events),
         \A i \in DOMAIN events : events[i] = "exit" => ~ue.exiting /\ Len(events) = 1,
         \A i \in DOMAIN events : events[i] = "static-release" => ue.exiting
  PROVE  ShutdownInv'
<1>1. ShutdownShape /\ OrderInv /\ ExitInv /\ JournalInv /\ TargetInv
  BY DEF ShutdownInv
<1>2. ue' = [ue EXCEPT !.todo = events] /\ UNCHANGED <<armed, capture, journal, probe, session>>
  BY DEF Calls, gdbVars
<1>3. /\ DOMAIN ue' = DOMAIN ue /\ ue'.todo = events /\ ue'.map = ue.map /\ ue'.clock = ue.clock
      /\ ue'.exiting = ue.exiting /\ ue'.target = ue.target
  BY <1>1, <1>2 DEF ShutdownShape
<1>4. ShutdownShape'
  BY <1>1, <1>2, <1>3 DEF ShutdownShape
<1>5. OrderInv'
  BY <1>1, <1>2, <1>3, SameOrder
<1>6. ExitInv'
  BY <1>1, <1>2, <1>3 DEF ExitInv
<1>7. JournalInv' /\ TargetInv'
  BY <1>1, <1>2, <1>3 DEF JournalInv, WholeJournal, TargetInv
<1> QED BY <1>4, <1>5, <1>6, <1>7 DEF ShutdownInv

LEMMA EngineSteps ==
  ASSUME ShutdownInv, Register \/ Remove \/ Clear \/ OtherCheck \/ Exit \/ Release
  PROVE  ShutdownInv'
<1>1. /\ <<"register", "set">> \in Seq(Roles) /\ <<"remove", "cleared">> \in Seq(Roles)
      /\ <<"remove", "target">> \in Seq(Roles) /\ <<"cleared">> \in Seq(Roles) /\ <<"other">> \in Seq(Roles)
      /\ <<"exit">> \in Seq(Roles) /\ <<"release">> \in Seq(Roles) /\ <<"static-release">> \in Seq(Roles)
  BY DEF Roles
<1> DEFINE Fine(events) ==
      /\ \A i \in DOMAIN events : events[i] = "exit" => ~ue.exiting /\ Len(events) = 1
      /\ \A i \in DOMAIN events : events[i] = "static-release" => ue.exiting
<1>2. /\ Fine(<<"register", "set">>) /\ Fine(<<"remove", "cleared">>) /\ Fine(<<"remove", "target">>)
      /\ Fine(<<"cleared">>) /\ Fine(<<"other">>) /\ Fine(<<"release">>)
  OBVIOUS
<1>3. ~ue.exiting => Fine(<<"exit">>)
  OBVIOUS
<1>4. ue.exiting => Fine(<<"static-release">>)
  OBVIOUS
<1>5. \A events \in Seq(Roles) : Calls(events) /\ Fine(events) => ShutdownInv'
  BY CallsStep
<1> HIDE DEF Fine
<1> QED BY <1>1, <1>2, <1>3, <1>4, <1>5 DEF Register, Remove, Clear, OtherCheck, Exit, Release

LEMMA LogShutdownStep ==
  ASSUME ShutdownInv, LogShutdown
  PROVE  ShutdownInv'
<1>1. ShutdownShape /\ OrderInv /\ ExitInv /\ JournalInv /\ TargetInv
  BY DEF ShutdownInv
<1>2. ue' = [ue EXCEPT !.logged = TRUE] /\ UNCHANGED <<armed, capture, journal, probe, session>>
  BY DEF LogShutdown, gdbVars
<1>3. /\ DOMAIN ue' = DOMAIN ue /\ ue'.todo = ue.todo /\ ue'.map = ue.map /\ ue'.clock = ue.clock
      /\ ue'.exiting = ue.exiting /\ ue'.target = ue.target
  BY <1>1, <1>2 DEF ShutdownShape
<1>4. ShutdownShape'
  BY <1>1, <1>2, <1>3 DEF ShutdownShape
<1>5. JournalInv' /\ TargetInv'
  BY <1>1, <1>2, <1>3 DEF JournalInv, WholeJournal, TargetInv
<1> QED BY <1>1, <1>2, <1>3, <1>4, <1>5, SameOrder, SameExit DEF ShutdownInv

\* What a write leaves: what was to be noted, and a journal with it or the old one.
Same(one, other) ==
    /\ one.started = other.started /\ one.resolved = other.resolved /\ one.check = other.check
    /\ one.watch = other.watch /\ one.socket = other.socket /\ one.sequence = other.sequence
    /\ one.truncated = other.truncated /\ one.errors = other.errors /\ one.observing = other.observing
    /\ one.complete = other.complete

LEMMA FailingIsSame ==
  ASSUME NEW noted, DOMAIN noted = Fields
  PROVE  DOMAIN Failing(noted) = Fields /\ Same(Failing(noted), noted)
BY DEF Failing, Same, Fields

LEMMA WritesNoted ==
  ASSUME NEW noted, DOMAIN noted = Fields, Writes(noted)
  PROVE  DOMAIN capture' = Fields /\ Same(capture', noted) /\ (journal' = capture' \/ journal' = journal)
BY FailingIsSame DEF Writes, Same

\* The journal after a write that is not the last one.
LEMMA WriteJournal ==
  ASSUME JournalInv, probe = "shutdown", session = "run", probe' = probe, session' # "done",
         session' # "run" => capture'.observing = Nobody,
         ~capture'.complete, journal' = capture' \/ journal' = journal,
         \A list \in Lists : capture'[list] \in Seq(Entries) /\ Begins(capture[list], capture'[list])
  PROVE  JournalInv'
<1>1. ~capture.complete
  BY DEF JournalInv
<1>2. CASE journal' = capture'
  <2>1. \A list \in Lists : Begins(capture'[list], capture'[list])
    BY DEF Begins
  <2> QED BY <1>2, <2>1 DEF JournalInv
<1>3. CASE journal' = journal
  <2>1. ASSUME journal # NoJournal, NEW list \in Lists
        PROVE  journal[list] \in Seq(Entries) /\ Begins(journal[list], capture'[list])
    <3>1. journal[list] \in Seq(Entries) /\ Begins(journal[list], capture[list]) /\ Begins(capture[list], capture'[list])
      BY <2>1 DEF JournalInv
    <3> QED BY <3>1 DEF Begins
  <2>2. journal # NoJournal => ~journal.complete
    BY <1>1 DEF JournalInv, WholeJournal
  <2> QED BY <1>3, <2>1, <2>2 DEF JournalInv
<1> QED BY <1>2, <1>3

\* A write of the script that adds nothing to the lists.
LEMMA WriteStep ==
  ASSUME ShutdownInv,
         \/ Install \/ SignalStops \/ Exited \/ FinishShutdown
  PROVE  ShutdownInv'
<1>1. ShutdownShape /\ OrderInv /\ ExitInv /\ JournalInv /\ TargetInv
  BY DEF ShutdownInv
<1>2. /\ probe = "shutdown" /\ probe' = probe
      /\ DOMAIN ue' = DOMAIN ue /\ ue'.todo = ue.todo /\ ue'.map = ue.map /\ ue'.clock = ue.clock
      /\ ue'.exiting = ue.exiting /\ ue'.target = ue.target
  BY <1>1 DEF Install, SignalStops, Exited, FinishShutdown, Running, Finishing, Awake, gdbVars, ShutdownShape
<1>3. PICK noted : /\ Writes(noted) /\ DOMAIN noted = Fields
                   /\ noted.check = capture.check /\ noted.watch = capture.watch /\ noted.socket = capture.socket
                   /\ noted.sequence = capture.sequence /\ noted.observing = capture.observing
                   /\ noted.truncated = capture.truncated /\ noted.errors = capture.errors
                   /\ Install => noted.resolved = armed' /\ noted.complete = capture.complete
                   /\ SignalStops \/ Exited =>
                         /\ noted.resolved = capture.resolved /\ noted.started = capture.started
                         /\ noted.complete = capture.complete
                   /\ FinishShutdown => noted.resolved \in Refreshed /\ noted.started = capture.started /\ noted.complete
  <2>1. DOMAIN capture = Fields
    BY <1>1 DEF ShutdownShape
  <2>2. CASE Install
    <3>1. Writes([capture EXCEPT !.started = TRUE, !.resolved = armed'])
      BY <2>2 DEF Install
    <3>2. ~SignalStops /\ ~Exited /\ ~FinishShutdown
      BY <2>2 DEF Install, SignalStops, Exited, FinishShutdown, Awake, Running, Finishing
    <3> QED BY <2>1, <3>1, <3>2 DEF Fields
  <2>3. CASE SignalStops
    <3>1. Writes([capture EXCEPT !.signals = TRUE])
      BY <2>3 DEF SignalStops
    <3>2. ~Install /\ ~FinishShutdown
      BY <2>3 DEF Install, SignalStops, FinishShutdown, Awake, Running, Finishing
    <3> QED BY <2>1, <3>1, <3>2 DEF Fields
  <2>4. CASE Exited
    <3>1. PICK code \in BOOLEAN : Writes([capture EXCEPT !.exit = code])
      BY <2>4 DEF Exited
    <3>2. ~Install /\ ~FinishShutdown
      BY <2>4 DEF Install, Exited, FinishShutdown, Awake, Running, Finishing
    <3> QED BY <2>1, <3>1, <3>2 DEF Fields
  <2>5. CASE FinishShutdown
    <3>1. PICK resolved \in Refreshed : Writes([capture EXCEPT !.resolved = resolved, !.complete = TRUE])
      BY <2>5 DEF FinishShutdown
    <3>2. ~Install /\ ~SignalStops /\ ~Exited
      BY <2>5 DEF Install, SignalStops, Exited, FinishShutdown, Awake, Running, Finishing
    <3>3. PICK last : last = [capture EXCEPT !.resolved = resolved, !.complete = TRUE]
      OBVIOUS
    <3>4. /\ DOMAIN last = Fields /\ last.check = capture.check /\ last.watch = capture.watch
          /\ last.socket = capture.socket /\ last.sequence = capture.sequence
          /\ last.observing = capture.observing /\ last.truncated = capture.truncated
          /\ last.errors = capture.errors /\ last.resolved \in Refreshed
          /\ last.started = capture.started /\ last.complete
      BY <2>1, <3>3 DEF Fields
    <3> QED BY <3>1, <3>2, <3>3, <3>4
  <2> QED BY <2>2, <2>3, <2>4, <2>5
<1>4. DOMAIN capture' = Fields /\ Same(capture', noted) /\ (journal' = capture' \/ journal' = journal)
  BY <1>3, WritesNoted
<1>5. \A list \in Lists : capture'[list] = capture[list] /\ capture'[list] \in Seq(Entries)
  BY <1>1, <1>3, <1>4 DEF Lists, Same, ShutdownShape
<1>6. ShutdownShape'
  BY <1>1, <1>2, <1>3, <1>4, <1>5 DEF ShutdownShape, Same
<1>7. OrderInv' /\ ExitInv'
  BY <1>1, <1>2, <1>3, <1>4, <1>5, SameOrder, SameExit DEF Same
<1>8. \A list \in Lists : Begins(capture[list], capture'[list])
  BY <1>5 DEF Begins
<1>9. JournalInv'
  <2>1. CASE Install
    <3>1. session = "run" /\ session' = session /\ ~capture'.complete
      BY <1>1, <1>2, <1>3, <1>4, <2>1 DEF Install, Running, gdbVars, JournalInv, Same
    <3> QED BY <1>1, <1>2, <1>4, <1>5, <1>8, <3>1, WriteJournal
  <2>2. CASE SignalStops \/ Exited
    <3>1. session = "run" /\ session' = "finish" /\ capture.observing = Nobody
      BY <2>2 DEF SignalStops, Exited, Awake, Running, Stops
    <3>2. ~capture'.complete /\ capture'.observing = Nobody
      BY <1>1, <1>2, <1>3, <1>4, <2>2, <3>1 DEF JournalInv, Same
    <3> QED BY <1>1, <1>2, <1>4, <1>5, <1>8, <3>1, <3>2, WriteJournal
  <2>3. CASE FinishShutdown
    <3>1. session = "finish" /\ session' = "done"
      BY <2>3 DEF FinishShutdown, Finishing
    <3>2. capture'.complete /\ capture'.observing = Nobody /\ (journal # NoJournal => ~journal.complete)
      BY <1>1, <1>2, <1>3, <1>4, <2>3, <3>1 DEF JournalInv, Same, WholeJournal
    <3>3. \A list \in Lists : Begins(capture'[list], capture'[list])
      BY DEF Begins
    <3>4. CASE journal' = capture'
      BY <1>5, <3>1, <3>2, <3>3, <3>4 DEF JournalInv, WholeJournal
    <3>5. CASE journal' = journal
      <4>1. journal # NoJournal =>
               \A list \in Lists : journal[list] \in Seq(Entries) /\ Begins(journal[list], capture'[list])
        BY <1>1, <1>5 DEF JournalInv
      <4> QED BY <3>1, <3>2, <3>5, <4>1 DEF JournalInv
    <3> QED BY <1>4, <3>4, <3>5
  <2> QED BY <2>1, <2>2, <2>3
<1>10. TargetInv'
  <2>1. CASE Install
    <3>1. ue.target = 0 /\ capture'.resolved = armed'
      BY <1>1, <1>3, <1>4, <2>1 DEF Install, TargetInv, Same
    <3> QED BY <1>2, <3>1 DEF TargetInv
  <2>2. CASE SignalStops \/ Exited
    <3>1. capture'.resolved = capture.resolved /\ capture'.started = capture.started /\ armed' = armed
      BY <1>3, <1>4, <2>2 DEF SignalStops, Exited, Same
    <3> QED BY <1>1, <1>2, <1>3, <1>4, <3>1 DEF TargetInv, Same
  <2>3. CASE FinishShutdown
    <3>1. capture'.resolved \in Refreshed /\ capture'.started = capture.started /\ armed' = armed
      BY <1>3, <1>4, <2>3 DEF FinishShutdown, Same
    <3> QED BY <1>1, <1>2, <1>3, <1>4, <3>1 DEF TargetInv, Refreshed, Same
  <2> QED BY <2>1, <2>2, <2>3
<1> QED BY <1>6, <1>7, <1>9, <1>10 DEF ShutdownInv

LEMMA KindsOfRoles ==
  /\ \A role \in Roles : ListOf(role) \in Lists
  /\ KindOf("target") = "check" /\ ListOf("target") = "check"
BY DEF Roles, Lists, ListOf, KindOf

\* A hook takes the next number before anything is noted.
LEMMA HitStep ==
  ASSUME ShutdownInv, Hit
  PROVE  ShutdownInv'
<1>1. ShutdownShape /\ OrderInv /\ ExitInv /\ JournalInv /\ TargetInv
  BY DEF ShutdownInv
<1> DEFINE todo == ue.todo
<1>2. /\ session = "run" /\ capture.started /\ capture.observing = Nobody /\ todo # << >>
      /\ UNCHANGED <<armed, journal, probe, session>>
  BY DEF Hit, Awake, Running, gdbVars
<1>3. /\ todo \in Seq(Roles) /\ Head(todo) = todo[1] /\ Head(todo) \in Roles /\ 1 \in DOMAIN todo
      /\ Tail(todo) \in Seq(Roles) /\ Len(Tail(todo)) = Len(todo) - 1 /\ Len(todo) \in Nat \ {0}
      /\ DOMAIN Tail(todo) = 1 .. Len(todo) - 1 /\ DOMAIN todo = 1 .. Len(todo)
      /\ \A i \in 1 .. Len(todo) - 1 : Tail(todo)[i] = todo[i + 1]
  <2>1. todo \in Seq(Roles) /\ todo # << >>
    BY <1>1, <1>2 DEF ShutdownShape
  <2>2. /\ Head(todo) \in Roles /\ Tail(todo) \in Seq(Roles) /\ Len(Tail(todo)) = Len(todo) - 1
        /\ \A i \in 1 .. Len(Tail(todo)) : Tail(todo)[i] = todo[i + 1]
    BY <2>1, HeadTailProperties
  <2>3. Len(todo) \in Nat \ {0} /\ Head(todo) = todo[1] /\ 1 \in DOMAIN todo /\ DOMAIN todo = 1 .. Len(todo)
        /\ DOMAIN Tail(todo) = 1 .. Len(Tail(todo))
    BY <2>1, <2>2
  <2> QED BY <2>1, <2>2, <2>3
<1>4. PICK role \in Roles : role = Head(todo)
  BY <1>3
<1>5. PICK at \in Nat : at = ue.clock + 1
  BY <1>1 DEF ShutdownShape
<1>6. /\ DOMAIN ue' = DOMAIN ue /\ ue'.todo = Tail(todo) /\ ue'.clock = at /\ ue'.map \in {0, 1}
      /\ ue'.exiting = (ue.exiting \/ role = "exit")
      /\ ue'.target = IF role = "target" /\ ue.target = 0 THEN at ELSE ue.target
  <2>1. /\ DOMAIN ue' = DOMAIN ue /\ ue'.todo = Tail(todo) /\ ue'.clock = at
        /\ ue'.exiting = (ue.exiting \/ role = "exit")
        /\ ue'.target = IF role = "target" /\ ue.target = 0 THEN at ELSE ue.target
    BY <1>1, <1>4, <1>5 DEF Hit, ShutdownShape
  <2>2. ue'.map = CASE role = "set" -> 1 [] role = "cleared" -> 0 [] OTHER -> ue.map
    BY <1>1, <1>4 DEF Hit, ShutdownShape
  <2>3. ue'.map \in {0, 1}
    BY <1>1, <2>2 DEF ShutdownShape
  <2> QED BY <2>1, <2>3
<1>7. PICK number \in Nat : number = capture.sequence + 1
  BY <1>1 DEF ShutdownShape
<1>8. PICK hit \in Hits : hit = [role |-> role, order |-> number, at |-> at]
  BY DEF Hits
<1>9. hit # Nobody /\ hit.role = role /\ hit.order = number /\ hit.at = at
  BY <1>8, NobodyIsNoHit
<1>10. /\ DOMAIN capture' = DOMAIN capture /\ capture'.check = capture.check /\ capture'.watch = capture.watch
       /\ capture'.socket = capture.socket /\ capture'.truncated = capture.truncated
       /\ capture'.errors = capture.errors /\ capture'.started = capture.started /\ capture'.resolved = capture.resolved
       /\ capture'.complete = capture.complete
  BY <1>1 DEF Hit, ShutdownShape, Fields
<1>11. \/ KindOf(role) \in armed /\ capture'.observing = hit /\ capture'.sequence = number
       \/ KindOf(role) \notin armed /\ capture'.observing = Nobody /\ capture'.sequence = capture.sequence
  <2>1. CASE KindOf(role) \in armed
    <3>1. capture' = [capture EXCEPT !.sequence = number, !.observing = hit]
      BY <1>1, <1>4, <1>5, <1>7, <1>8, <2>1 DEF Hit, ShutdownShape
    <3> QED BY <1>1, <2>1, <3>1 DEF ShutdownShape, Fields
  <2>2. CASE KindOf(role) \notin armed
    BY <1>2, <1>4, <2>2 DEF Hit
  <2> QED BY <2>1, <2>2
<1>12. \A list \in Lists : capture'[list] = capture[list]
  BY <1>10 DEF Lists
<1>13. ShutdownShape'
  <2>1. capture'.observing \in Hits \cup {Nobody} /\ capture'.sequence \in Nat
    BY <1>1, <1>11 DEF ShutdownShape
  <2> QED BY <1>1, <1>3, <1>6, <1>10, <1>12, <2>1 DEF ShutdownShape
<1>14. OrderInv'
  <2>1. Listing' = Listing
    BY <1>12 DEF Listing
  <2> DEFINE lists == Listing
  <2>2. Ordered(lists, Nobody, capture.sequence, ue.clock)
    BY <1>1, <1>2 DEF OrderInv
  <2>3. \A list \in Lists : \A i \in DOMAIN lists[list] : lists[list][i].order \in Nat /\ lists[list][i].at \in Nat
    <3>1. \A list \in Lists : lists[list] \in Seq(Entries)
      BY <1>1 DEF ShutdownShape, Listing
    <3>2. \A list \in Lists : \A i \in DOMAIN lists[list] : lists[list][i] \in Entries
      BY <3>1
    <3> QED BY <3>2 DEF Entries
  <2>4. capture.sequence \in Nat /\ ue.clock \in Nat
    BY <1>1 DEF ShutdownShape
  <2> HIDE DEF lists
  <2>5. \A list \in Lists : \A i \in DOMAIN lists[list] :
           /\ lists[list][i].order <= capture.sequence /\ lists[list][i].at <= ue.clock
           /\ lists[list][i].order < number /\ lists[list][i].at < at
           /\ lists[list][i].order <= number /\ lists[list][i].at <= at
    BY <1>5, <1>7, <2>2, <2>3, <2>4 DEF Ordered
  <2>6. Ordered(lists, hit, number, at)
    BY <1>9, <2>2, <2>5 DEF Ordered, Before
  <2>7. Ordered(lists, Nobody, capture.sequence, at)
    BY <2>2, <2>5 DEF Ordered
  <2> QED BY <1>6, <1>11, <2>1, <2>6, <2>7 DEF OrderInv, lists
<1>15. ExitInv'
  <2>1. ASSUME NEW i \in DOMAIN ue'.todo PROVE i + 1 \in DOMAIN todo /\ ue'.todo[i] = todo[i + 1] /\ Len(todo) # 1
    BY <1>3, <1>6
  <2>2. \A i \in DOMAIN ue'.todo : ue'.todo[i] # "exit"
    BY <1>1, <2>1 DEF ExitInv
  <2>3. \A i \in DOMAIN ue'.todo : ue'.todo[i] = "static-release" => ue'.exiting
    BY <1>1, <1>6, <2>1 DEF ExitInv
  <2>4. /\ role = "exit" => ~ue.exiting
        /\ role = "static-release" => ue.exiting
    BY <1>1, <1>3, <1>4 DEF ExitInv
  <2>5. /\ Inside(capture'.observing.role) => ue'.exiting
        /\ capture'.observing.role = "exit" => role = "exit"
    BY <1>6, <1>9, <1>11, <2>4, NobodyIsNoHit DEF Inside
  <2>6. capture'.observing.role = "exit" =>
           \A i \in DOMAIN capture.socket : capture.socket[i].role # "static-release"
    BY <1>1, <2>4, <2>5 DEF ExitInv, Inside
  <2> QED BY <1>1, <1>6, <1>10, <2>2, <2>3, <2>5, <2>6 DEF ExitInv
<1>16. JournalInv'
  <2>1. journal # NoJournal =>
           \A list \in Lists : journal[list] \in Seq(Entries) /\ Begins(journal[list], capture'[list])
    BY <1>1, <1>12 DEF JournalInv
  <2> QED BY <1>1, <1>2, <1>10, <2>1 DEF JournalInv, WholeJournal
<1>17. TargetInv'
  <2>1. CASE role = "target" /\ "check" \in armed
    <3>1. capture'.observing.role = "target"
      BY <1>9, <1>11, <2>1, KindsOfRoles
    <3> QED BY <1>1, <1>2, <1>10, <3>1 DEF TargetInv
  <2>2. CASE role # "target"
    <3>1. ue'.target = ue.target /\ capture.observing.role # "target"
      BY <1>2, <1>6, <2>2, NobodyIsNoHit
    <3> QED BY <1>1, <1>2, <1>10, <3>1 DEF TargetInv
  <2>3. CASE "check" \notin armed
    BY <1>1, <1>2, <1>10, <2>3 DEF TargetInv
  <2> QED BY <2>1, <2>2, <2>3
<1> QED BY <1>13, <1>14, <1>15, <1>16, <1>17 DEF ShutdownInv

\* One more entry at the end of one list, of the event that was being looked at.
LEMMA ListedStep ==
  ASSUME ShutdownInv, probe = "shutdown", session = "run", capture.observing # Nobody,
         UNCHANGED <<ue, armed, probe, session>>,
         NEW event \in Hits, NEW handlers \in SUBSET {0, 1}, NEW noted, noted = Listed(event, handlers),
         event.order = capture.observing.order, event.at = capture.observing.at,
         \/ event.role = capture.observing.role
         \/ event.role = "unread" /\ ListOf(capture.observing.role) = "check",
         DOMAIN capture' = Fields, Same(capture', noted), journal' = capture' \/ journal' = journal
  PROVE  ShutdownInv'
<1>1. ShutdownShape /\ OrderInv /\ ExitInv /\ JournalInv /\ TargetInv
  BY DEF ShutdownInv
<1>2. PICK seen \in Hits : seen = capture.observing
  BY <1>1 DEF ShutdownShape
<1>3. /\ event.order = seen.order /\ event.at = seen.at /\ seen # Nobody
      /\ event.role = seen.role \/ (event.role = "unread" /\ ListOf(seen.role) = "check")
  BY <1>2
<1>4. event.role # seen.role => event.role \notin {"exit", "static-release"} /\ ListOf(event.role) = "check"
  BY <1>3 DEF ListOf
<1>5. PICK list \in Lists : list = ListOf(event.role)
  BY KindsOfRoles DEF Hits
<1>6. PICK old \in Seq(Entries) : old = capture[list]
  BY <1>1 DEF ShutdownShape
<1>7. PICK n \in Nat : n = Len(old) /\ DOMAIN old = 1 .. n
  BY <1>6
<1>8. PICK entry \in Entries : entry = Entry(event, handlers, n)
  BY DEF Entry, Entries, Hits
<1>9. entry.role = event.role /\ entry.order = event.order /\ entry.at = event.at
  BY <1>8 DEF Entry
<1>10. PICK full \in BOOLEAN : full <=> n >= MaxListed
  <2>1. CASE n >= MaxListed
    BY <2>1, Zenon
  <2>2. CASE ~(n >= MaxListed)
    BY <2>2, Zenon
  <2> QED BY <2>1, <2>2
<1>11. PICK new \in Seq(Entries), m \in Nat :
          /\ new = IF full THEN old ELSE Append(old, entry)
          /\ m = IF full THEN n ELSE n + 1
          /\ DOMAIN new = 1 .. m /\ (\A i \in 1 .. n : new[i] = old[i])
          /\ ~full => new[m] = entry
  <2>1. CASE full
    BY <1>7, <2>1
  <2>2. CASE ~full
    <3>1. /\ Append(old, entry) \in Seq(Entries) /\ Len(Append(old, entry)) = Len(old) + 1
          /\ \A i \in 1 .. Len(old) : Append(old, entry)[i] = old[i]
          /\ Append(old, entry)[Len(old) + 1] = entry
      OBVIOUS
    <3>2. PICK new \in Seq(Entries) : new = Append(old, entry)
      BY <3>1
    <3>3. PICK m \in Nat : m = n + 1
      BY <1>7
    <3>4. DOMAIN new = 1 .. Len(new) /\ Len(new) = m
      BY <1>7, <3>1, <3>2, <3>3
    <3>5. new[m] = entry /\ \A i \in 1 .. n : new[i] = old[i]
      BY <1>7, <3>1, <3>2, <3>3
    <3> QED BY <2>2, <3>2, <3>3, <3>4, <3>5
  <2> QED BY <2>1, <2>2
<1>12. noted = [capture EXCEPT ![list] = new, !.truncated = @ \/ full, !.observing = Nobody]
  BY <1>1, <1>5, <1>6, <1>7, <1>8, <1>10, <1>11 DEF Listed, ShutdownShape
<1>13. /\ capture'.sequence = capture.sequence
       /\ capture'.started = capture.started /\ capture'.resolved = capture.resolved
       /\ capture'.complete = capture.complete /\ capture'.observing = Nobody /\ capture'.errors = capture.errors
       /\ capture'.truncated = (capture.truncated \/ full)
       /\ capture'[list] = new /\ \A other \in Lists : other # list => capture'[other] = capture[other]
  <2>1. /\ noted.sequence = capture.sequence
        /\ noted.started = capture.started /\ noted.resolved = capture.resolved
        /\ noted.complete = capture.complete /\ noted.observing = Nobody /\ noted.errors = capture.errors
        /\ noted.truncated = (capture.truncated \/ full)
        /\ noted[list] = new /\ \A other \in Lists : other # list => noted[other] = capture[other]
    BY <1>1, <1>12 DEF ShutdownShape, Lists, Fields
  <2>2. \A other \in Lists : capture'[other] = noted[other]
    BY DEF Same, Lists
  <2> QED BY <2>1, <2>2 DEF Same
<1>14. ShutdownShape'
  <2>1. \A other \in Lists : capture'[other] \in Seq(Entries)
    BY <1>1, <1>13 DEF ShutdownShape
  <2> QED BY <1>1, <1>13, <2>1 DEF ShutdownShape
<1>15. \A i \in 1 .. m : i \in 1 .. n \/ (~full /\ i = m)
  BY <1>11
<1>16. OrderInv'
  <2> DEFINE before == Listing   after == Listing'
  <2>1. Ordered(before, seen, capture.sequence, ue.clock)
    BY <1>1, <1>2 DEF OrderInv
  <2>2. before[list] = old /\ after[list] = new /\ \A other \in Lists : other # list => after[other] = before[other]
    BY <1>6, <1>13 DEF Listing
  <2>3. capture'.sequence = capture.sequence /\ ue' = ue /\ capture'.observing = Nobody /\ seen # Nobody
    BY <1>3, <1>13
  <2> HIDE DEF before, after
  <2>4. ASSUME NEW one \in Lists, NEW i \in DOMAIN after[one]
        PROVE  \/ i \in DOMAIN before[one] /\ after[one][i] = before[one][i]
               \/ ~full /\ one = list /\ i = m /\ after[one][i] = entry
    <3>1. CASE one # list
      BY <2>2, <2>4, <3>1
    <3>2. CASE one = list
      <4>1. i \in DOMAIN new /\ after[one][i] = new[i] /\ before[one] = old
        BY <2>2, <2>4, <3>2
      <4>2. DOMAIN old = 1 .. n
        BY <1>7
      <4> QED BY <1>11, <1>15, <3>2, <4>1, <4>2
    <3> QED BY <3>1, <3>2
  <2>5. event.order <= capture.sequence /\ event.at <= ue.clock
    BY <1>3, <2>1, <2>3 DEF Ordered
  <2>6. \A one \in Lists : \A i \in DOMAIN before[one] :
           /\ before[one][i].order <= capture.sequence /\ before[one][i].at <= ue.clock
           /\ Before(before[one][i], entry)
    BY <1>3, <1>9, <2>1, <2>3 DEF Ordered, Before
  <2>7. ASSUME NEW one \in Lists, NEW i \in DOMAIN after[one]
        PROVE  after[one][i].order <= capture.sequence /\ after[one][i].at <= ue.clock
    BY <1>9, <2>4, <2>5, <2>6, <2>7
  <2>8. ASSUME NEW one \in Lists, NEW more \in Lists, NEW i \in DOMAIN after[one], NEW j \in DOMAIN after[more]
        PROVE  \/ one = more /\ i = j
               \/ Before(after[one][i], after[more][j])
               \/ Before(after[more][j], after[one][i])
    <3>1. CASE /\ i \in DOMAIN before[one] /\ after[one][i] = before[one][i]
               /\ j \in DOMAIN before[more] /\ after[more][j] = before[more][j]
      BY <2>1, <3>1 DEF Ordered
    <3>2. CASE /\ i \in DOMAIN before[one] /\ after[one][i] = before[one][i] /\ after[more][j] = entry
      BY <2>6, <3>2
    <3>3. CASE /\ j \in DOMAIN before[more] /\ after[more][j] = before[more][j] /\ after[one][i] = entry
      BY <2>6, <3>3
    <3> QED BY <2>4, <3>1, <3>2, <3>3
  <2>9. Ordered(after, Nobody, capture.sequence, ue.clock)
    BY <2>7, <2>8 DEF Ordered
  <2> QED BY <2>3, <2>9 DEF OrderInv, after
<1>17. ExitInv'
  <2>1. /\ \A i \in DOMAIN ue.todo : ue.todo[i] = "exit" => ~ue.exiting /\ Len(ue.todo) = 1
        /\ \A i \in DOMAIN ue.todo : ue.todo[i] = "static-release" => ue.exiting
    BY <1>1 DEF ExitInv
  <2>2. CASE list # "socket"
    <3>1. capture'.socket = capture.socket
      BY <1>13, <2>2 DEF Lists
    <3> QED BY <1>1, <1>13, <2>1, <3>1, NobodyIsNoHit DEF ExitInv
  <2>3. CASE list = "socket"
    <3>1. capture.socket = old /\ capture'.socket = new
      BY <1>6, <1>13, <2>3
    <3>2. \A i \in 1 .. n : Before(old[i], entry)
      <4>1. \A i \in DOMAIN Listing[list] : Before(Listing[list][i], seen)
        BY <1>1, <1>2, <1>3 DEF OrderInv, Ordered
      <4> QED BY <1>3, <1>6, <1>7, <1>9, <4>1 DEF Listing, Before
    <3>0. event.role = seen.role
      BY <1>4, <1>5, <2>3
    <3>3. \A i \in 1 .. m : Inside(new[i].role) => ue.exiting
      BY <1>1, <1>2, <1>7, <1>9, <1>11, <1>15, <3>0, <3>1 DEF ExitInv
    <3>4. ASSUME NEW i \in 1 .. m, NEW j \in 1 .. m, new[i].role = "exit", new[j].role = "static-release"
          PROVE  new[i].at < new[j].at
      <4>1. CASE i \in 1 .. n /\ j \in 1 .. n
        BY <1>1, <1>7, <1>11, <3>1, <3>4, <4>1 DEF ExitInv
      <4>2. CASE i \in 1 .. n /\ new[j] = entry
        BY <1>11, <3>2, <4>2 DEF Before
      <4>3. CASE new[i] = entry /\ j \in 1 .. n
        BY <1>1, <1>2, <1>7, <1>9, <1>11, <3>0, <3>1, <3>4, <4>3 DEF ExitInv
      <4> QED BY <1>11, <1>15, <3>4, <4>1, <4>2, <4>3
    <3> QED BY <1>11, <1>13, <2>1, <3>1, <3>3, <3>4, NobodyIsNoHit DEF ExitInv
  <2> QED BY <2>2, <2>3
<1>18. JournalInv'
  <2>1. \A other \in Lists : capture'[other] \in Seq(Entries)
    BY <1>14 DEF ShutdownShape
  <2>2. \A i \in DOMAIN old : i \in DOMAIN new /\ old[i] = new[i]
    BY <1>7, <1>11
  <2>3. ASSUME NEW other \in Lists PROVE Begins(capture[other], capture'[other])
    <3>1. CASE other = list
      BY <1>6, <1>13, <2>2, <3>1 DEF Begins
    <3>2. CASE other # list
      BY <1>13, <3>2 DEF Begins
    <3> QED BY <3>1, <3>2
  <2>4. ~capture'.complete
    BY <1>1, <1>13 DEF JournalInv
  <2> QED BY <1>1, <2>1, <2>3, <2>4, WriteJournal
<1>19. TargetInv'
  <2>1. ~capture.started => ue.target = 0
    BY <1>1 DEF TargetInv
  <2>2. capture.resolved \subseteq armed
    BY <1>1 DEF TargetInv
  <2>3. ASSUME ue.target # 0, "check" \in armed
        PROVE  \/ capture'.truncated \/ capture'.errors
               \/ \E i \in DOMAIN capture'.check : capture'.check[i].role \in {"target", "unread"}
    <3>1. CASE capture.truncated \/ full \/ capture.errors
      BY <1>13, <3>1
    <3>2. CASE event.role \in {"target", "unread"} /\ ~full
      <4>1. list = "check" /\ m \in 1 .. m
        BY <1>5, <1>11, <3>2, KindsOfRoles DEF ListOf
      <4> QED BY <1>9, <1>11, <1>13, <3>2, <4>1
    <3>3. CASE \E i \in DOMAIN capture.check : capture.check[i].role \in {"target", "unread"}
      <4>1. PICK i \in DOMAIN capture.check : capture.check[i].role \in {"target", "unread"}
        BY <3>3
      <4>2. CASE list = "check"
        <5>1. i \in 1 .. n /\ i \in 1 .. m /\ new[i] = capture.check[i]
          BY <1>6, <1>7, <1>11, <4>1, <4>2
        <5> QED BY <1>11, <1>13, <4>1, <4>2, <5>1
      <4>3. CASE list # "check"
        BY <1>13, <4>1, <4>3 DEF Lists
      <4> QED BY <4>2, <4>3
    <3>4. CASE seen.role = "target"
      BY <1>3, <3>1, <3>2, <3>4
    <3> QED BY <1>1, <1>2, <2>3, <3>1, <3>3, <3>4 DEF TargetInv
  <2> QED BY <1>13, <2>1, <2>2, <2>3 DEF TargetInv
<1> QED BY <1>14, <1>16, <1>17, <1>18, <1>19 DEF ShutdownInv

\* The event is listed, as it is or as one whose text could not be read, or is lost.
LEMMA ObserveSteps ==
  ASSUME ShutdownInv, Observe \/ Unreadable \/ ObserveFails
  PROVE  ShutdownInv'
<1>1. ShutdownShape /\ OrderInv /\ ExitInv /\ JournalInv /\ TargetInv
  BY DEF ShutdownInv
<1>2. /\ probe = "shutdown" /\ session = "run" /\ capture.observing # Nobody /\ UNCHANGED <<ue, armed, probe, session>>
  BY DEF Observe, Unreadable, ObserveFails, Running, gdbVars, ListOf, Nobody
<1>3. PICK seen \in Hits : seen = capture.observing
  BY <1>1, <1>2 DEF ShutdownShape
<1>4. DOMAIN capture = Fields
  BY <1>1 DEF ShutdownShape
<1>5. \A event, handlers : DOMAIN Listed(event, handlers) = Fields
  BY <1>4 DEF Listed
<1>6. CASE Observe
  <2>1. PICK handlers \in MapState(seen.role) : Writes(Listed(seen, handlers))
    BY <1>3, <1>6 DEF Observe
  <2>2. handlers \in SUBSET {0, 1}
    BY <1>1, <2>1 DEF MapState, ShutdownShape
  <2>3. PICK noted : noted = Listed(seen, handlers)
    OBVIOUS
  <2>4. DOMAIN capture' = Fields /\ Same(capture', noted) /\ (journal' = capture' \/ journal' = journal)
    BY <1>5, <2>1, <2>3, WritesNoted
  <2> QED BY <1>2, <1>3, <2>2, <2>3, <2>4, ListedStep
<1>7. CASE Unreadable
  <2>1. PICK event \in Hits : event = [seen EXCEPT !.role = "unread"]
    BY DEF Hits, Roles
  <2>2. event.role = "unread" /\ event.order = seen.order /\ event.at = seen.at /\ ListOf(seen.role) = "check"
    BY <1>3, <1>7, <2>1 DEF Unreadable, Hits
  <2>3. PICK listed : listed = Listed(event, {})
    OBVIOUS
  <2>4. DOMAIN listed = Fields /\ Writes(Failing(listed))
    BY <1>3, <1>5, <1>7, <2>1, <2>3 DEF Unreadable
  <2>5. PICK noted : noted = Failing(listed)
    OBVIOUS
  <2>6. DOMAIN noted = Fields /\ Same(noted, listed)
    BY <2>4, <2>5, FailingIsSame
  <2>7. DOMAIN capture' = Fields /\ Same(capture', noted) /\ (journal' = capture' \/ journal' = journal)
    BY <2>4, <2>5, <2>6, WritesNoted
  <2>8. Same(capture', listed)
    BY <2>6, <2>7 DEF Same
  <2>9. {} \in SUBSET {0, 1}
    OBVIOUS
  <2> QED BY <1>2, <1>3, <2>2, <2>3, <2>7, <2>8, <2>9, ListedStep
<1>8. CASE ObserveFails
  <2>1. PICK errors \in BOOLEAN : errors <=> (capture.errors \/ ListOf(seen.role) = "check")
    <3>1. CASE capture.errors \/ ListOf(seen.role) = "check"
      BY <3>1, Zenon
    <3>2. CASE ~(capture.errors \/ ListOf(seen.role) = "check")
      BY <3>2, Zenon
    <3> QED BY <3>1, <3>2
  <2>2. PICK dropped : dropped = [capture EXCEPT !.observing = Nobody, !.errors = @ \/ ListOf(seen.role) = "check"]
    OBVIOUS
  <2>3. /\ DOMAIN dropped = Fields /\ dropped.started = capture.started /\ dropped.resolved = capture.resolved
        /\ dropped.check = capture.check /\ dropped.watch = capture.watch /\ dropped.socket = capture.socket
        /\ dropped.sequence = capture.sequence /\ dropped.truncated = capture.truncated
        /\ dropped.complete = capture.complete /\ dropped.observing = Nobody
        /\ (dropped.errors <=> (capture.errors \/ ListOf(seen.role) = "check"))
    BY <1>4, <2>2 DEF Fields
  <2>4. Writes(Failing(dropped))
    BY <1>3, <1>8, <2>2 DEF ObserveFails
  <2>5. PICK noted : noted = Failing(dropped)
    OBVIOUS
  <2>6. DOMAIN noted = Fields /\ Same(noted, dropped)
    BY <2>3, <2>5, FailingIsSame
  <2>7. DOMAIN capture' = Fields /\ Same(capture', noted) /\ (journal' = capture' \/ journal' = journal)
    BY <2>4, <2>5, <2>6, WritesNoted
  <2>8. Same(capture', dropped)
    BY <2>6, <2>7 DEF Same
  <2>9. \A list \in Lists : capture'[list] = capture[list] /\ capture'[list] \in Seq(Entries)
    BY <1>1, <2>3, <2>8 DEF Same, Lists, ShutdownShape
  <2>10. ShutdownShape'
    BY <1>1, <1>2, <2>3, <2>7, <2>8, <2>9 DEF ShutdownShape, Same
  <2>11. OrderInv'
    <3>1. Listing' = Listing
      BY <2>9 DEF Listing
    <3>2. Ordered(Listing, Nobody, capture.sequence, ue.clock)
      BY <1>1 DEF OrderInv, Ordered
    <3> QED BY <1>2, <2>3, <2>8, <3>1, <3>2 DEF OrderInv, Same
  <2>12. ExitInv'
    BY <1>1, <1>2, <2>3, <2>8, NobodyIsNoHit DEF ExitInv, Same
  <2>13. JournalInv'
    <3>1. \A list \in Lists : Begins(capture[list], capture'[list])
      BY <2>9 DEF Begins
    <3>2. ~capture'.complete /\ capture'.observing = Nobody
      BY <1>1, <1>2, <2>3, <2>8 DEF JournalInv, Same
    <3> QED BY <1>1, <1>2, <2>7, <2>9, <3>1, <3>2, WriteJournal
  <2>14. TargetInv'
    <3>1. seen.role = "target" => capture'.errors
      BY <2>3, <2>8, KindsOfRoles DEF Same
    <3>2. capture.errors => capture'.errors
      BY <2>3, <2>8 DEF Same
    <3> QED BY <1>1, <1>2, <1>3, <2>3, <2>8, <3>1, <3>2 DEF TargetInv, Same
  <2> QED BY <2>10, <2>11, <2>12, <2>13, <2>14 DEF ShutdownInv
<1> QED BY <1>6, <1>7, <1>8

LEMMA ShutdownStays ==
  ASSUME ShutdownInv, UNCHANGED shutdownVars, probe' = probe,
         probe # "shutdown" \/ (session # "done" /\ session' = "killed")
  PROVE  ShutdownInv'
<1>1. ShutdownShape /\ OrderInv /\ ExitInv /\ JournalInv /\ TargetInv
  BY DEF ShutdownInv
<1>2. UNCHANGED <<ue, armed, capture, journal>>
  BY DEF shutdownVars
<1>3. ShutdownShape' /\ OrderInv' /\ ExitInv'
  BY <1>1, <1>2, SameOrder, SameExit DEF ShutdownShape
<1>4. JournalInv' /\ TargetInv'
  BY <1>1, <1>2 DEF JournalInv, WholeJournal, TargetInv
<1> QED BY <1>3, <1>4 DEF ShutdownInv

LEMMA ShutdownNextInv ==
  ASSUME ShutdownInv, ShutdownNext
  PROVE  ShutdownInv'
BY EngineSteps, LogShutdownStep, WriteStep, HitStep, ObserveSteps DEF ShutdownNext

\* What is found in a list is an entry of it, with one of the roles.
LEMMA FirstIsThere ==
  ASSUME NEW list \in Seq(Entries), NEW roles, NEW found, found = First(list, roles)
  PROVE  /\ found # Nobody => \E i \in DOMAIN list : found = list[i] /\ list[i].role \in roles
         /\ found = Nobody => \A i \in DOMAIN list : list[i].role \notin roles
<1> DEFINE places == {i \in DOMAIN list : list[i].role \in roles}
<1>1. CASE places = {}
  BY <1>1 DEF First
<1>2. CASE places # {}
  <2>1. PICK n \in Nat : DOMAIN list = 1 .. n
    OBVIOUS
  <2>2. places \in SUBSET (1 .. n)
    BY <2>1
  <2>3. Min(places) \in places
    BY <1>2, <2>1, <2>2, MinOfPositions
  <2>4. found = list[Min(places)]
    BY <1>2 DEF First
  <2>5. found \in Entries
    BY <2>3, <2>4
  <2>6. found # Nobody
    BY <2>5, NobodyIsNoHit DEF Entries
  <2> QED BY <2>3, <2>4, <2>6
<1> QED BY <1>1, <1>2

\* A whole journal that names no trouble and no failed check: there was none.
LEMMA LossIsRecorded_ ==
  ASSUME ShutdownInv
  PROVE  LossIsRecorded
<1> SUFFICES ASSUME probe = "shutdown", Verdict = "NO_TARGET_ASSERT", ~Doubtful
             PROVE  ue.target = 0
  BY DEF LossIsRecorded
<1>1. journal # NoJournal /\ "check" \in journal.resolved /\ TargetEvent = Nobody
  BY DEF Verdict
<1>2. /\ journal.complete /\ ~journal.truncated /\ ~journal.errors
      /\ \A i \in DOMAIN journal.check : journal.check[i].role # "unread"
  BY DEF Doubtful
<1>3. WholeJournal
  BY <1>1, <1>2 DEF ShutdownInv, JournalInv
<1>4. "check" \in armed /\ ~capture.truncated /\ ~capture.errors
  BY <1>1, <1>2, <1>3 DEF ShutdownInv, TargetInv, WholeJournal
<1>5. capture.observing = Nobody
  BY <1>3 DEF ShutdownInv, JournalInv, WholeJournal
<1>6. capture.check \in Seq(Entries)
  BY DEF ShutdownInv, ShutdownShape, Lists
<1>7. \A i \in DOMAIN capture.check : capture.check[i].role \notin {"target", "unread"}
  BY <1>1, <1>2, <1>3, <1>6, FirstIsThere DEF TargetEvent, WholeJournal
<1> QED BY <1>4, <1>5, <1>7, NobodyIsNoHit DEF ShutdownInv, TargetInv

\* The shared order is the order of time, in all lists together.
LEMMA OrderIsTheOrder_ ==
  ASSUME ShutdownInv
  PROVE  OrderIsTheOrder
<1> SUFFICES ASSUME journal # NoJournal
             PROVE  /\ TargetEvent # Nobody /\ Cleared # Nobody =>
                          (MapClearedBeforeCheck <=> Cleared.at < TargetEvent.at)
                    /\ \A one, other \in Events : one # other =>
                          (<<one, other>> \in Timeline <=> one.at < other.at)
                    /\ \A i \in 1 .. Len(journal.socket) :
                          LET event == journal.socket[i] IN
                          /\ event.role = "static-release" => Phase(event) # "before-exit"
                          /\ event.role \in {"release", "static-release"} /\ Phase(event) = "inside-exit-handlers" =>
                                 First(journal.socket, {"exit"}).at < event.at
  BY DEF OrderIsTheOrder
<1> DEFINE lists == [list \in Lists |-> journal[list]]
<1>1. \A list \in Lists : lists[list] \in Seq(Entries) /\ Begins(lists[list], Listing[list])
  BY DEF ShutdownInv, JournalInv, Listing
<1>2. lists["check"] = journal.check /\ lists["watch"] = journal.watch /\ lists["socket"] = journal.socket
  BY DEF Lists
<1>3. "check" \in Lists /\ "watch" \in Lists /\ "socket" \in Lists
  BY DEF Lists
<1>4. \A list \in Lists : lists[list] \in Seq(Entries)
  BY <1>1
<1>5. \A list \in Lists : \A i \in DOMAIN lists[list] :
         lists[list][i] \in Entries /\ lists[list][i].order \in Nat /\ lists[list][i].at \in Nat
  <2>1. \A list \in Lists : \A i \in DOMAIN lists[list] : lists[list][i] \in Entries
    BY <1>4
  <2> QED BY <2>1 DEF Entries
<1>6. /\ \A list, more \in Lists : \A i \in DOMAIN lists[list], j \in DOMAIN lists[more] :
            \/ list = more /\ i = j
            \/ Before(lists[list][i], lists[more][j])
            \/ Before(lists[more][j], lists[list][i])
      /\ \A i, j \in DOMAIN journal.socket :
            journal.socket[i].role = "exit" /\ journal.socket[j].role = "static-release" =>
                journal.socket[i].at < journal.socket[j].at
  <2> HIDE DEF lists
  <2>1. \A list \in Lists : \A i \in DOMAIN lists[list] :
           i \in DOMAIN Listing[list] /\ lists[list][i] = Listing[list][i]
    BY <1>1 DEF Begins
  <2>2. \A list, more \in Lists : \A i \in DOMAIN Listing[list], j \in DOMAIN Listing[more] :
            \/ list = more /\ i = j
            \/ Before(Listing[list][i], Listing[more][j])
            \/ Before(Listing[more][j], Listing[list][i])
    BY DEF ShutdownInv, OrderInv, Ordered
  <2>3. \A i \in DOMAIN journal.socket : i \in DOMAIN capture.socket /\ journal.socket[i] = capture.socket[i]
    BY <1>2, <1>3, <2>1 DEF Listing
  <2>4. \A i, j \in DOMAIN capture.socket :
          capture.socket[i].role = "exit" /\ capture.socket[j].role = "static-release" =>
              capture.socket[i].at < capture.socket[j].at
    BY DEF ShutdownInv, ExitInv
  <2> QED BY <2>1, <2>2, <2>3, <2>4
<1> HIDE DEF lists
<1>7. ASSUME NEW list \in Lists, NEW more \in Lists, NEW i \in DOMAIN lists[list], NEW j \in DOMAIN lists[more],
             lists[list][i] # lists[more][j]
      PROVE  /\ lists[list][i].order < lists[more][j].order <=> lists[list][i].at < lists[more][j].at
             /\ lists[list][i].order # lists[more][j].order
  <2>1. \/ Before(lists[list][i], lists[more][j])
        \/ Before(lists[more][j], lists[list][i])
    BY <1>6, <1>7
  <2> QED BY <1>5, <2>1 DEF Before
<1>8. ASSUME TargetEvent # Nobody, Cleared # Nobody
      PROVE  MapClearedBeforeCheck <=> Cleared.at < TargetEvent.at
  <2>1. PICK i \in DOMAIN lists["check"] : TargetEvent = lists["check"][i] /\ lists["check"][i].role \in {"target"}
    BY <1>2, <1>3, <1>4, <1>8, FirstIsThere DEF TargetEvent
  <2> DEFINE empty == {j \in DOMAIN journal.watch :
                         journal.watch[j].role = "cleared" /\ journal.watch[j].handlers = {0}}
  <2>2. empty # {} /\ Cleared = journal.watch[Max(empty)]
    BY <1>8 DEF Cleared
  <2>3. PICK n \in Nat : DOMAIN journal.watch = 1 .. n
    BY <1>2, <1>3, <1>4
  <2>4. empty \in SUBSET (1 .. n)
    BY <2>3
  <2>5. Max(empty) \in empty
    BY <2>2, <2>3, <2>4, MaxOfPositions
  <2>6. PICK j \in DOMAIN lists["watch"] : Cleared = lists["watch"][j] /\ lists["watch"][j].role = "cleared"
    BY <1>2, <2>2, <2>5
  <2>7. lists["watch"][j] # lists["check"][i]
    BY <2>1, <2>6
  <2> QED BY <1>3, <1>7, <2>1, <2>6, <2>7 DEF MapClearedBeforeCheck
<1>9. ASSUME NEW one \in Events, NEW other \in Events, one # other
      PROVE  <<one, other>> \in Timeline <=> one.at < other.at
  <2>1. \A event \in Events : \E list \in Lists : \E i \in DOMAIN lists[list] : event = lists[list][i]
    BY <1>2, <1>3 DEF Events, Range
  <2>2. PICK list \in Lists, more \in Lists : /\ \E i \in DOMAIN lists[list] : one = lists[list][i]
                                              /\ \E j \in DOMAIN lists[more] : other = lists[more][j]
    BY <2>1
  <2>3. one.order < other.order <=> one.at < other.at
    BY <1>7, <1>9, <2>2
  <2> QED BY <2>3 DEF Timeline
<1>10. ASSUME NEW i \in 1 .. Len(journal.socket)
       PROVE  LET event == journal.socket[i] IN
              /\ event.role = "static-release" => Phase(event) # "before-exit"
              /\ event.role \in {"release", "static-release"} /\ Phase(event) = "inside-exit-handlers" =>
                     First(journal.socket, {"exit"}).at < event.at
  <2> DEFINE event == journal.socket[i]   exit == First(journal.socket, {"exit"})
  <2>1. i \in DOMAIN lists["socket"] /\ event = lists["socket"][i] /\ lists["socket"] \in Seq(Entries)
    BY <1>2, <1>3, <1>4
  <2>2. CASE exit = Nobody
    BY <2>2 DEF Phase
  <2>3. CASE exit # Nobody /\ event.role \in {"release", "static-release"}
    <3>1. PICK e \in DOMAIN lists["socket"] : exit = lists["socket"][e] /\ lists["socket"][e].role \in {"exit"}
      BY <1>2, <2>1, <2>3, FirstIsThere
    <3>2. Phase(event) = IF event.order < exit.order THEN "before-exit" ELSE "inside-exit-handlers"
      BY <2>3 DEF Phase
    <3>3. event # exit
      BY <2>3, <3>1
    <3>4. /\ event.order < exit.order <=> event.at < exit.at
          /\ exit.order < event.order <=> exit.at < event.at
          /\ event.order # exit.order
      BY <1>3, <1>7, <2>1, <3>1, <3>3
    <3>5. event.order \in Nat /\ exit.order \in Nat /\ event.at \in Nat /\ exit.at \in Nat
      BY <1>3, <1>5, <2>1, <3>1
    <3>6. event.role = "static-release" => exit.at < event.at
      BY <1>2, <1>6, <2>1, <3>1
    <3> HIDE DEF event, exit
    <3>7. event.role = "static-release" => ~(event.order < exit.order)
      BY <3>4, <3>5, <3>6
    <3>8. ~(event.order < exit.order) => exit.at < event.at
      BY <3>4, <3>5
    <3> QED BY <3>2, <3>7, <3>8 DEF event, exit
  <2> QED BY <2>2, <2>3
<1> QED BY <1>8, <1>9, <1>10

--------------------------------------------------------------------------------
(* The theorems.                                                           *)

LEMMA InitInv == Init => Inv
BY ShutdownInit_, PipelineInit_, FaultInit_ DEF Init, Inv, GdbInit, GdbType

LEMMA NextInv == Inv /\ [Next]_vars => Inv'
<1> SUFFICES ASSUME Inv, [Next]_vars PROVE Inv'
  OBVIOUS
<1>1. GdbType /\ ShutdownInv /\ PipelineInv /\ FaultInv
  BY DEF Inv
<1>2. CASE ShutdownNext /\ UNCHANGED <<pipelineVars, faultVars>>
  <2>1. probe = "shutdown" /\ probe' = probe /\ GdbType' /\ (session' = session \/ session' # "run")
    BY <1>1, <1>2 DEF ShutdownNext, Install, Register, Remove, Clear, OtherCheck, Exit, Release, Calls, Free, LogShutdown,
       Hit, Observe, Unreadable, ObserveFails, SignalStops, Exited, FinishShutdown, Awake, Running, Finishing, Stops, GdbType, gdbVars
  <2> QED BY <1>1, <1>2, <2>1, ShutdownNextInv, PipelineStays, FaultStays DEF Inv
<1>3. CASE PipelineNext /\ UNCHANGED <<shutdownVars, faultVars>>
  <2>1. probe = "pipeline" /\ probe' = probe /\ GdbType' /\ (session' = session \/ session' # "run")
    BY <1>1, <1>3 DEF PipelineNext, InstanceEntry, DeviceEntry, SetupEntry, Setup, Refuses, CreateEntry, Created,
       CreateFails, ComputeReturned, ComputeVanishes, Crash, ComputeEntry, Destroy, PipelineTimeout, UeExits, FinishPipeline,
       PipelineCaptures, Running, Finishing, Stops, GdbType, gdbVars
  <2> QED BY <1>1, <1>3, <2>1, PipelineNextInv, ShutdownStays, FaultStays DEF Inv
<1>4. CASE FaultNext /\ UNCHANGED <<shutdownVars, pipelineVars>>
  <2>1. probe = "fault" /\ probe' = probe /\ GdbType' /\ (session' = session \/ session' # "run")
    BY <1>1, <1>4 DEF FaultNext, CheckFails, Signalled, GraphicsEvent, FaultTimeout, Stopped, FaultUeExits, FinishFault,
       FaultWatches, Running, Finishing, Stops, GdbType, gdbVars
  <2> QED BY <1>1, <1>4, <2>1, FaultNextInv, ShutdownStays, PipelineStays DEF Inv
<1>5. CASE Killed
  <2>1. /\ session \notin {"done", "killed"} /\ session' = "killed" /\ probe' = probe /\ GdbType'
        /\ UNCHANGED shutdownVars /\ UNCHANGED faultVars /\ (UNCHANGED pipelineVars \/ PipelineKilled)
    BY <1>1, <1>5 DEF Killed, Ended, GdbType
  <2> QED BY <1>1, <2>1, ShutdownStays, PipelineStays, FaultStays DEF Inv
<1>6. CASE UNCHANGED vars
  <2>1. UNCHANGED <<ue, armed, capture, journal>> /\ UNCHANGED pipelineVars /\ UNCHANGED faultVars
        /\ probe' = probe /\ session' = session
    BY <1>6 DEF vars, shutdownVars, gdbVars
  <2>2. ShutdownInv'
    BY <1>1, <2>1, SameOrder, SameExit DEF ShutdownInv, ShutdownShape, JournalInv, WholeJournal, TargetInv
  <2> QED BY <1>1, <2>1, <2>2, PipelineStays, FaultStays DEF Inv, GdbType
<1> QED BY <1>2, <1>3, <1>4, <1>5, <1>6 DEF Next

LEMMA AlwaysInv == Spec => []Inv
BY InitInv, NextInv, PTL DEF Spec

\* Where the report is that no check failed (analyze) and one did, the journal itself shows
\* what was lost, for any number of events and failures and any size of the lists.
THEOREM RecordedLoss == Spec => []LossIsRecorded
<1>1. Inv => LossIsRecorded
  BY LossIsRecorded_ DEF Inv
<1> QED BY <1>1, AlwaysInv, PTL

\* What the report of a shutdown says of before and after (watch_summary, build_timeline,
\* release_phases) is how it was, whatever the lists dropped.
THEOREM ReportedOrder == Spec => []OrderIsTheOrder
<1>1. Inv => OrderIsTheOrder
  BY OrderIsTheOrder_ DEF Inv
<1> QED BY <1>1, AlwaysInv, PTL

\* An accepted capture of a pipeline's creation (validate) is of the call in question, with
\* the content that its module had then, for any number of threads, handles and calls.
THEOREM AcceptedCall == Spec => []AcceptedIsTheCall
<1>1. Inv => AcceptedIsTheCall
  BY AcceptedIsTheCall_ DEF Inv
<1> QED BY <1>1, AlwaysInv, PTL

\* An accepted report of a fault (analyze) is of the first fault and of its thread, and the
\* bind that trace_analysis correlates with it was in force, for any size of the ring.
THEOREM FirstFault == Spec => []FaultIsFirst
<1>1. Inv => FaultIsFirst
  BY FaultIsFirst_ DEF Inv
<1> QED BY <1>1, AlwaysInv, PTL
================================================================================
