--------------------------- MODULE AlignedQueueProofs ---------------------------
(***************************************************************************)
(* Proofs about AlignedQueue, for any number of sensors, any queue size,   *)
(* any warm-up and tick counts and any pool of callback threads: types,    *)
(* what a PASS has recorded, the refinement of AlignedEvidence, and then   *)
(* where the packets are, when a queue can fill, and that the gate does    *)
(* not fail by itself.                                                     *)
(***************************************************************************)
EXTENDS AlignedQueue, SequenceTheorems, FiniteSetTheorems, TLAPS

--------------------------------------------------------------------------------
(* Type correctness.                                                       *)

\* Before the baseline nothing has been sent, read or recorded.
LEMMA InitTypeOK == Init => TypeOK
<1> SUFFICES ASSUME Init PROVE TypeOK
  OBVIOUS
<1> QED
  BY StreamsAssumption, TicksAssumption
     DEF Init, TypeOK, Streams, Loops, Idle, Calls, WorkerPC, Failures, GatePC, Faults

\* A tick keeps the server's variables typed.
LEMMA ServerTickType ==
  ASSUME TypeOK, NEW cause \in SUBSET Faults, ServerTick(cause)
  PROVE  /\ now' \in Nat
         /\ wire' \in [Streams -> SUBSET Nat]
         /\ faults' \subseteq Faults
BY DEF ServerTick, TypeOK, Faults

\* So does leaving the loop by an exception.
LEMMA RaiseType ==
  ASSUME TypeOK, NEW why \in SUBSET Faults, Raise(why)
  PROVE  /\ verdict' \in {"running", "PASS", "FAIL"}
         /\ pc' \in GatePC /\ cur' \in Streams
         /\ faults' \subseteq Faults
         /\ index' \in 0 .. Loops
         /\ baseline' \in Nat /\ previous' \in Nat /\ ticked' \in Nat
         /\ packets' \in [Streams -> Nat]
         /\ samples' \in Seq([frame: Nat, packets: [Streams -> Nat]])
BY StreamsAssumption DEF Raise, TypeOK, GatePC, Streams

\* Returning from the callback and going on in it keep the pool typed.
LEMMA ReturnType ==
  ASSUME TypeOK, NEW w \in Workers, Return(w)
  PROVE  worker' \in [Workers -> Calls]
<1>1. Idle \in Calls
  BY StreamsAssumption DEF Idle, Calls, WorkerPC, Streams
<1> QED
  BY <1>1 DEF Return, TypeOK

\* Moving a callback on, or ending it, leaves every callback well typed.
LEMMA GotoType ==
  ASSUME TypeOK, NEW w \in Workers, NEW where \in WorkerPC, Goto(w, where)
  PROVE  worker' \in [Workers -> Calls]
<1>1. worker[w] \in Calls
  BY DEF TypeOK
<1>2. [worker[w] EXCEPT !.pc = where] \in Calls
  BY <1>1 DEF Calls
<1>3. worker' = [worker EXCEPT ![w] = [worker[w] EXCEPT !.pc = where]]
  BY DEF Goto
<1> QED
  BY <1>2, <1>3 DEF TypeOK

\* The six steps of __call__ keep types.
LEMMA CallbackType ==
  ASSUME TypeOK, NEW w \in Workers, Callback(w)
  PROVE  TypeOK'
<1> USE DEF vars, world, stream, gate
<1>0. /\ worker[w] \in Calls
      /\ worker[w].stream \in Streams /\ worker[w].frame \in Nat
      /\ {"overflow?", "closed?", "put", "full", "failing"} \subseteq WorkerPC
  BY DEF TypeOK, Calls, WorkerPC
<1>1. ASSUME NEW s \in Streams, NEW f \in wire[s], OnPacket(w, s, f) PROVE TypeOK'
  <2>1. [pc |-> "overflow?", stream |-> s, frame |-> f] \in Calls
    BY DEF TypeOK, Calls, WorkerPC
  <2>2. worker' \in [Workers -> Calls]
    BY <1>1, <2>1 DEF OnPacket, TypeOK
  <2>3. wire' \in [Streams -> SUBSET Nat]
    BY <1>1 DEF OnPacket, TypeOK
  <2> QED
    BY <1>1, <2>2, <2>3 DEF OnPacket, TypeOK
<1>2. CASE TestOverflow(w)
  <2>1. worker' \in [Workers -> Calls]
    BY <1>2, <1>0, ReturnType, GotoType DEF TestOverflow
  <2>2. failure' \in [Streams -> Failures]
    BY <1>2, <1>0 DEF TestOverflow, TypeOK, Failures
  <2> QED
    BY <1>2, <2>1, <2>2 DEF TestOverflow, TypeOK
<1>3. CASE TestClosed(w)
  <2>1. worker' \in [Workers -> Calls]
    BY <1>3, <1>0, ReturnType, GotoType DEF TestClosed
  <2> QED
    BY <1>3, <2>1 DEF TestClosed, TypeOK
<1>4. CASE PutNowait(w)
  <2>1. worker' \in [Workers -> Calls]
    BY <1>4, <1>0, ReturnType, GotoType DEF PutNowait
  <2>2. queue' \in [Streams -> Seq(Nat)]
    <3>1. Append(queue[worker[w].stream], worker[w].frame) \in Seq(Nat)
      BY <1>0 DEF TypeOK
    <3> QED
      BY <1>4, <1>0, <3>1 DEF PutNowait, TypeOK
  <2> QED
    BY <1>4, <2>1, <2>2 DEF PutNowait, TypeOK
<1>5. CASE SetOverflow(w)
  <2>1. worker' \in [Workers -> Calls]
    BY <1>5, <1>0, GotoType DEF SetOverflow
  <2> QED
    BY <1>5, <2>1 DEF SetOverflow, TypeOK
<1>6. CASE SetFailure(w)
  <2>1. worker' \in [Workers -> Calls]
    BY <1>6, ReturnType DEF SetFailure
  <2> QED
    BY <1>6, <2>1 DEF SetFailure, TypeOK, Failures
<1> QED
  BY <1>1, <1>2, <1>3, <1>4, <1>5, <1>6 DEF Callback

\* So do the steps of the tick loop and the cleanup.
LEMMA GateStepType ==
  ASSUME TypeOK, TickLoopInv, GateStep
  PROVE  TypeOK'
<1> USE DEF TypeOK, vars, world, stream, gate
<1>a. 0 \in 0 .. Loops /\ 1 \in Streams
  BY StreamsAssumption, TicksAssumption DEF Loops, Streams
<1>b. cur < NumStreams => cur + 1 \in Streams
  BY StreamsAssumption DEF Streams
<1>c. Faults = Faults /\ {} \in SUBSET Faults /\ {"timeout"} \in SUBSET Faults
                      /\ {"payload"} \in SUBSET Faults
  BY DEF Faults
<1>1. CASE TakeBaseline
  BY <1>1, <1>a DEF TakeBaseline, Advance, GatePC
<1>2. CASE CheckFailure
  BY <1>2, <1>a, <1>b, <1>c, RaiseType DEF CheckFailure, GatePC
<1>3. CASE WorldTick
  BY <1>3, <1>c, ServerTickType DEF WorldTick, GatePC
<1>4. CASE ValidateSnapshot
  <2>1. index < WarmupTicks => index + 1 \in 0 .. Loops
    BY TicksAssumption DEF Loops
  <2> QED
    BY <1>4, <2>1, <1>a, <1>c, RaiseType DEF ValidateSnapshot, Advance, GatePC
<1>5. CASE FrameEnter
  BY <1>5, <1>c, RaiseType DEF FrameEnter, GatePC
<1>6. CASE FrameTop
  BY <1>6, <1>c, RaiseType DEF FrameTop, GatePC
<1>7. CASE FrameGet
  <2>1. Head(queue[cur]) \in Nat /\ Tail(queue[cur]) \in Seq(Nat)
    BY <1>7 DEF FrameGet
  <2>2. queue' \in [Streams -> Seq(Nat)]
    BY <1>7, <2>1 DEF FrameGet
  <2>3. stale' \in [Streams -> SUBSET Nat]
    <3>1. \/ stale' = stale
          \/ stale' = [stale EXCEPT ![cur] = stale[cur] \cup {Head(queue[cur])}]
      BY <1>7 DEF FrameGet
    <3>2. stale[cur] \cup {Head(queue[cur])} \in SUBSET Nat
      BY <2>1
    <3> QED
      BY <3>1, <3>2
  <2>4. CASE Raise({})
    BY <1>7, <2>2, <2>3, <2>4, <1>c, RaiseType DEF FrameGet
  <2>5. CASE ~Raise({})
    BY <1>7, <2>1, <2>2, <2>3, <2>5 DEF FrameGet, GatePC
  <2> QED
    BY <2>4, <2>5
<1>8. CASE FrameEmpty
  BY <1>8, <1>c, RaiseType DEF FrameEmpty
<1>9. CASE FrameRecheck
  BY <1>9, <1>a, <1>b, <1>c, RaiseType DEF FrameRecheck, GatePC
<1>10. CASE ValidatePackets
  <2>1. CASE Raise({}) \/ Raise({"payload"})
    BY <1>10, <2>1, <1>c, RaiseType DEF ValidatePackets, PayloadRejected
  <2>2. CASE ~(Raise({}) \/ Raise({"payload"}))
    <3>1. samples' = Append(samples, [frame |-> previous, packets |-> packets])
      BY <1>10, <2>2 DEF ValidatePackets, PayloadRejected
    <3>2. samples' \in Seq([frame: Nat, packets: [Streams -> Nat]])
      BY <3>1
    <3>3. index + 1 \in 0 .. Loops
      BY <1>10, TicksAssumption DEF ValidatePackets, PayloadRejected, TickLoopInv, Loops
    <3> QED
      BY <1>10, <2>2, <3>2, <3>3, <1>a DEF ValidatePackets, PayloadRejected, Advance, GatePC
  <2> QED
    BY <2>1, <2>2
<1>11. CASE FinalOverflowCheck
  BY <1>11, <1>a, <1>b, <1>c, RaiseType DEF FinalOverflowCheck, GatePC
<1>12. CASE CloseStreams
  BY <1>12, <1>a, <1>b DEF CloseStreams, GatePC
<1> QED
  BY <1>1, <1>2, <1>3, <1>4, <1>5, <1>6, <1>7, <1>8, <1>9, <1>10, <1>11, <1>12 DEF GateStep

--------------------------------------------------------------------------------
(* The tick loop: what its place says about the world and the record.      *)

\* The loop has made no turn and recorded nothing.
LEMMA InitTickLoop == Init => TickLoopInv
BY TicksAssumption DEF Init, TickLoopInv, Loops

\* Nothing the server, its other client or a callback does disturbs the loop.
LEMMA OthersTickLoop ==
  ASSUME TypeOK, TickLoopInv, now' \in Nat, now' >= now, UNCHANGED gate
  PROVE  TickLoopInv'
BY DEF TickLoopInv, gate, TypeOK

\* An exception ends the loop; it claims nothing about the record any more.
LEMMA RaiseTickLoop ==
  ASSUME TypeOK, TickLoopInv, NEW why, Raise(why), now' = now
  PROVE  TickLoopInv'
BY DEF TickLoopInv, Raise

\* Recording a measured frame extends the run of samples by one.
LEMMA RecordStep ==
  ASSUME TypeOK, TickLoopInv, ValidatePackets, ~Raise({}), ~Raise({"payload"})
  PROVE  TickLoopInv'
<1> USE DEF TypeOK, world
<1> DEFINE sample(i) == [frame   |-> baseline + WarmupTicks + i,
                         packets |-> [s \in Streams |-> baseline + WarmupTicks + i]]
<1>1. /\ pc = "validate" /\ verdict = "running"
      /\ Aligned
      /\ samples' = Append(samples, [frame |-> previous, packets |-> packets])
      /\ Advance(index + 1)
      /\ UNCHANGED <<baseline, previous, ticked, packets, verdict, faults, now>>
  BY DEF ValidatePackets, PayloadRejected, TickLoopInv
<1>2. /\ previous = baseline + index + 1
      /\ index >= WarmupTicks /\ index < Loops
      /\ Len(samples) = index - WarmupTicks
      /\ \A i \in 1 .. Len(samples) : samples[i] = sample(i)
  BY <1>1, TicksAssumption DEF TickLoopInv
<1>3. [frame |-> previous, packets |-> packets] = sample(Len(samples) + 1)
  <2>1. previous = baseline + WarmupTicks + (Len(samples) + 1)
    BY <1>2, TicksAssumption
  <2>2. packets = [s \in Streams |-> previous]
    BY <1>1 DEF Aligned
  <2> QED
    BY <2>1, <2>2
<1>4. /\ Len(samples') = Len(samples) + 1
      /\ \A i \in 1 .. Len(samples') : samples'[i] = sample(i)
  <2>1. [frame |-> previous, packets |-> packets] \in [frame: Nat, packets: [Streams -> Nat]]
    OBVIOUS
  <2>2. /\ Len(samples') = Len(samples) + 1
        /\ samples'[Len(samples) + 1] = [frame |-> previous, packets |-> packets]
        /\ \A i \in 1 .. Len(samples) : samples'[i] = samples[i]
    BY <1>1, <2>1
  <2>3. ASSUME NEW i \in 1 .. Len(samples') PROVE samples'[i] = sample(i)
    <3>1. Len(samples) \in Nat
      OBVIOUS
    <3>2. i \in 1 .. Len(samples) \/ i = Len(samples) + 1
      BY <2>2, <3>1
    <3> QED
      BY <1>2, <1>3, <2>2, <3>2
  <2> QED
    BY <2>2, <2>3
<1>5. \A i \in 1 .. Len(samples') : samples'[i] = sample(i)'
  BY <1>1, <1>4
<1>6. /\ index' = index + 1
      /\ pc' = IF index' = Loops THEN "final" ELSE "check"
      /\ Len(samples') = IF index' <= WarmupTicks THEN 0 ELSE index' - WarmupTicks
      /\ previous' = baseline' + index'
      /\ index' # Loops => index' < Loops
  BY <1>1, <1>2, <1>4, TicksAssumption DEF Advance, Loops
<1> HIDE DEF sample
<1>7. previous' <= now' /\ verdict' = "running"
  BY <1>1 DEF TickLoopInv
<1> QED
  BY <1>5, <1>6, <1>7 DEF TickLoopInv, sample

\* Every step of the loop keeps count of frames and samples.
LEMMA GateTickLoop ==
  ASSUME TypeOK, TickLoopInv, GateStep
  PROVE  TickLoopInv'
<1> USE DEF vars, world, stream, gate
<1>1. CASE TakeBaseline
  BY <1>1, TicksAssumption DEF TakeBaseline, Advance, TickLoopInv, TypeOK, Loops
<1>2. CASE CheckFailure
  <2>1. CASE Raise({})
    BY <1>2, <2>1, RaiseTickLoop DEF CheckFailure
  <2>2. CASE ~Raise({})
    BY <1>2, <2>2 DEF CheckFailure, TickLoopInv
  <2> QED
    BY <2>1, <2>2
<1>3. CASE WorldTick
  BY <1>3 DEF WorldTick, ServerTick, TickLoopInv, TypeOK
<1>4. CASE ValidateSnapshot
  <2>1. CASE Raise({})
    BY <1>4, <2>1, RaiseTickLoop DEF ValidateSnapshot
  <2>2. CASE ~Raise({})
    <3>1. /\ pc = "snapshot" /\ verdict = "running" /\ previous' = now
          /\ now = previous + 1 /\ previous = baseline + index /\ index < Loops
          /\ UNCHANGED <<now, baseline, samples, verdict>>
      BY <1>4, <2>2 DEF ValidateSnapshot, SnapshotOK, TickLoopInv
    <3>2. CASE index < WarmupTicks
      <4>1. index' = index + 1 /\ pc' = "check"
        BY <1>4, <2>2, <3>2, TicksAssumption DEF ValidateSnapshot, Advance, TypeOK, Loops
      <4> QED
        BY <3>1, <3>2, <4>1, TicksAssumption DEF TickLoopInv, TypeOK, Loops
    <3>3. CASE ~(index < WarmupTicks)
      <4>1. index' = index /\ pc' = "frame"
        BY <1>4, <2>2, <3>3 DEF ValidateSnapshot
      <4>2. /\ previous' = baseline' + index' + 1 /\ index' >= WarmupTicks
            /\ previous' <= now'
        BY <3>1, <3>3, <4>1, TicksAssumption DEF TypeOK
      <4> QED
        BY <3>1, <4>1, <4>2 DEF TickLoopInv
    <3> QED
      BY <3>2, <3>3
  <2> QED
    BY <2>1, <2>2
<1>5. CASE FrameEnter
  <2>1. CASE Raise({})
    BY <1>5, <2>1, RaiseTickLoop DEF FrameEnter
  <2>2. CASE ~Raise({})
    BY <1>5, <2>2 DEF FrameEnter, TickLoopInv
  <2> QED
    BY <2>1, <2>2
<1>6. CASE FrameTop
  <2>1. CASE Raise({}) \/ Raise({"timeout"})
    BY <1>6, <2>1, RaiseTickLoop DEF FrameTop
  <2>2. CASE ~(Raise({}) \/ Raise({"timeout"}))
    BY <1>6, <2>2 DEF FrameTop, TickLoopInv
  <2> QED
    BY <2>1, <2>2
<1>7. CASE FrameGet
  <2>1. CASE Raise({})
    BY <1>7, <2>1, RaiseTickLoop DEF FrameGet
  <2>2. CASE ~Raise({})
    BY <1>7, <2>2 DEF FrameGet, TickLoopInv
  <2> QED
    BY <2>1, <2>2
<1>8. CASE FrameEmpty
  BY <1>8, RaiseTickLoop DEF FrameEmpty
<1>9. CASE FrameRecheck
  <2>1. CASE Raise({})
    BY <1>9, <2>1, RaiseTickLoop DEF FrameRecheck
  <2>2. CASE ~Raise({})
    BY <1>9, <2>2 DEF FrameRecheck, TickLoopInv
  <2> QED
    BY <2>1, <2>2
<1>10. CASE ValidatePackets
  <2>1. CASE Raise({}) \/ Raise({"payload"})
    BY <1>10, <2>1, RaiseTickLoop DEF ValidatePackets, PayloadRejected
  <2>2. CASE ~(Raise({}) \/ Raise({"payload"}))
    BY <1>10, <2>2, RecordStep
  <2> QED
    BY <2>1, <2>2
<1>11. CASE FinalOverflowCheck
  <2>1. CASE Raise({})
    BY <1>11, <2>1, RaiseTickLoop DEF FinalOverflowCheck
  <2>2. CASE ~Raise({})
    BY <1>11, <2>2 DEF FinalOverflowCheck, TickLoopInv
  <2> QED
    BY <2>1, <2>2
<1>12. CASE CloseStreams
  BY <1>12 DEF CloseStreams, TickLoopInv
<1> QED
  BY <1>1, <1>2, <1>3, <1>4, <1>5, <1>6, <1>7, <1>8, <1>9, <1>10, <1>11, <1>12 DEF GateStep

--------------------------------------------------------------------------------
(* The failure of a stream.                                                *)

\* A thread that is about to record a failure has raised the flag already.
OverflowInv ==
    /\ FailureImpliesOverflow
    /\ \A w \in Workers : worker[w].pc = "failing" => overflow[worker[w].stream]

\* No failure, no flag.
LEMMA InitOverflow == Init => OverflowInv
BY DEF Init, OverflowInv, FailureImpliesOverflow, Idle

\* Returning, or going on to any other place, makes nobody a failing thread.
LEMMA OnlySetOverflowFails ==
  ASSUME TypeOK, NEW w \in Workers, NEW where \in WorkerPC \ {"failing"},
         Return(w) \/ Goto(w, where)
  PROVE  \A v \in Workers : worker'[v].pc = "failing" => worker'[v] = worker[v]
<1> SUFFICES ASSUME NEW v \in Workers, worker'[v].pc = "failing" PROVE worker'[v] = worker[v]
  OBVIOUS
<1>1. worker \in [Workers -> Calls] /\ worker[w] \in Calls
  BY DEF TypeOK
<1>2. CASE v = w
  <2>1. worker'[w] = Idle \/ worker'[w] = [worker[w] EXCEPT !.pc = where]
    BY <1>1 DEF Return, Goto
  <2>2. worker'[w].pc = "idle" \/ worker'[w].pc = where
    BY <1>1, <2>1 DEF Idle, Calls
  <2> QED
    BY <1>2, <2>2
<1>3. CASE v # w
  BY <1>1, <1>3 DEF Return, Goto
<1> QED
  BY <1>2, <1>3

\* A callback raises the flag before it records the failure.
LEMMA CallbackOverflow ==
  ASSUME TypeOK, OverflowInv, NEW w \in Workers, Callback(w)
  PROVE  OverflowInv'
<1> USE DEF OverflowInv, FailureImpliesOverflow, vars, world, stream, gate
<1>0. worker[w].stream \in Streams
  BY DEF TypeOK, Calls
<1>a. {"closed?", "put", "full"} \subseteq WorkerPC \ {"failing"}
  BY DEF WorkerPC
<1>1. ASSUME NEW s \in Streams, NEW f \in wire[s], OnPacket(w, s, f) PROVE OverflowInv'
  <2>1. \A v \in Workers : worker'[v].pc = "failing" => worker'[v] = worker[v]
    BY <1>1 DEF OnPacket, TypeOK
  <2> QED
    BY <1>1, <2>1 DEF OnPacket
<1>2. CASE TestOverflow(w)
  <2>1. \A v \in Workers : worker'[v].pc = "failing" => worker'[v] = worker[v]
    BY <1>2, <1>a, OnlySetOverflowFails DEF TestOverflow
  <2>2. \A s \in Streams : failure'[s] # "none" => failure[s] # "none" \/ overflow[s]
    BY <1>2, <1>0 DEF TestOverflow, TypeOK
  <2> QED
    BY <1>2, <2>1, <2>2 DEF TestOverflow
<1>3. CASE TestClosed(w)
  <2>1. \A v \in Workers : worker'[v].pc = "failing" => worker'[v] = worker[v]
    BY <1>3, <1>a, OnlySetOverflowFails DEF TestClosed
  <2> QED
    BY <1>3, <2>1 DEF TestClosed
<1>4. CASE PutNowait(w)
  <2>1. \A v \in Workers : worker'[v].pc = "failing" => worker'[v] = worker[v]
    BY <1>4, <1>a, OnlySetOverflowFails DEF PutNowait
  <2> QED
    BY <1>4, <2>1 DEF PutNowait
<1>5. CASE SetOverflow(w)
  <2>1. \A s \in Streams : overflow[s] => overflow'[s]
    BY <1>5, <1>0 DEF SetOverflow, TypeOK
  <2>2. overflow'[worker[w].stream]
    BY <1>5, <1>0 DEF SetOverflow, TypeOK
  <2>3. \A v \in Workers : worker'[v].stream = worker[v].stream /\ worker[v].stream \in Streams
    BY <1>5 DEF SetOverflow, Goto, TypeOK, Calls
  <2>4. \A v \in Workers : v # w => worker'[v] = worker[v]
    BY <1>5 DEF SetOverflow, Goto, TypeOK
  <2> QED
    BY <1>5, <2>1, <2>2, <2>3, <2>4 DEF SetOverflow
<1>6. CASE SetFailure(w)
  <2>1. \A v \in Workers : worker'[v].pc = "failing" => worker'[v] = worker[v]
    BY <1>6, <1>a, OnlySetOverflowFails DEF SetFailure
  <2>2. overflow[worker[w].stream]
    BY <1>6 DEF SetFailure
  <2>3. \A s \in Streams : failure'[s] # "none" => failure[s] # "none" \/ overflow[s]
    BY <1>6, <1>0, <2>2 DEF SetFailure, TypeOK
  <2> QED
    BY <1>6, <2>1, <2>3 DEF SetFailure
<1> QED
  BY <1>1, <1>2, <1>3, <1>4, <1>5, <1>6 DEF Callback

\* The gate only reads flags and failures.
LEMMA GateOverflow ==
  ASSUME OverflowInv, GateStep
  PROVE  OverflowInv'
<1>1. UNCHANGED <<overflow, failure, worker>>
  BY DEF GateStep, TakeBaseline, CheckFailure, WorldTick, ValidateSnapshot, FrameEnter, FrameTop,
         FrameGet, FrameEmpty, FrameRecheck, ValidatePackets, PayloadRejected, FinalOverflowCheck, CloseStreams,
         world, stream
<1> QED
  BY <1>1 DEF OverflowInv, FailureImpliesOverflow

--------------------------------------------------------------------------------
(* The inductive invariant and what follows from it.                       *)

Inv == TypeOK /\ TickLoopInv /\ OverflowInv

\* The inductive invariant holds at the start.
LEMMA InitInv == Init => Inv
BY InitTypeOK, InitTickLoop, InitOverflow DEF Inv

\* Every step keeps the inductive invariant.
LEMMA StepInv == Inv /\ [Next]_vars => Inv'
<1> SUFFICES ASSUME Inv, [Next]_vars PROVE Inv'
  OBVIOUS
<1>0. TypeOK /\ TickLoopInv /\ OverflowInv
  BY DEF Inv
<1>1. CASE ForeignTick
  <2>1. PICK cause \in SUBSET Faults : ServerTick(cause)
    BY <1>1 DEF ForeignTick, Faults
  <2>2. TypeOK'
    BY <1>0, <1>1, <2>1, ServerTickType DEF ForeignTick, TypeOK, stream, gate
  <2>3. TickLoopInv'
    <3>1. now \in Nat
      BY <1>0 DEF TypeOK
    <3>2. now' = now + 1 /\ UNCHANGED gate
      BY <1>1, <2>1 DEF ForeignTick, ServerTick
    <3>3. now' \in Nat /\ now' >= now
      BY <3>1, <3>2
    <3> QED
      BY <1>0, <3>2, <3>3, OthersTickLoop
  <2>4. OverflowInv'
    BY <1>0, <1>1 DEF ForeignTick, OverflowInv, FailureImpliesOverflow, stream
  <2> QED
    BY <2>2, <2>3, <2>4 DEF Inv
<1>2. ASSUME NEW w \in Workers, Callback(w) PROVE Inv'
  <2>1. now' = now /\ UNCHANGED gate
    BY <1>2 DEF Callback, OnPacket, TestOverflow, TestClosed, PutNowait, SetOverflow, SetFailure,
                world
  <2>2. TypeOK'
    BY <1>0, <1>2, CallbackType
  <2>3. TickLoopInv'
    <3>1. now' \in Nat /\ now' >= now
      BY <1>0, <2>1 DEF TypeOK
    <3> QED
      BY <1>0, <2>1, <3>1, OthersTickLoop
  <2> QED
    BY <1>0, <1>2, <2>2, <2>3, CallbackOverflow DEF Inv
<1>3. CASE GateStep
  BY <1>0, <1>3, GateStepType, GateTickLoop, GateOverflow DEF Inv
<1>4. CASE Abort
  <2>1. Raise({"abort"}) /\ {"abort"} \in SUBSET Faults
    BY <1>4 DEF Abort, Faults
  <2>2. TypeOK'
    BY <1>0, <1>4, <2>1, RaiseType DEF Abort, TypeOK, world, stream
  <2>3. TickLoopInv'
    BY <1>0, <1>4, <2>1, RaiseTickLoop DEF Abort, world
  <2>4. OverflowInv'
    BY <1>0, <1>4 DEF Abort, OverflowInv, FailureImpliesOverflow, stream
  <2> QED
    BY <2>2, <2>3, <2>4 DEF Inv
<1>5. CASE UNCHANGED vars
  <2>1. TypeOK'
    BY <1>0, <1>5 DEF TypeOK, vars, world, stream, gate
  <2>2. TickLoopInv'
    <3>1. now' = now /\ UNCHANGED gate
      BY <1>5 DEF vars, world
    <3>2. now' \in Nat /\ now' >= now
      BY <1>0, <3>1 DEF TypeOK
    <3> QED
      BY <1>0, <3>1, <3>2, OthersTickLoop
  <2>3. OverflowInv'
    BY <1>0, <1>5 DEF OverflowInv, FailureImpliesOverflow, vars, stream
  <2> QED
    BY <2>1, <2>2, <2>3 DEF Inv
<1> QED
  BY <1>1, <1>2, <1>3, <1>4, <1>5 DEF Next, Finished

\* The inductive invariant holds at all times.
LEMMA SpecInv == Spec => []Inv
BY InitInv, StepInv, PTL DEF Spec

\* Every variable keeps its type in every reachable state.
THEOREM TypeCorrect == Spec => []TypeOK
BY SpecInv, PTL DEF Inv

\* frame() and the final check, which look at the overflow flag alone, miss no
\* recorded failure, for any number of threads in the callback.
THEOREM FailuresAreFlagged == Spec => []FailureImpliesOverflow
<1>1. Inv => FailureImpliesOverflow
  BY DEF Inv, OverflowInv
<1> QED
  BY <1>1, SpecInv, PTL

\* A gate that passes has recorded one aligned sample for each of its ticks,
\* the frames follow the warm-up without a gap and nobody else ticked between.
THEOREM PassIsAligned == Spec => []PassMeansAligned
<1>1. Inv => PassMeansAligned
  <2> SUFFICES ASSUME Inv, verdict = "PASS"
               PROVE  /\ Len(samples) = Ticks
                      /\ \A i \in 1 .. Len(samples) :
                            samples[i] = [frame   |-> baseline + WarmupTicks + i,
                                          packets |-> [s \in Streams |-> baseline + WarmupTicks + i]]
    BY DEF PassMeansAligned
  <2>1. pc \in {"close", "done"} /\ index = Loops
    BY DEF Inv, TickLoopInv
  <2> QED
    BY <2>1, TicksAssumption DEF Inv, TickLoopInv, Loops
<1> QED
  BY <1>1, SpecInv, PTL

--------------------------------------------------------------------------------
(* Refinement.                                                             *)

\* The gate starts where AlignedEvidence does.
LEMMA InitRefines == Init => Evidence!Init
BY DEF Init, Evidence!Init

\* Every step is a tick of the world, a delivered sample, a verdict or a stutter.
LEMMA StepRefines ==
  ASSUME Inv, [Next]_vars
  PROVE  [Evidence!Next]_(Evidence!vars)
<1> USE DEF Evidence!vars
<1>0. TypeOK /\ TickLoopInv
  BY DEF Inv
<1>1. ASSUME now' = now + 1, UNCHANGED <<samples, verdict>> PROVE Evidence!Next
  BY <1>1 DEF Evidence!Next, Evidence!Tick
<1>2. ASSUME NEW why, Raise(why), now' = now, pc \notin {"close", "done"} PROVE Evidence!Next
  BY <1>0, <1>2 DEF Raise, TickLoopInv, Evidence!Next, Evidence!Fail
<1>3. CASE ForeignTick
  BY <1>1, <1>3 DEF ForeignTick, ServerTick, gate
<1>4. ASSUME NEW w \in Workers, Callback(w) PROVE UNCHANGED <<now, samples, verdict>>
  BY <1>4 DEF Callback, OnPacket, TestOverflow, TestClosed, PutNowait, SetOverflow, SetFailure,
              world, gate
<1>5. CASE GateStep
  <2>1. CASE WorldTick
    BY <2>1, <1>1 DEF WorldTick, ServerTick
  <2>2. CASE ValidatePackets
    <3>1. CASE Raise({}) \/ Raise({"payload"})
      BY <2>2, <3>1, <1>2 DEF ValidatePackets, PayloadRejected, world
    <3>2. CASE ~(Raise({}) \/ Raise({"payload"}))
      <4>1. /\ pc = "validate" /\ verdict = "running"
            /\ Aligned
            /\ samples' = Append(samples, [frame |-> previous, packets |-> packets])
            /\ UNCHANGED <<now, verdict>>
        BY <1>0, <2>2, <3>2 DEF ValidatePackets, PayloadRejected, TickLoopInv, world
      <4>2. /\ previous = baseline + index + 1 /\ index < Loops /\ index >= WarmupTicks
            /\ Len(samples) = index - WarmupTicks
            /\ previous \in 0 .. now
        BY <1>0, <4>1, TicksAssumption DEF TickLoopInv, TypeOK
      <4>3. Len(samples) < Ticks
        BY <4>2, <1>0, TicksAssumption DEF Loops, TypeOK
      <4>4. samples # <<>> => previous = samples[Len(samples)].frame + 1
        <5> SUFFICES ASSUME samples # <<>>
                     PROVE  previous = samples[Len(samples)].frame + 1
          OBVIOUS
        <5>1. Len(samples) \in 1 .. Len(samples)
          <6>1. samples \in Seq([frame: Nat, packets: [Streams -> Nat]])
            BY <1>0 DEF TypeOK
          <6>2. Len(samples) \in Nat \ {0}
            BY <6>1, EmptySeq
          <6> QED
            BY <6>2
        <5>2. samples[Len(samples)].frame = baseline + WarmupTicks + Len(samples)
          <6>1. \A i \in 1 .. Len(samples) :
                   samples[i] = [frame   |-> baseline + WarmupTicks + i,
                                 packets |-> [s \in Streams |-> baseline + WarmupTicks + i]]
            BY <1>0, <4>1 DEF TickLoopInv
          <6>2. PICK p : samples[Len(samples)]
                           = [frame |-> baseline + WarmupTicks + Len(samples), packets |-> p]
            BY <5>1, <6>1
          <6> QED
            BY <6>2
        <5> QED
          BY <1>0, <4>2, <5>2, TicksAssumption DEF TypeOK
      <4>5. [frame |-> previous, packets |-> packets] = Evidence!Sample(previous)
        <5>1. packets = [s \in Streams |-> previous]
          BY <1>0, <4>1 DEF Aligned, TypeOK
        <5> QED
          BY <5>1 DEF Evidence!Sample
      <4>6. Evidence!Deliver(previous)
        BY <4>1, <4>3, <4>4, <4>5 DEF Evidence!Deliver
      <4> QED
        BY <4>2, <4>6 DEF Evidence!Next
    <3> QED
      BY <3>1, <3>2
  <2>3. CASE FinalOverflowCheck
    <3>1. CASE Raise({})
      BY <2>3, <3>1, <1>2 DEF FinalOverflowCheck, world
    <3>2. CASE ~Raise({})
      <4>1. pc = "final" /\ verdict = "running" /\ UNCHANGED <<now, samples>>
        BY <1>0, <2>3, <3>2 DEF FinalOverflowCheck, TickLoopInv, world
      <4>2. Len(samples) = Ticks
        BY <1>0, <4>1, TicksAssumption DEF TickLoopInv, Loops
      <4>3. verdict' = verdict \/ verdict' = "PASS"
        BY <2>3, <3>2 DEF FinalOverflowCheck
      <4> QED
        BY <4>1, <4>2, <4>3 DEF Evidence!Next, Evidence!Pass
    <3> QED
      BY <3>1, <3>2
  <2>4. CASE TakeBaseline \/ CloseStreams
    BY <2>4 DEF TakeBaseline, CloseStreams, world
  <2>5. CASE CheckFailure \/ ValidateSnapshot \/ FrameEnter \/ FrameGet \/ FrameRecheck
    <3>1. CASE Raise({})
      BY <2>5, <3>1, <1>2
         DEF CheckFailure, ValidateSnapshot, FrameEnter, FrameGet, FrameRecheck, world
    <3>2. CASE ~Raise({})
      BY <2>5, <3>2
         DEF CheckFailure, ValidateSnapshot, FrameEnter, FrameGet, FrameRecheck, world
    <3> QED
      BY <3>1, <3>2
  <2>6. CASE FrameTop \/ FrameEmpty
    <3>1. CASE Raise({}) \/ Raise({"timeout"})
      BY <2>6, <3>1, <1>2 DEF FrameTop, FrameEmpty, world
    <3>2. CASE ~(Raise({}) \/ Raise({"timeout"}))
      BY <2>6, <3>2 DEF FrameTop, FrameEmpty, world
    <3> QED
      BY <3>1, <3>2
  <2> QED
    BY <1>5, <2>1, <2>2, <2>3, <2>4, <2>5, <2>6 DEF GateStep
<1>6. CASE Abort
  BY <1>0, <1>2, <1>6 DEF Abort, TickLoopInv, world
<1>7. CASE UNCHANGED vars
  BY <1>7 DEF vars, world, gate
<1> QED
  BY <1>3, <1>4, <1>5, <1>6, <1>7 DEF Next, Finished

\* The callbacks, queues and tick loop implement the abstract evidence: samples
\* are appended one consecutive frame at a time and the verdict is final.
THEOREM QueuesImplementEvidence == Spec => ImplementsEvidence
<1>1. Init => Evidence!Init
  BY InitRefines
<1>2. Inv /\ [Next]_vars => [Evidence!Next]_(Evidence!vars)
  BY StepRefines
<1> QED
  BY <1>1, <1>2, SpecInv, PTL DEF Spec, ImplementsEvidence, Evidence!Spec

--------------------------------------------------------------------------------
(* Where the packets of a stream are.                                      *)
(*                                                                         *)
(* A packet is in one place at a time, on the wire, in a callback or in    *)
(* the queue (FlowInv).  While the gate runs, none that it has measured is *)
(* still on its way (TakenInv).  Without a foreign tick, what is on its    *)
(* way is thus of the warm-up or of the current frame (AloneInv), one more *)
(* than the warm-up at most.                                               *)

\* A callback that has not yet put its packet into the queue, or dropped it.
OnWay(w, s) == worker[w].pc \in {"overflow?", "closed?", "put"} /\ worker[w].stream = s

Queued(s, f) == \E i \in 1 .. Len(queue[s]) : queue[s][i] = f

InTransit(s, f) ==
    f \in wire[s] \/ Queued(s, f) \/ \E w \in Workers : OnWay(w, s) /\ worker[w].frame = f

FlowInv == \A s \in Streams :
    /\ \A f \in Nat : InTransit(s, f) => f <= now
    /\ \A f \in wire[s] : ~Queued(s, f)
    /\ \A i, j \in 1 .. Len(queue[s]) : queue[s][i] = queue[s][j] => i = j
    /\ \A w \in Workers : OnWay(w, s) => worker[w].frame \notin wire[s] /\ ~Queued(s, worker[w].frame)
    /\ \A v, w \in Workers : OnWay(v, s) /\ OnWay(w, s) /\ worker[v].frame = worker[w].frame => v = w

\* What a step may add to the packets that are on their way.
NothingNew == \A s \in Streams, f \in Nat : InTransit(s, f)' => InTransit(s, f)

--------------------------------------------------------------------------------
(* A packet is in one place at a time.                                     *)

\* Callbacks that give up what they carry, or go on carrying it.
LEMMA DropsFlow ==
  ASSUME TypeOK, FlowInv, UNCHANGED <<now, wire, queue>>,
         \A v \in Workers, s \in Streams : OnWay(v, s)' => OnWay(v, s) /\ worker'[v].frame = worker[v].frame
  PROVE  FlowInv' /\ NothingNew
BY DEF FlowInv, NothingNew, InTransit, Queued

\* Going on or returning is of this kind, but not entering the callback.
LEMMA GotoDrops ==
  ASSUME TypeOK, NEW w \in Workers,
         \/ Return(w)
         \/ worker[w].pc = "overflow?" /\ Goto(w, "closed?")
         \/ worker[w].pc = "closed?" /\ Goto(w, "put")
         \/ Goto(w, "full") \/ Goto(w, "failing")
  PROVE  \A v \in Workers, s \in Streams : OnWay(v, s)' => OnWay(v, s) /\ worker'[v].frame = worker[v].frame
<1>1. worker \in [Workers -> Calls]
  BY DEF TypeOK
<1>2. CASE Return(w)
  BY <1>1, <1>2 DEF Return, OnWay, Idle
<1>3. ASSUME NEW where \in WorkerPC, Goto(w, where)
      PROVE  /\ worker'[w].pc = where /\ worker'[w].stream = worker[w].stream
             /\ worker'[w].frame = worker[w].frame
             /\ \A v \in Workers \ {w} : worker'[v] = worker[v]
  BY <1>1, <1>3 DEF Goto, Calls
<1>4. {"closed?", "put", "full", "failing"} \subseteq WorkerPC
  BY DEF WorkerPC
<1> QED
  BY <1>2, <1>3, <1>4 DEF OnWay

\* Entering the callback takes the packet off the wire.
LEMMA OnPacketFlow ==
  ASSUME TypeOK, FlowInv, NEW w \in Workers, NEW s \in Streams, NEW f \in wire[s], OnPacket(w, s, f)
  PROVE  FlowInv' /\ NothingNew
<1>1. /\ queue' = queue /\ now' = now /\ wire \in [Streams -> SUBSET Nat] /\ worker \in [Workers -> Calls]
      /\ wire' = [wire EXCEPT ![s] = wire[s] \ {f}] /\ worker[w].pc = "idle"
  BY DEF OnPacket, TypeOK, stream
<1>2. wire'[s] = wire[s] \ {f} /\ \A t \in Streams \ {s} : wire'[t] = wire[t]
  BY <1>1
<1>3. CASE worker' = worker
  BY <1>1, <1>2, <1>3 DEF FlowInv, NothingNew, InTransit, Queued, OnWay
<1>4. CASE worker' = [worker EXCEPT ![w] = [pc |-> "overflow?", stream |-> s, frame |-> f]]
  <2>1. /\ \A v \in Workers \ {w} : worker'[v] = worker[v]
        /\ \A t \in Streams : OnWay(w, t)' <=> t = s
        /\ worker'[w].frame = f
    BY <1>1, <1>4 DEF OnWay
  <2>2. \A t \in Streams : ~OnWay(w, t)
    BY <1>1 DEF OnWay
  <2>3. \A v \in Workers \ {w}, t \in Streams : OnWay(v, t)' <=> OnWay(v, t)
    BY <2>1 DEF OnWay
  <2>4. \A t, g : Queued(t, g)' <=> Queued(t, g)
    BY <1>1 DEF Queued
  <2>5. NothingNew
    BY <1>2, <2>1, <2>3, <2>4 DEF NothingNew, InTransit
  <2>6. FlowInv'
    <3>1. ASSUME NEW t \in Streams PROVE \A g \in Nat : InTransit(t, g)' => g <= now
      BY <2>5 DEF FlowInv, NothingNew
    <3>2. ASSUME NEW t \in Streams, NEW g \in wire'[t] PROVE ~Queued(t, g)
      BY <1>2 DEF FlowInv
    <3>3. ASSUME NEW t \in Streams, NEW v \in Workers, OnWay(v, t)'
          PROVE  worker'[v].frame \notin wire'[t] /\ ~Queued(t, worker'[v].frame)
      <4>1. CASE v = w
        BY <2>1, <3>3, <4>1, <1>2 DEF FlowInv
      <4>2. CASE v # w
        BY <2>1, <2>3, <3>3, <4>2, <1>2 DEF FlowInv
      <4> QED
        BY <4>1, <4>2
    <3>4. ASSUME NEW t \in Streams, NEW u \in Workers, NEW v \in Workers, OnWay(u, t)', OnWay(v, t)',
                 worker'[u].frame = worker'[v].frame
          PROVE  u = v
      <4>1. CASE u # w /\ v # w
        BY <2>1, <2>3, <3>4, <4>1 DEF FlowInv
      <4>2. CASE u = w /\ v # w
        BY <2>1, <2>3, <3>4, <4>2 DEF FlowInv
      <4>3. CASE u # w /\ v = w
        BY <2>1, <2>3, <3>4, <4>3 DEF FlowInv
      <4> QED
        BY <4>1, <4>2, <4>3
    <3>5. \A t \in Streams : \A i, j \in 1 .. Len(queue[t]) : queue[t][i] = queue[t][j] => i = j
      BY DEF FlowInv
    <3> QED
      BY <1>1, <2>4, <3>1, <3>2, <3>3, <3>4, <3>5 DEF FlowInv
  <2> QED
    BY <2>5, <2>6
<1> QED
  BY <1>3, <1>4 DEF OnPacket

\* put_nowait hands the packet from the callback to the queue.
LEMMA PutFlow ==
  ASSUME TypeOK, FlowInv, NEW w \in Workers, NEW s \in Streams, worker[w].pc = "put", worker[w].stream = s,
         queue' = [queue EXCEPT ![s] = Append(@, worker[w].frame)], Return(w), UNCHANGED <<now, wire>>
  PROVE  FlowInv' /\ NothingNew
<1> DEFINE f == worker[w].frame
<1>1. queue \in [Streams -> Seq(Nat)] /\ worker \in [Workers -> Calls] /\ f \in Nat
  BY DEF TypeOK, Calls
<1>2. OnWay(w, s)
  BY DEF OnWay
<1>3. /\ \A t \in Streams \ {s} : queue'[t] = queue[t]
      /\ Len(queue'[s]) = Len(queue[s]) + 1 /\ queue'[s][Len(queue[s]) + 1] = f
      /\ \A i \in 1 .. Len(queue[s]) : queue'[s][i] = queue[s][i]
      /\ Len(queue[s]) \in Nat
  <2>1. queue'[s] = Append(queue[s], f) /\ \A t \in Streams \ {s} : queue'[t] = queue[t]
    BY <1>1
  <2> QED
    BY <1>1, <2>1
<1>4. \A v \in Workers, t \in Streams : OnWay(v, t)' => v # w /\ OnWay(v, t) /\ worker'[v] = worker[v]
  BY <1>1 DEF Return, OnWay, Idle
<1>5. \A t \in Streams : \A g : Queued(t, g)' <=> Queued(t, g) \/ (t = s /\ g = f)
  <2>1. \A g : Queued(s, g)' <=> Queued(s, g) \/ g = f
    BY <1>3 DEF Queued
  <2>2. \A t \in Streams \ {s} : \A g : Queued(t, g)' <=> Queued(t, g)
    BY <1>3 DEF Queued
  <2> QED
    BY <2>1, <2>2
<1> HIDE DEF f
<1>6. NothingNew
  BY <1>2, <1>4, <1>5 DEF NothingNew, InTransit, f
<1>7. ASSUME NEW t \in Streams PROVE \A g \in Nat : InTransit(t, g)' => g <= now
  BY <1>6 DEF FlowInv, NothingNew
<1>8. ASSUME NEW t \in Streams, NEW g \in wire[t] PROVE ~Queued(t, g)'
  BY <1>2, <1>5 DEF FlowInv, f
<1>9. ASSUME NEW t \in Streams, NEW v \in Workers, OnWay(v, t)'
      PROVE  worker'[v].frame \notin wire[t] /\ ~Queued(t, worker[v].frame)'
  <2>1. worker'[v].frame = worker[v].frame /\ OnWay(v, t) /\ v # w
    BY <1>4, <1>9
  <2> QED
    BY <1>2, <1>5, <2>1 DEF FlowInv, f
<1>10. \A t \in Streams : \A i, j \in 1 .. Len(queue'[t]) : queue'[t][i] = queue'[t][j] => i = j
  <2>1. ~Queued(s, f)
    BY <1>2 DEF FlowInv, f
  <2>2. ASSUME NEW i \in 1 .. Len(queue'[s]), NEW j \in 1 .. Len(queue'[s]), queue'[s][i] = queue'[s][j] PROVE i = j
    BY <1>3, <2>1, <2>2 DEF Queued, FlowInv
  <2> QED
    BY <1>3, <2>2 DEF FlowInv
<1>11. \A t \in Streams, u, v \in Workers : OnWay(u, t)' /\ OnWay(v, t)' /\ worker'[u].frame = worker'[v].frame => u = v
  BY <1>4 DEF FlowInv
<1> QED
  BY <1>6, <1>7, <1>8, <1>9, <1>10, <1>11 DEF FlowInv

\* No step of a callback makes a packet.
LEMMA CallbackFlow ==
  ASSUME TypeOK, FlowInv, NEW w \in Workers, Callback(w)
  PROVE  FlowInv' /\ NothingNew
<1> USE DEF world, stream
<1>1. ASSUME NEW s \in Streams, NEW f \in wire[s], OnPacket(w, s, f) PROVE FlowInv' /\ NothingNew
  BY <1>1, OnPacketFlow
<1>2. CASE TestOverflow(w)
  BY <1>2, GotoDrops, DropsFlow DEF TestOverflow
<1>3. CASE TestClosed(w)
  BY <1>3, GotoDrops, DropsFlow DEF TestClosed
<1>4. CASE PutNowait(w)
  <2>1. CASE queue' = queue
    BY <1>4, <2>1, GotoDrops, DropsFlow DEF PutNowait
  <2>2. CASE queue' # queue
    <3>1. worker[w].stream \in Streams
      BY DEF TypeOK, Calls
    <3> QED
      BY <1>4, <2>2, <3>1, PutFlow DEF PutNowait
  <2> QED
    BY <2>1, <2>2
<1>5. CASE SetOverflow(w)
  BY <1>5, GotoDrops, DropsFlow DEF SetOverflow
<1>6. CASE SetFailure(w)
  BY <1>6, GotoDrops, DropsFlow DEF SetFailure
<1> QED
  BY <1>1, <1>2, <1>3, <1>4, <1>5, <1>6 DEF Callback

\* A tick sends packets of the new frame, which nobody has.
LEMMA TickFlow ==
  ASSUME TypeOK, FlowInv, NEW cause, ServerTick(cause), UNCHANGED <<queue, worker>>
  PROVE  FlowInv' /\ \A s \in Streams, f \in Nat : InTransit(s, f)' => InTransit(s, f) \/ f = now + 1
<1>1. now' = now + 1 /\ now \in Nat /\ \A s \in Streams : wire[s] \subseteq wire'[s] /\ wire'[s] \subseteq wire[s] \cup {now + 1}
  BY DEF ServerTick, TypeOK
<1>2. \A s \in Streams : ~InTransit(s, now + 1)
  BY <1>1 DEF FlowInv
<1>3. \A s, f : Queued(s, f)' <=> Queued(s, f)
  BY DEF Queued
<1>4. \A v, s : OnWay(v, s)' <=> OnWay(v, s)
  BY DEF OnWay
<1>5. \A s \in Streams, f \in Nat : InTransit(s, f)' => InTransit(s, f) \/ f = now + 1
  BY <1>1, <1>3, <1>4 DEF InTransit
<1>6. \A s \in Streams, f \in Nat : InTransit(s, f)' => f <= now'
  BY <1>1, <1>5 DEF FlowInv
<1>7. \A s \in Streams : \A f \in wire'[s] : ~Queued(s, f)
  BY <1>1, <1>2 DEF FlowInv, InTransit
<1>8. \A s \in Streams, w \in Workers : OnWay(w, s) => worker[w].frame \notin wire'[s] /\ ~Queued(s, worker[w].frame)
  BY <1>1, <1>2 DEF FlowInv, InTransit
<1> QED
  BY <1>3, <1>4, <1>5, <1>6, <1>7, <1>8 DEF FlowInv

\* get takes the oldest packet out of the stream for good.
LEMMA GetFlow ==
  ASSUME TypeOK, FlowInv, FrameGet, NEW s, s = cur, NEW f, f = Head(queue[cur])
  PROVE  FlowInv' /\ NothingNew /\ InTransit(s, f) /\ ~InTransit(s, f)'
<1>1. /\ queue \in [Streams -> Seq(Nat)] /\ s \in Streams /\ queue[s] # <<>>
      /\ UNCHANGED <<now, wire, worker>> /\ queue' = [queue EXCEPT ![s] = Tail(@)]
  BY DEF FrameGet, TypeOK, world
<1>2. /\ \A t \in Streams \ {s} : queue'[t] = queue[t]
      /\ f = queue[s][1] /\ 1 \in 1 .. Len(queue[s]) /\ Len(queue[s]) \in Nat
      /\ Len(queue'[s]) = Len(queue[s]) - 1
      /\ \A i \in 1 .. Len(queue'[s]) : queue'[s][i] = queue[s][i + 1]
  <2>1. queue'[s] = Tail(queue[s]) /\ queue[s] \in Seq(Nat)
    BY <1>1
  <2> QED
    BY <1>1, <2>1
<1>3. Queued(s, f) /\ ~Queued(s, f)'
  <2>1. Queued(s, f)
    BY <1>2 DEF Queued
  <2>2. ASSUME NEW i \in 1 .. Len(queue'[s]) PROVE queue'[s][i] # f
    <3>1. i + 1 \in 1 .. Len(queue[s]) /\ i + 1 # 1
      BY <1>2
    <3> QED
      BY <1>2, <3>1, <1>1 DEF FlowInv
  <2> QED
    BY <2>1, <2>2 DEF Queued
<1>4. \A t \in Streams : \A g : Queued(t, g)' => Queued(t, g)
  <2>1. ASSUME NEW g, Queued(s, g)' PROVE Queued(s, g)
    <3>1. PICK i \in 1 .. Len(queue'[s]) : queue'[s][i] = g
      BY <2>1 DEF Queued
    <3>2. i + 1 \in 1 .. Len(queue[s]) /\ queue[s][i + 1] = g
      BY <1>2, <3>1
    <3> QED
      BY <3>2 DEF Queued
  <2>2. \A t \in Streams \ {s} : \A g : Queued(t, g)' => Queued(t, g)
    BY <1>2 DEF Queued
  <2> QED
    BY <2>1, <2>2
<1>5. \A v, t : OnWay(v, t)' <=> OnWay(v, t)
  BY <1>1 DEF OnWay
<1>6. NothingNew
  BY <1>1, <1>4, <1>5 DEF NothingNew, InTransit
<1>7. InTransit(s, f) /\ ~InTransit(s, f)'
  BY <1>1, <1>3, <1>5 DEF FlowInv, InTransit
<1>8. \A t \in Streams : \A i, j \in 1 .. Len(queue'[t]) : queue'[t][i] = queue'[t][j] => i = j
  <2>1. ASSUME NEW i \in 1 .. Len(queue'[s]), NEW j \in 1 .. Len(queue'[s]), queue'[s][i] = queue'[s][j]
        PROVE  i = j
    <3>1. i + 1 \in 1 .. Len(queue[s]) /\ j + 1 \in 1 .. Len(queue[s])
      BY <1>2
    <3>2. queue[s][i + 1] = queue[s][j + 1]
      BY <1>2, <2>1
    <3>3. i + 1 = j + 1
      BY <1>1, <3>1, <3>2 DEF FlowInv
    <3> QED
      BY <3>3
  <2> QED
    BY <1>2, <2>1 DEF FlowInv
<1>9. \A t \in Streams, g \in Nat : InTransit(t, g)' => g <= now
  BY <1>6 DEF FlowInv, NothingNew
<1>10. \A t \in Streams : /\ \A g \in wire[t] : ~Queued(t, g)'
                          /\ \A w \in Workers : OnWay(w, t) => worker[w].frame \notin wire[t]
  BY <1>4 DEF FlowInv
<1>11. ASSUME NEW t \in Streams, NEW w \in Workers, OnWay(w, t) PROVE ~(Queued(t, worker[w].frame)')
  <2>1. PICK g : g = worker[w].frame
    OBVIOUS
  <2>2. ~Queued(t, g)'
    BY <1>4, <1>11, <2>1 DEF FlowInv
  <2> QED
    BY <1>1, <2>1, <2>2
<1> QED
  BY <1>1, <1>5, <1>6, <1>7, <1>8, <1>9, <1>10, <1>11 DEF FlowInv

--------------------------------------------------------------------------------
(* What has been measured is gone.                                         *)

\* The last frame whose packet the gate has taken from the stream, or left unread.
Taken(s) ==
    IF (pc \in {"frame", "top", "get"} /\ s >= cur) \/ (pc = "recheck" /\ s > cur) THEN previous - 1 ELSE previous

TakenInv == verdict = "running" => \A s \in Streams :
    /\ \A f \in Nat : InTransit(s, f) => f <= baseline + WarmupTicks \/ f > Taken(s)
    /\ pc \in {"frame", "top", "get", "recheck", "validate"} /\ Taken(s) = previous => packets[s] = previous

\* A step of the gate that takes no packet.
LEMMA ElsewhereTaken ==
  ASSUME Inv, FlowInv, TakenInv, GateStep, ~WorldTick, ~FrameGet
  PROVE  TakenInv'
<1> SUFFICES ASSUME verdict' = "running" PROVE TakenInv'
  BY DEF TakenInv
<1> USE DEF Inv, TypeOK, world, stream
<1>1. UNCHANGED <<now, wire, queue, worker>> /\ \A s, f : InTransit(s, f)' <=> InTransit(s, f)
  <2>1. UNCHANGED <<now, wire, queue, worker>>
    BY DEF GateStep, TakeBaseline, CheckFailure, ValidateSnapshot, FrameEnter, FrameTop, FrameEmpty,
           FrameRecheck, ValidatePackets, PayloadRejected, FinalOverflowCheck, CloseStreams
  <2> QED
    BY <2>1 DEF InTransit, Queued, OnWay
<1>2. CASE TakeBaseline
  BY <1>1, <1>2, TicksAssumption DEF TakeBaseline, Advance, TakenInv, FlowInv, Taken
<1>3. CASE CheckFailure
  BY <1>1, <1>3 DEF CheckFailure, Raise, TakenInv, Taken
<1>4. CASE ValidateSnapshot
  <2>1. SnapshotOK /\ pc = "snapshot" /\ UNCHANGED baseline
    BY <1>4 DEF ValidateSnapshot, Raise
  <2>2. /\ previous' = previous + 1 /\ now = previous' /\ UNCHANGED packets
        /\ previous = baseline + index /\ \A t \in Streams : Taken(t) = previous
    BY <1>4, <2>1 DEF ValidateSnapshot, Raise, SnapshotOK, TickLoopInv, Taken
  <2>3. ASSUME NEW t \in Streams, NEW f \in Nat, InTransit(t, f)
        PROVE  f <= now /\ (f <= baseline + WarmupTicks \/ f > previous)
    BY <2>2, <2>3, <1>4, <2>1 DEF TakenInv, FlowInv, ValidateSnapshot, TickLoopInv
  <2>4. CASE index < WarmupTicks /\ Advance(index + 1)
    <3>1. pc' \in {"check", "final"}
      BY <2>4 DEF Advance
    <3>2. \A f \in Nat : f <= now => f <= baseline + WarmupTicks
      BY <2>2, <2>4, TicksAssumption
    <3> QED
      BY <1>1, <2>1, <2>3, <3>1, <3>2 DEF TakenInv
  <2>5. CASE pc' = "frame" /\ cur' = 1
    <3>1. \A t \in Streams : Taken(t)' = previous
      <4>1. \A t \in Streams : t >= 1
        BY StreamsAssumption DEF Streams
      <4>2. previous' - 1 = previous
        BY <2>2
      <4> QED
        BY <2>5, <4>1, <4>2 DEF Taken
    <3>2. previous # previous'
      BY <2>2
    <3> QED
      BY <1>1, <2>1, <2>2, <2>3, <3>1, <3>2 DEF TakenInv
  <2> QED
    BY <1>4, <2>4, <2>5 DEF ValidateSnapshot, Raise
<1>5. CASE FrameEnter
  BY <1>1, <1>5 DEF FrameEnter, Raise, TakenInv, Taken
<1>6. CASE FrameTop
  BY <1>1, <1>6 DEF FrameTop, Raise, TakenInv, Taken
<1>7. CASE FrameEmpty
  BY <1>7 DEF FrameEmpty, Raise
<1>8. CASE FrameRecheck
  <2>1. pc = "recheck" /\ UNCHANGED <<baseline, previous, packets, verdict>>
    BY <1>8 DEF FrameRecheck, Raise
  <2>2. \A t \in Streams : Taken(t)' = Taken(t)
    <3>1. CASE cur' = cur + 1 /\ pc' = "frame"
      <4>1. \A t \in Streams : t > cur <=> t >= cur + 1
        BY StreamsAssumption DEF Streams
      <4> QED
        BY <2>1, <3>1, <4>1 DEF Taken
    <3>2. CASE cur = NumStreams /\ pc' = "validate"
      <4>1. \A t \in Streams : ~(t > cur)
        BY <3>2, StreamsAssumption DEF Streams
      <4> QED
        BY <2>1, <3>2, <4>1 DEF Taken
    <3> QED
      BY <1>8, <3>1, <3>2, StreamsAssumption DEF FrameRecheck, Raise, Streams
  <2> QED
    BY <1>1, <2>1, <2>2 DEF TakenInv
<1>9. CASE ValidatePackets
  BY <1>1, <1>9 DEF ValidatePackets, PayloadRejected, Advance, Raise, TakenInv, Taken
<1>10. CASE FinalOverflowCheck
  BY <1>1, <1>10 DEF FinalOverflowCheck, Raise, TakenInv, Taken
<1>11. CASE CloseStreams
  BY <1>11 DEF CloseStreams, TickLoopInv
<1> QED
  BY <1>2, <1>3, <1>4, <1>5, <1>6, <1>7, <1>8, <1>9, <1>10, <1>11 DEF GateStep

\* frame() takes the packet of the frame, and with it the last of that frame.
LEMMA GetTaken ==
  ASSUME Inv, FlowInv, TakenInv, OnlyWarmupIsStale, FrameGet
  PROVE  TakenInv' /\ OnlyWarmupIsStale'
<1> USE DEF Inv, TypeOK, world, stream
<1>1. PICK s \in Streams, f \in Nat : s = cur /\ f = Head(queue[cur])
  BY DEF FrameGet
<1>2. InTransit(s, f) /\ ~InTransit(s, f)' /\ NothingNew
  BY <1>1, GetFlow
<1>3. /\ pc = "get" /\ verdict = "running" /\ UNCHANGED <<now, baseline, previous>>
      /\ previous = baseline + index + 1 /\ index >= WarmupTicks
  <2>1. pc = "get" /\ UNCHANGED <<now, baseline, previous>>
    BY DEF FrameGet, Raise
  <2>2. verdict = "running"
    BY <2>1 DEF TickLoopInv
  <2> QED
    BY <2>1, <2>2 DEF TickLoopInv
<1>4. Taken(s) = previous - 1
  <2>1. s >= cur
    BY <1>1, StreamsAssumption DEF Streams
  <2> QED
    BY <1>3, <2>1 DEF Taken
<1>5. f <= baseline + WarmupTicks \/ f >= previous
  BY <1>1, <1>2, <1>3, <1>4, TicksAssumption DEF TakenInv
<1>6. OnlyWarmupIsStale'
  <2>1. \A t \in Streams : \A g \in stale'[t] : g \in stale[t] \/ (g = f /\ f < previous)
    <3>1. stale \in [Streams -> SUBSET Nat]
      OBVIOUS
    <3>2. \/ stale' = stale
          \/ f < previous /\ stale' = [stale EXCEPT ![s] = @ \cup {f}]
      BY <1>1 DEF FrameGet
    <3>3. ASSUME NEW t \in Streams, NEW g \in stale'[t] PROVE g \in stale[t] \/ (g = f /\ f < previous)
      <4>1. CASE stale' = stale
        BY <3>3, <4>1
      <4>2. CASE f < previous /\ stale' = [stale EXCEPT ![s] = @ \cup {f}]
        <5>1. stale'[t] \in {stale[t], stale[t] \cup {f}}
          BY <3>1, <3>3, <4>2, Zenon
        <5> QED
          BY <3>3, <4>2, <5>1
      <4> QED
        BY <3>2, <4>1, <4>2
    <3> QED
      BY <3>3
  <2>2. \A t \in Streams : \A g \in stale[t] : g <= baseline + WarmupTicks
    BY DEF OnlyWarmupIsStale
  <2>3. f < previous => f <= baseline + WarmupTicks
    BY <1>3, <1>5
  <2>4. ASSUME NEW t \in Streams, NEW g \in stale'[t] PROVE g <= baseline + WarmupTicks
    <3>1. CASE g \in stale[t]
      BY <2>2, <3>1
    <3>2. CASE g = f /\ f < previous
      BY <2>3, <3>2
    <3> QED
      BY <2>1, <3>1, <3>2
  <2> QED
    BY <1>3, <2>4 DEF OnlyWarmupIsStale
<1>7. CASE verdict' # "running"
  BY <1>6, <1>7 DEF TakenInv
<1>8. CASE pc' = "top" /\ UNCHANGED <<cur, packets>>
  <2>1. \A t \in Streams : Taken(t)' = Taken(t)
    BY <1>3, <1>8 DEF Taken
  <2> QED
    BY <1>2, <1>3, <1>6, <1>8, <2>1 DEF TakenInv, NothingNew
<1>9. CASE f = previous /\ pc' = "recheck" /\ UNCHANGED cur /\ packets' = [packets EXCEPT ![s] = f]
  <2>1. Taken(s)' = previous /\ packets'[s] = previous
    BY <1>1, <1>3, <1>9 DEF Taken, Streams
  <2>2. \A t \in Streams \ {s} : Taken(t)' = Taken(t) /\ packets'[t] = packets[t]
    BY <1>1, <1>3, <1>9 DEF Taken, Streams
  <2>3. \A g \in Nat : InTransit(s, g)' => g <= baseline + WarmupTicks \/ g > previous
    <3>1. \A g \in Nat : g > previous - 1 /\ g # previous => g > previous
      OBVIOUS
    <3> QED
      BY <1>2, <1>3, <1>4, <1>9, <3>1 DEF TakenInv, NothingNew
  <2> QED
    BY <1>2, <1>3, <1>6, <2>1, <2>2, <2>3 DEF TakenInv, NothingNew
<1> QED
  BY <1>1, <1>6, <1>7, <1>8, <1>9 DEF FrameGet, Raise

\* A packet of a new frame has not been taken.
LEMMA TickTaken ==
  ASSUME Inv, FlowInv, TakenInv, NEW cause, ServerTick(cause), UNCHANGED <<queue, worker, baseline, previous, packets>>,
         \/ UNCHANGED <<pc, cur, verdict>>
         \/ pc' = "snapshot" /\ pc = "tick"
  PROVE  TakenInv'
<1>1. TypeOK /\ previous <= now
  BY DEF Inv, TickLoopInv
<1>2. \A s \in Streams, f \in Nat : InTransit(s, f)' => InTransit(s, f) \/ f = now + 1
  BY <1>1, TickFlow
<1>3. \A s \in Streams : Taken(s)' = Taken(s) /\ now + 1 > Taken(s)
  BY <1>1 DEF Taken, TypeOK
<1>4. verdict' = "running" => verdict = "running"
  BY DEF Inv, TickLoopInv
<1>5. pc' \in {"frame", "top", "get", "recheck", "validate"} => pc \in {"frame", "top", "get", "recheck", "validate"}
  OBVIOUS
<1> QED
  BY <1>2, <1>3, <1>4, <1>5 DEF TakenInv

PacketInv ==
    /\ FlowInv /\ TakenInv /\ OnlyWarmupIsStale
    /\ pc = "baseline" => baseline = 0

\* Nothing has been sent yet.
LEMMA InitPacket == Init => PacketInv
BY DEF Init, PacketInv, FlowInv, TakenInv, OnlyWarmupIsStale, InTransit, Queued, OnWay, Idle

\* The gate alone takes packets, the callbacks alone move them, a tick alone makes them.
LEMMA StepPacket == Inv /\ PacketInv /\ [Next]_vars => PacketInv'
<1> SUFFICES ASSUME Inv, PacketInv, [Next]_vars PROVE PacketInv'
  OBVIOUS
<1> USE DEF vars, world, stream, gate
<1>0. TypeOK /\ FlowInv /\ TakenInv /\ OnlyWarmupIsStale /\ (pc = "baseline" => baseline = 0)
  BY DEF Inv, PacketInv
<1>1. CASE ForeignTick
  <2>1. PICK cause : ServerTick(cause)
    BY <1>1 DEF ForeignTick
  <2> QED
    BY <1>0, <1>1, <2>1, TickFlow, TickTaken DEF ForeignTick, PacketInv, OnlyWarmupIsStale
<1>2. ASSUME UNCHANGED <<gate, stale>>, FlowInv', NothingNew PROVE PacketInv'
  <2>1. TakenInv'
    BY <1>0, <1>2 DEF TakenInv, NothingNew, Taken
  <2> QED
    BY <1>0, <1>2, <2>1 DEF PacketInv, OnlyWarmupIsStale
<1>3. ASSUME NEW w \in Workers, Callback(w) PROVE PacketInv'
  <2>1. UNCHANGED <<gate, stale>>
    BY <1>3 DEF Callback, OnPacket, TestOverflow, TestClosed, PutNowait, SetOverflow, SetFailure
  <2> QED
    BY <1>0, <1>2, <1>3, <2>1, CallbackFlow
<1>4. ASSUME UNCHANGED <<now, wire, queue, worker>> PROVE FlowInv' /\ NothingNew
  BY <1>0, <1>4 DEF FlowInv, NothingNew, InTransit, Queued, OnWay
<1>5. CASE WorldTick
  <2>1. PICK cause : ServerTick(cause)
    BY <1>5 DEF WorldTick
  <2> QED
    BY <1>0, <1>5, <2>1, TickFlow, TickTaken DEF WorldTick, PacketInv, OnlyWarmupIsStale
<1>6. CASE FrameGet
  <2>1. \A s, f : s = cur /\ f = Head(queue[cur]) => FlowInv'
    BY <1>0, <1>6, GetFlow
  <2>2. pc' # "baseline"
    BY <1>6 DEF FrameGet, Raise
  <2> QED
    BY <1>0, <1>6, <2>1, <2>2, GetTaken DEF PacketInv
<1>7. CASE GateStep /\ ~WorldTick /\ ~FrameGet
  <2>1. UNCHANGED <<now, wire, queue, worker, stale>>
    BY <1>7 DEF GateStep, TakeBaseline, CheckFailure, ValidateSnapshot, FrameEnter, FrameTop, FrameEmpty,
                FrameRecheck, ValidatePackets, PayloadRejected, FinalOverflowCheck, CloseStreams
  <2>2. pc' # "baseline"
    BY <1>7 DEF GateStep, TakeBaseline, CheckFailure, ValidateSnapshot, FrameEnter, FrameTop, FrameEmpty,
                FrameRecheck, ValidatePackets, PayloadRejected, FinalOverflowCheck, CloseStreams, Raise, Advance
  <2>3. baseline' = baseline \/ (baseline = 0 /\ baseline' = now)
    BY <1>0, <1>7 DEF GateStep, TakeBaseline, CheckFailure, ValidateSnapshot, FrameEnter, FrameTop, FrameEmpty,
                FrameRecheck, ValidatePackets, PayloadRejected, FinalOverflowCheck, CloseStreams, Raise
  <2>4. OnlyWarmupIsStale'
    <3>1. \A t \in Streams : \A f \in stale[t] : f \in Nat
      BY <1>0 DEF TypeOK
    <3>2. baseline \in Nat /\ now \in Nat
      BY <1>0 DEF TypeOK
    <3> QED
      BY <1>0, <2>1, <2>3, <3>1, <3>2, TicksAssumption DEF OnlyWarmupIsStale
  <2> QED
    BY <1>0, <1>4, <1>7, <2>1, <2>2, <2>4, ElsewhereTaken DEF PacketInv
<1>8. CASE Abort
  <2>1. TakenInv'
    BY <1>8 DEF Abort, Raise, TakenInv
  <2> QED
    BY <1>0, <1>4, <1>8, <2>1 DEF Abort, Raise, PacketInv, OnlyWarmupIsStale
<1>9. CASE UNCHANGED vars
  BY <1>2, <1>4, <1>9
<1> QED
  BY <1>1, <1>3, <1>5, <1>6, <1>7, <1>8, <1>9 DEF Next, Finished, GateStep

\* Where packets are, at all times.
LEMMA SpecPacket == Spec => [](Inv /\ PacketInv)
BY InitInv, InitPacket, StepInv, StepPacket, PTL DEF Spec

\* AlignedQueue.frame throws away packets of the warm-up only: whatever overtakes what on
\* the wire and in the pool, a packet of a measured frame is not older than the frame it is
\* asked for.
THEOREM StaleIsWarmup == Spec => []OnlyWarmupIsStale
BY SpecPacket, PTL DEF PacketInv

--------------------------------------------------------------------------------
(* A world of its own.                                                     *)

\* A packet of the warm-up, or of the frame the world is at.
Recent(f) == (1 <= f /\ f <= WarmupTicks) \/ (1 <= f /\ f = now)

\* The gate knows where the world is, and there is room for every packet.
AloneInv == "foreign" \notin faults =>
    /\ baseline = 0
    /\ pc = "baseline" => now = 0
    /\ verdict = "running" => /\ now = IF pc = "snapshot" THEN previous + 1 ELSE previous
                              /\ pc = "snapshot" => ticked = now
    /\ \A s \in Streams : \A f \in Nat : InTransit(s, f) => Recent(f)
    /\ \A s \in Streams : Healthy(s)
    /\ \A w \in Workers : worker[w].pc \notin {"full", "failing"}

QuietInv == AloneInv /\ NoFalseAlarm

\* What the library says of an interval, for those that start at 1.
LEMMA UpTo ==
  ASSUME NEW n \in Nat
  PROVE  IsFiniteSet(1 .. n) /\ Cardinality(1 .. n) = n
<1>1. IsFiniteSet(1 .. n) /\ Cardinality(1 .. n) = IF 1 > n THEN 0 ELSE n - 1 + 1
  BY FS_Interval
<1> QED
  BY <1>1

\* More pigeons than holes: two share one.
LEMMA TwoShare ==
  ASSUME NEW S, NEW T, IsFiniteSet(S), IsFiniteSet(T), Cardinality(T) < Cardinality(S),
         NEW f \in [S -> T]
  PROVE  \E x, y \in S : x # y /\ f[x] = f[y]
BY FS_PigeonHole

\* Distinct packets are no more than the frames they are of.
LEMMA DistinctFit ==
  ASSUME NEW q \in Seq(Nat), NEW F, IsFiniteSet(F),
         \A i \in 1 .. Len(q) : q[i] \in F,
         \A i, j \in 1 .. Len(q) : q[i] = q[j] => i = j
  PROVE  Len(q) <= Cardinality(F)
<1> DEFINE S  == 1 .. Len(q)
           at == [i \in S |-> q[i]]
<1>1. Len(q) \in Nat /\ Cardinality(F) \in Nat
  BY FS_CardinalityType
<1>2. IsFiniteSet(S) /\ Cardinality(S) = Len(q)
  BY <1>1, UpTo, Zenon
<1>3. at \in [S -> F]
  OBVIOUS
<1>4. SUFFICES ASSUME Cardinality(F) < Len(q) PROVE FALSE
  BY <1>1
<1>5. \E i, j \in S : i # j /\ at[i] = at[j]
  <2> HIDE DEF at, S
  <2>1. Cardinality(F) < Cardinality(S)
    BY <1>2, <1>4
  <2> QED
    BY <1>2, <1>3, <2>1, TwoShare
<1> QED
  BY <1>5

\* put_nowait always finds room: with a packet in hand, the warm-up's others and the
\* frame's are all there can be in the queue.
LEMMA RoomToPut ==
  ASSUME TypeOK, FlowInv, AloneInv, "foreign" \notin faults,
         NEW w \in Workers, NEW s \in Streams, worker[w].pc = "put", worker[w].stream = s
  PROVE  Len(queue[s]) < QueueSize
<1> DEFINE g == worker[w].frame
           S == (1 .. WarmupTicks) \cup {now}
<1>1. queue[s] \in Seq(Nat) /\ g \in Nat /\ now \in Nat
  BY DEF TypeOK, Calls
<1>2. OnWay(w, s) /\ InTransit(s, g)
  BY DEF OnWay, InTransit
<1>3. g \in S
  BY <1>1, <1>2, TicksAssumption DEF AloneInv, Recent
<1>4. \A i \in 1 .. Len(queue[s]) : queue[s][i] \in S \ {g}
  <2>1. ASSUME NEW i \in 1 .. Len(queue[s]) PROVE queue[s][i] \in S \ {g}
    <3>1. queue[s][i] \in Nat /\ Queued(s, queue[s][i])
      BY <1>1 DEF Queued
    <3>2. Recent(queue[s][i])
      BY <3>1 DEF AloneInv, InTransit
    <3>3. queue[s][i] # g
      BY <1>2, <3>1 DEF FlowInv
    <3> QED
      BY <3>1, <3>2, <3>3, TicksAssumption DEF Recent
  <2> QED
    BY <2>1
<1>5. IsFiniteSet(S \ {g}) /\ Cardinality(S \ {g}) \in Nat /\ Cardinality(S \ {g}) <= WarmupTicks
  <2>1. IsFiniteSet(1 .. WarmupTicks) /\ Cardinality(1 .. WarmupTicks) = WarmupTicks
    BY TicksAssumption, UpTo
  <2>2. IsFiniteSet(S) /\ Cardinality(S) \in {WarmupTicks, WarmupTicks + 1}
    BY <2>1, FS_AddElement
  <2>3. IsFiniteSet(S \ {g}) /\ Cardinality(S \ {g}) = Cardinality(S) - 1
    BY <1>3, <2>2, FS_RemoveElement
  <2>4. Cardinality(S \ {g}) \in Nat
    BY <2>3, FS_CardinalityType
  <2> HIDE DEF S
  <2> QED
    BY <2>2, <2>3, <2>4, TicksAssumption
<1>6. \A i, j \in 1 .. Len(queue[s]) : queue[s][i] = queue[s][j] => i = j
  BY DEF FlowInv
<1>7. Len(queue[s]) <= Cardinality(S \ {g})
  <2> HIDE DEF S, g
  <2> QED
    BY <1>1, <1>4, <1>5, <1>6, DistinctFit
<1> QED
  BY <1>1, <1>5, <1>7, TicksAssumption, QueueAssumption, CapacityAssumption

\* No callback finds the queue full.
LEMMA CallbackQuiet ==
  ASSUME TypeOK, FlowInv, AloneInv, NEW w \in Workers, Callback(w)
  PROVE  AloneInv'
<1> USE DEF world, stream, gate
<1> SUFFICES ASSUME "foreign" \notin faults' PROVE AloneInv'
  BY DEF AloneInv
<1>1. UNCHANGED <<gate, now, faults>>
  BY DEF Callback, OnPacket, TestOverflow, TestClosed, PutNowait, SetOverflow, SetFailure
<1>2. NothingNew
  BY CallbackFlow
<1>3. /\ worker \in [Workers -> Calls] /\ worker[w].stream \in Streams
      /\ worker[w].pc \notin {"full", "failing"} /\ Healthy(worker[w].stream)
  BY <1>1 DEF TypeOK, Calls, AloneInv
<1>4. worker[w].pc = "put" => Len(queue[worker[w].stream]) < QueueSize
  BY <1>1, <1>3, RoomToPut
<1>5. UNCHANGED <<overflow, failure>>
  BY <1>3, <1>4 DEF Callback, OnPacket, TestOverflow, TestClosed, PutNowait, SetOverflow, SetFailure, Healthy
<1>6. \A v \in Workers : worker'[v].pc \in {worker[v].pc, "idle", "overflow?", "closed?", "put"}
  <2>1. \/ worker' = worker \/ Return(w) \/ Goto(w, "closed?") \/ Goto(w, "put")
        \/ \E s \in Streams : \E f \in wire[s] :
              worker' = [worker EXCEPT ![w] = [pc |-> "overflow?", stream |-> s, frame |-> f]]
    BY <1>3, <1>4 DEF Callback, OnPacket, TestOverflow, TestClosed, PutNowait, SetOverflow, SetFailure, Healthy
  <2>2. \A v \in Workers : worker[v] \in Calls
    BY <1>3
  <2> QED
    BY <1>3, <2>1, <2>2 DEF Return, Goto, Idle, Calls
<1> QED
  BY <1>1, <1>2, <1>5, <1>6 DEF AloneInv, NothingNew, Recent, Healthy

\* The gate ticks when all that is on its way is of the warm-up.
LEMMA TickQuiet ==
  ASSUME Inv, FlowInv, TakenInv, AloneInv, WorldTick
  PROVE  AloneInv'
<1> USE DEF Inv, stream
<1> SUFFICES ASSUME "foreign" \notin faults' PROVE AloneInv'
  BY DEF AloneInv
<1>1. /\ pc = "tick" /\ pc' = "snapshot" /\ now' = now + 1 /\ ticked' = now + 1
      /\ UNCHANGED <<queue, overflow, failure, worker, baseline, previous, verdict>>
      /\ "foreign" \notin faults /\ now \in Nat /\ previous \in Nat /\ verdict = "running"
  BY DEF WorldTick, ServerTick, TypeOK, TickLoopInv
<1>2. baseline = 0 /\ now = previous
  BY <1>1 DEF AloneInv
<1>3. ASSUME NEW s \in Streams, NEW f \in Nat, InTransit(s, f) PROVE 1 <= f /\ f <= WarmupTicks
  <2>1. f <= now /\ 1 <= f
    BY <1>1, <1>3 DEF FlowInv, AloneInv, Recent
  <2>2. f <= WarmupTicks \/ f > now
    <3>1. f <= baseline + WarmupTicks \/ f > Taken(s)
      BY <1>1, <1>3 DEF TakenInv
    <3>2. Taken(s) = previous
      BY <1>1 DEF Taken
    <3> QED
      BY <1>2, <3>1, <3>2, TicksAssumption
  <2> QED
    BY <1>1, <2>1, <2>2, TicksAssumption
<1>4. \A s \in Streams, f \in Nat : InTransit(s, f)' => InTransit(s, f) \/ f = now + 1
  BY <1>1, TickFlow DEF WorldTick
<1>5. \A s \in Streams, f \in Nat : InTransit(s, f)' => Recent(f)'
  BY <1>1, <1>3, <1>4 DEF Recent
<1> QED
  BY <1>1, <1>2, <1>5 DEF AloneInv, Healthy

\* The rest of the gate changes neither the world nor what is on its way to it.
LEMMA GateQuiet ==
  ASSUME Inv, FlowInv, AloneInv, GateStep \/ Abort, ~WorldTick
  PROVE  AloneInv'
<1> USE DEF Inv, world, stream
<1> SUFFICES ASSUME "foreign" \notin faults' PROVE AloneInv'
  BY DEF AloneInv
<1>1. UNCHANGED <<now, wire, overflow, failure, worker>> /\ "foreign" \notin faults
  BY DEF GateStep, Abort, TakeBaseline, CheckFailure, ValidateSnapshot, FrameEnter, FrameTop, FrameGet, FrameEmpty,
         FrameRecheck, ValidatePackets, PayloadRejected, FinalOverflowCheck, CloseStreams, Raise
<1>2. \A s \in Streams, f \in Nat : InTransit(s, f)' => InTransit(s, f)
  <2>1. CASE FrameGet
    BY <2>1, GetFlow DEF NothingNew
  <2>2. CASE ~FrameGet
    <3>1. queue' = queue
      BY <2>2 DEF GateStep, Abort, TakeBaseline, CheckFailure, ValidateSnapshot, FrameEnter, FrameTop, FrameEmpty,
                  FrameRecheck, ValidatePackets, PayloadRejected, FinalOverflowCheck, CloseStreams
    <3> QED
      BY <1>1, <3>1 DEF InTransit, Queued, OnWay
  <2> QED
    BY <2>1, <2>2
<1>3. pc' # "baseline" /\ pc' # "snapshot"
  BY DEF GateStep, Abort, TakeBaseline, CheckFailure, ValidateSnapshot, FrameEnter, FrameTop, FrameGet, FrameEmpty,
         FrameRecheck, ValidatePackets, PayloadRejected, FinalOverflowCheck, CloseStreams, Raise, Advance
<1>4. baseline' = 0
  <2>1. CASE TakeBaseline
    BY <1>1, <2>1 DEF TakeBaseline, AloneInv
  <2>2. CASE ~TakeBaseline
    BY <1>1, <2>2 DEF GateStep, Abort, CheckFailure, ValidateSnapshot, FrameEnter, FrameTop, FrameGet, FrameEmpty,
                      FrameRecheck, ValidatePackets, PayloadRejected, FinalOverflowCheck, CloseStreams, Raise, AloneInv
  <2> QED
    BY <2>1, <2>2
<1>5. verdict' = "running" => now = previous'
  <2> SUFFICES ASSUME verdict' = "running" PROVE now = previous'
    OBVIOUS
  <2>1. CASE TakeBaseline
    BY <2>1 DEF TakeBaseline
  <2>2. CASE ValidateSnapshot
    BY <2>2 DEF ValidateSnapshot, Raise
  <2>3. CASE ~TakeBaseline /\ ~ValidateSnapshot
    <3>1. pc # "snapshot" /\ UNCHANGED previous /\ verdict = "running"
      BY <2>3 DEF GateStep, Abort, CheckFailure, FrameEnter, FrameTop, FrameGet, FrameEmpty,
                  FrameRecheck, ValidatePackets, PayloadRejected, FinalOverflowCheck, CloseStreams, Raise, TickLoopInv
    <3> QED
      BY <1>1, <3>1 DEF AloneInv
  <2> QED
    BY <2>1, <2>2, <2>3
<1> QED
  BY <1>1, <1>2, <1>3, <1>4, <1>5 DEF AloneInv, Recent, Healthy

\* Of what the gate raises an exception for, all but a fault of the world is impossible.
LEMMA StepAlarm ==
  ASSUME Inv, FlowInv, TakenInv, QuietInv, [Next]_vars
  PROVE  NoFalseAlarm'
<1> USE DEF Inv
<1> SUFFICES ASSUME verdict' = "FAIL", faults' = {} PROVE FALSE
  BY DEF NoFalseAlarm
<1>1. faults = {}
  BY DEF Next, Callback, ForeignTick, ServerTick, GateStep, Abort, OnPacket, TestOverflow, TestClosed, PutNowait,
         SetOverflow, SetFailure, TakeBaseline, CheckFailure, WorldTick, ValidateSnapshot, FrameEnter, FrameTop,
         FrameGet, FrameEmpty, FrameRecheck, ValidatePackets, PayloadRejected, FinalOverflowCheck, CloseStreams, Raise, Finished,
         vars, world, stream, gate
<1>2. verdict # "FAIL"
  BY <1>1 DEF QuietInv, NoFalseAlarm
<1>3. \A s \in Streams : Healthy(s)
  BY <1>1 DEF QuietInv, AloneInv
<1>4. cur \in Streams
  BY DEF TypeOK
<1>5. GateStep /\ verdict' # verdict
  BY <1>2 DEF Next, Callback, ForeignTick, Abort, Raise, OnPacket, TestOverflow, TestClosed, PutNowait,
              SetOverflow, SetFailure, Finished, vars, world, stream, gate
<1>6. CASE CheckFailure
  BY <1>3, <1>4, <1>5, <1>6 DEF CheckFailure
<1>7. CASE ValidateSnapshot
  <2>1. SnapshotOK
    BY <1>1, <1>7 DEF ValidateSnapshot, SnapshotOK, QuietInv, AloneInv, TickLoopInv
  <2> QED
    BY <1>5, <1>7, <2>1 DEF ValidateSnapshot
<1>8. CASE FrameEnter
  BY <1>3, <1>4, <1>5, <1>8 DEF FrameEnter
<1>9. CASE FrameTop
  BY <1>3, <1>4, <1>5, <1>9 DEF FrameTop, Raise, Healthy
<1>10. CASE FrameGet
  <2>1. PICK f \in Nat : f = Head(queue[cur])
    BY <1>10 DEF FrameGet, TypeOK
  <2>2. f <= now
    BY <1>4, <1>10, <2>1, GetFlow DEF FlowInv
  <2>3. now = previous
    BY <1>1, <1>10 DEF FrameGet, QuietInv, AloneInv, TickLoopInv
  <2>4. ~(f > previous)
    BY <2>2, <2>3 DEF TypeOK
  <2> QED
    BY <1>5, <1>10, <2>1, <2>4 DEF FrameGet
<1>11. CASE FrameEmpty
  BY <1>11 DEF FrameEmpty, Raise
<1>12. CASE FrameRecheck
  BY <1>3, <1>4, <1>5, <1>12 DEF FrameRecheck, Healthy
<1>13. CASE ValidatePackets
  <2>1. Aligned
    <3>1. pc = "validate" /\ verdict = "running"
      BY <1>13 DEF ValidatePackets, PayloadRejected, TickLoopInv
    <3>2. \A s \in Streams : Taken(s) = previous
      BY <3>1 DEF Taken
    <3> QED
      BY <3>1, <3>2 DEF TakenInv, Aligned
  <2> QED
    BY <1>5, <1>13, <2>1 DEF ValidatePackets, PayloadRejected, Raise
<1>14. CASE FinalOverflowCheck
  BY <1>3, <1>4, <1>5, <1>14 DEF FinalOverflowCheck, Healthy
<1>15. CASE TakeBaseline \/ WorldTick \/ CloseStreams
  BY <1>5, <1>15 DEF TakeBaseline, WorldTick, CloseStreams
<1> QED
  BY <1>5, <1>6, <1>7, <1>8, <1>9, <1>10, <1>11, <1>12, <1>13, <1>14, <1>15 DEF GateStep

\* The world starts at frame 0 with empty queues.
LEMMA InitQuiet == Init => QuietInv
BY DEF Init, QuietInv, AloneInv, NoFalseAlarm, InTransit, Queued, OnWay, Idle, Healthy

\* Nobody but the gate moves a world of its own, and the gate moves it when it is ready.
LEMMA StepQuiet == Inv /\ PacketInv /\ QuietInv /\ [Next]_vars => QuietInv'
<1> SUFFICES ASSUME Inv, PacketInv, QuietInv, [Next]_vars PROVE QuietInv'
  OBVIOUS
<1> USE DEF vars, world, stream, gate
<1>1. TypeOK /\ FlowInv /\ TakenInv /\ AloneInv
  BY DEF Inv, PacketInv, QuietInv
<1>2. NoFalseAlarm'
  BY <1>1, StepAlarm
<1>3. ASSUME ForeignTick PROVE AloneInv'
  BY <1>3 DEF ForeignTick, ServerTick, AloneInv
<1>4. ASSUME NEW w \in Workers, Callback(w) PROVE AloneInv'
  BY <1>1, <1>4, CallbackQuiet
<1>5. ASSUME WorldTick PROVE AloneInv'
  BY <1>1, <1>5, TickQuiet
<1>6. ASSUME GateStep \/ Abort, ~WorldTick PROVE AloneInv'
  BY <1>1, <1>6, GateQuiet
<1>7. ASSUME UNCHANGED vars PROVE AloneInv'
  BY <1>1, <1>7 DEF AloneInv, InTransit, Queued, OnWay, Recent, Healthy
<1>8. AloneInv'
  BY <1>3, <1>4, <1>5, <1>6, <1>7 DEF Next, Finished, GateStep
<1> QED
  BY <1>2, <1>8 DEF QuietInv

\* The gate's invariants together.
LEMMA SpecQuiet == Spec => []QuietInv
BY InitInv, InitPacket, InitQuiet, StepInv, StepPacket, StepQuiet, PTL DEF Spec

\* With the world to itself the gate never overflows a queue of more packets than the
\* warm-up has ticks, whatever the number of sensors and threads and the length of the run.
THEOREM ExclusiveRoom == Spec => []ExclusiveNeverOverflows
<1>1. QuietInv => ExclusiveNeverOverflows
  BY DEF QuietInv, AloneInv, Healthy, ExclusiveNeverOverflows
<1> QED
  BY <1>1, SpecQuiet, PTL

\* The gate fails for a fault of its world only: no schedule of the pool and no order of
\* the packets makes it fail.
THEOREM FaultsAlone == Spec => []NoFalseAlarm
BY SpecQuiet, PTL DEF QuietInv
================================================================================
