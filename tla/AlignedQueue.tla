------------------------------ MODULE AlignedQueue ------------------------------
(***************************************************************************)
(* The sensor streams of scripts/carla/check_carla_runtime.py: one         *)
(* AlignedQueue per sensor, filled by the CARLA client's pooled callback   *)
(* threads and drained by the tick loop of run_gate, against a server      *)
(* whose packets may be lost or overtake each other and whose clock        *)
(* somebody else may advance.  A packet is the world frame it was made in; *)
(* payload checks are a choice, the frame checks are not.                  *)
(*                                                                         *)
(* The reads of `failure` and `overflow` by check_failure are one step:    *)
(* both only ever rise, so the pair of reads succeeds exactly when the     *)
(* second would have succeeded alone (FailureImpliesOverflow).             *)
(***************************************************************************)
EXTENDS Naturals, Sequences, FiniteSets

CONSTANTS
    NumStreams,     \* sensors, in the order of the streams dictionary
    QueueSize,      \* QUEUE_SIZE
    WarmupTicks,    \* WARMUP_TICKS
    Ticks,          \* measured ticks requested
    Workers,        \* threads of the client's callback pool
    MaxForeign      \* bound: ticks by another owner of the world

ASSUME StreamsAssumption == NumStreams \in Nat \ {0}
ASSUME QueueAssumption   == QueueSize \in Nat \ {0}
ASSUME TicksAssumption   == WarmupTicks \in Nat /\ Ticks \in Nat \ {0}
ASSUME ForeignAssumption == MaxForeign \in Nat

\* The warm-up is left unread in the queues: it and one frame more fit (10 and 32).
ASSUME CapacityAssumption == WarmupTicks < QueueSize

Streams == 1 .. NumStreams
Loops   == WarmupTicks + Ticks

VARIABLES
    now,        \* the server's current frame
    foreign,    \* ticks made by somebody else
    wire,       \* wire[s]: packets sent and not yet handed to a callback
    queue,      \* AlignedQueue.queue, per stream
    overflow,   \* AlignedQueue.overflow
    failure,    \* AlignedQueue.failure
    closed,     \* AlignedQueue.closed
    stale,      \* AlignedQueue.stale, as the set of frames it counted
    worker,     \* the callback each pool thread is executing
    pc,         \* where run_gate is
    cur,        \* the stream its loop over the streams has reached
    index,      \* the tick loop's index
    baseline,   \* raw["tick_baseline"]
    previous,   \* frame of the last validated snapshot
    ticked,     \* frame world.tick() returned
    packets,    \* the packets frame() returned in this tick
    samples,    \* raw["samples"]
    verdict,    \* the tick loop's outcome
    faults      \* what the environment did wrong (history)

world  == <<now, foreign, wire>>
stream == <<queue, overflow, failure, closed, stale>>
gate   == <<pc, cur, index, baseline, previous, ticked, packets, samples, verdict>>
vars   == <<world, stream, worker, gate, faults>>

Idle == [pc |-> "idle", stream |-> 1, frame |-> 0]

WorkerPC == {"idle", "overflow?", "closed?", "put", "full", "failing"}
Calls    == [pc: WorkerPC, stream: Streams, frame: Nat]
Failures == {"none", "detected", "full"}
GatePC   == {"baseline", "check", "tick", "snapshot", "frame", "top", "get",
             "recheck", "validate", "final", "close", "done"}
Faults   == {"foreign", "loss", "timeout", "payload", "abort"}

TypeOK ==
    /\ now \in Nat /\ foreign \in Nat
    /\ wire \in [Streams -> SUBSET Nat]
    /\ queue \in [Streams -> Seq(Nat)]
    /\ overflow \in [Streams -> BOOLEAN]
    /\ failure \in [Streams -> Failures]
    /\ closed \in [Streams -> BOOLEAN]
    /\ stale \in [Streams -> SUBSET Nat]
    /\ worker \in [Workers -> Calls]
    /\ pc \in GatePC
    /\ cur \in Streams
    /\ index \in 0 .. Loops
    /\ baseline \in Nat /\ previous \in Nat /\ ticked \in Nat
    /\ packets \in [Streams -> Nat]
    /\ samples \in Seq([frame: Nat, packets: [Streams -> Nat]])
    /\ verdict \in {"running", "PASS", "FAIL"}
    /\ faults \subseteq Faults

\* The gate has just returned from _spawn_sensors: both sensors listen.
Init ==
    /\ now = 0 /\ foreign = 0
    /\ wire = [s \in Streams |-> {}]
    /\ queue = [s \in Streams |-> <<>>]
    /\ overflow = [s \in Streams |-> FALSE]
    /\ failure = [s \in Streams |-> "none"]
    /\ closed = [s \in Streams |-> FALSE]
    /\ stale = [s \in Streams |-> {}]
    /\ worker = [w \in Workers |-> Idle]
    /\ pc = "baseline" /\ cur = 1 /\ index = 0
    /\ baseline = 0 /\ previous = 0 /\ ticked = 0
    /\ packets = [s \in Streams |-> 0]
    /\ samples = <<>>
    /\ verdict = "running"
    /\ faults = {}

--------------------------------------------------------------------------------
(* The server: every tick makes one packet per sensor; some may be lost.   *)

ServerTick(cause) ==
    \E lost \in SUBSET Streams :
        /\ now' = now + 1
        /\ wire' = [s \in Streams |-> IF s \in lost THEN wire[s]
                                      ELSE wire[s] \cup {now + 1}]
        /\ faults' = faults \cup cause \cup (IF lost = {} THEN {} ELSE {"loss"})

\* Another client ticks the world the gate believes it owns.
ForeignTick ==
    /\ foreign < MaxForeign
    /\ pc # "done"
    /\ foreign' = foreign + 1
    /\ ServerTick({"foreign"})
    /\ UNCHANGED <<stream, worker, gate>>

--------------------------------------------------------------------------------
(* AlignedQueue.__call__, one step per test or write another thread can see. *)

Goto(w, where) == worker' = [worker EXCEPT ![w].pc = where]
Return(w)      == worker' = [worker EXCEPT ![w] = Idle]

\* A pool thread enters the callback with any packet that has arrived.
OnPacket(w, s, f) ==
    /\ worker[w].pc = "idle"
    /\ f \in wire[s]
    /\ wire' = [wire EXCEPT ![s] = @ \ {f}]
    /\ IF failure[s] # "none"
       THEN UNCHANGED worker
       ELSE worker' = [worker EXCEPT ![w] = [pc |-> "overflow?", stream |-> s, frame |-> f]]
    /\ UNCHANGED <<now, foreign, stream, gate, faults>>

TestOverflow(w) ==
    LET s == worker[w].stream IN
    /\ worker[w].pc = "overflow?"
    /\ IF overflow[s]
       THEN failure' = [failure EXCEPT ![s] = "detected"] /\ Return(w)
       ELSE UNCHANGED failure /\ Goto(w, "closed?")
    /\ UNCHANGED <<world, queue, overflow, closed, stale, gate, faults>>

TestClosed(w) ==
    /\ worker[w].pc = "closed?"
    /\ IF closed[worker[w].stream] THEN Return(w) ELSE Goto(w, "put")
    /\ UNCHANGED <<world, stream, gate, faults>>

\* Mutant of PutNowait: the queue is one shorter.
PutNowaitShort(w) ==
    LET s == worker[w].stream IN
    /\ worker[w].pc = "put"
    /\ IF Len(queue[s]) < QueueSize - 1
       THEN queue' = [queue EXCEPT ![s] = Append(@, worker[w].frame)] /\ Return(w)
       ELSE UNCHANGED queue /\ Goto(w, "full")
    /\ UNCHANGED <<world, overflow, failure, closed, stale, gate, faults>>

\* Mutant of PutNowait: the failure is recorded before the flag.
PutNowaitFailureFirst(w) ==
    LET s == worker[w].stream IN
    /\ worker[w].pc = "put"
    /\ IF Len(queue[s]) < QueueSize
       THEN queue' = [queue EXCEPT ![s] = Append(@, worker[w].frame)] /\ Return(w) /\ UNCHANGED failure
       ELSE failure' = [failure EXCEPT ![s] = "full"] /\ Goto(w, "full") /\ UNCHANGED queue
    /\ UNCHANGED <<world, overflow, closed, stale, gate, faults>>

\* queue.put_nowait: the packet is dropped when the queue is full.
PutNowait(w) ==
    LET s == worker[w].stream IN
    /\ worker[w].pc = "put"
    /\ IF Len(queue[s]) < QueueSize
       THEN queue' = [queue EXCEPT ![s] = Append(@, worker[w].frame)] /\ Return(w)
       ELSE UNCHANGED queue /\ Goto(w, "full")
    /\ UNCHANGED <<world, overflow, failure, closed, stale, gate, faults>>

SetOverflow(w) ==
    /\ worker[w].pc = "full"
    /\ overflow' = [overflow EXCEPT ![worker[w].stream] = TRUE]
    /\ Goto(w, "failing")
    /\ UNCHANGED <<world, queue, failure, closed, stale, gate, faults>>

SetFailure(w) ==
    /\ worker[w].pc = "failing"
    /\ failure' = [failure EXCEPT ![worker[w].stream] = "full"]
    /\ Return(w)
    /\ UNCHANGED <<world, queue, overflow, closed, stale, gate, faults>>

Callback(w) ==
    \/ \E s \in Streams : \E f \in wire[s] : OnPacket(w, s, f)
    \/ TestOverflow(w) \/ TestClosed(w) \/ PutNowait(w)
    \/ SetOverflow(w) \/ SetFailure(w)

--------------------------------------------------------------------------------
(* run_gate's tick loop with AlignedQueue.frame and check_failure inlined. *)

\* An exception leaves the loop for the finally block, which closes the streams.
Raise(why) ==
    /\ verdict' = "FAIL"
    /\ pc' = "close" /\ cur' = 1
    /\ faults' = faults \cup why
    /\ UNCHANGED <<index, baseline, previous, ticked, packets, samples>>

\* Mutant of Advance: the loop has no end.
AdvanceForever(i) == index' = i /\ cur' = 1 /\ pc' = "check"

Advance(i) ==
    /\ index' = i
    /\ cur' = 1
    /\ pc' = IF i = Loops THEN "final" ELSE "check"

TakeBaseline ==
    /\ pc = "baseline"
    /\ baseline' = now /\ previous' = now
    /\ Advance(0)
    /\ UNCHANGED <<world, stream, worker, ticked, packets, samples, verdict, faults>>

Healthy(s) == failure[s] = "none" /\ ~overflow[s]

CheckFailure ==
    /\ pc = "check"
    /\ \/ ~Healthy(cur) /\ Raise({})
       \/ /\ Healthy(cur)
          /\ IF cur < NumStreams
             THEN cur' = cur + 1 /\ pc' = pc
             ELSE cur' = 1 /\ pc' = "tick"
          /\ UNCHANGED <<index, baseline, previous, ticked, packets, samples, verdict, faults>>
    /\ UNCHANGED <<world, stream, worker>>

WorldTick ==
    /\ pc = "tick"
    /\ ServerTick({})
    /\ ticked' = now + 1
    /\ pc' = "snapshot"
    /\ UNCHANGED <<foreign, stream, worker, cur, index, baseline, previous, packets,
                   samples, verdict>>

\* Mutant of SnapshotOK: the previous snapshot is not looked at.
SnapshotOfThisTick == now = ticked

\* validate_snapshot: the snapshot is the tick's and follows the previous one.
SnapshotOK == now = ticked /\ now = previous + 1

\* Mutant of ValidateSnapshot: one warm-up tick too many.
ValidateSnapshotLongWarmup ==
    /\ pc = "snapshot"
    /\ \/ ~SnapshotOK /\ Raise({})
       \/ /\ SnapshotOK
          /\ previous' = now
          /\ IF index <= WarmupTicks
             THEN Advance(index + 1)
             ELSE pc' = "frame" /\ cur' = 1 /\ UNCHANGED index
          /\ UNCHANGED <<baseline, ticked, packets, samples, verdict, faults>>
    /\ UNCHANGED <<world, stream, worker>>

ValidateSnapshot ==
    /\ pc = "snapshot"
    /\ \/ ~SnapshotOK /\ Raise({})
       \/ /\ SnapshotOK
          /\ previous' = now
          /\ IF index < WarmupTicks
             THEN Advance(index + 1)
             ELSE pc' = "frame" /\ cur' = 1 /\ UNCHANGED index
          /\ UNCHANGED <<baseline, ticked, packets, samples, verdict, faults>>
    /\ UNCHANGED <<world, stream, worker>>

\* frame(expected = previous) starts with _check_failure.
FrameEnter ==
    /\ pc = "frame"
    /\ \/ ~Healthy(cur) /\ Raise({})
       \/ /\ Healthy(cur)
          /\ pc' = "top"
          /\ UNCHANGED <<cur, index, baseline, previous, ticked, packets, samples, verdict, faults>>
    /\ UNCHANGED <<world, stream, worker>>

\* The head of its loop looks at `overflow` alone, and at the deadline.
FrameTop ==
    /\ pc = "top"
    /\ \/ overflow[cur] /\ Raise({})
       \/ Raise({"timeout"})
       \/ /\ ~overflow[cur]
          /\ pc' = "get"
          /\ UNCHANGED <<cur, index, baseline, previous, ticked, packets, samples, verdict, faults>>
    /\ UNCHANGED <<world, stream, worker>>

\* Mutant of FrameGet: `<=` for `<`.
FrameGetSkipsExpected ==
    /\ pc = "get"
    /\ queue[cur] # <<>>
    /\ queue' = [queue EXCEPT ![cur] = Tail(@)]
    /\ IF Head(queue[cur]) <= previous
       THEN /\ stale' = [stale EXCEPT ![cur] = @ \cup {Head(queue[cur])}]
            /\ pc' = "top"
            /\ UNCHANGED <<cur, index, baseline, previous, ticked, packets, samples, verdict, faults>>
       ELSE Raise({}) /\ UNCHANGED stale
    /\ UNCHANGED <<world, overflow, failure, closed, worker>>

\* Mutant of FrameGet: an older packet is an error.
FrameGetNoStale ==
    /\ pc = "get"
    /\ queue[cur] # <<>>
    /\ queue' = [queue EXCEPT ![cur] = Tail(@)]
    /\ IF Head(queue[cur]) # previous
       THEN Raise({})
       ELSE /\ packets' = [packets EXCEPT ![cur] = previous]
            /\ pc' = "recheck"
            /\ UNCHANGED <<cur, index, baseline, previous, ticked, samples, verdict, faults>>
    /\ UNCHANGED <<world, overflow, failure, closed, stale, worker>>

\* queue.get returns the oldest packet.
FrameGet ==
    /\ pc = "get"
    /\ queue[cur] # <<>>
    /\ queue' = [queue EXCEPT ![cur] = Tail(@)]
    /\ LET f == Head(queue[cur]) IN
       \/ /\ f < previous
          /\ stale' = [stale EXCEPT ![cur] = @ \cup {f}]
          /\ pc' = "top"
          /\ UNCHANGED <<cur, index, baseline, previous, ticked, packets, samples, verdict, faults>>
       \/ f > previous /\ Raise({}) /\ UNCHANGED stale
       \/ /\ f = previous
          /\ packets' = [packets EXCEPT ![cur] = f]
          /\ pc' = "recheck"
          /\ UNCHANGED <<stale, cur, index, baseline, previous, ticked, samples, verdict, faults>>
    /\ UNCHANGED <<world, overflow, failure, closed, worker>>

\* Mutant of FrameEmpty: each get starts a new deadline.
FrameEmptyRetries ==
    /\ pc = "get"
    /\ queue[cur] = <<>>
    /\ pc' = "top"
    /\ UNCHANGED <<world, stream, worker, cur, index, baseline, previous, ticked, packets, samples,
                   verdict, faults>>

\* queue.Empty: the deadline passed with nothing to read.
FrameEmpty ==
    /\ pc = "get"
    /\ queue[cur] = <<>>
    /\ Raise({"timeout"})
    /\ UNCHANGED <<world, stream, worker>>

FrameRecheck ==
    /\ pc = "recheck"
    /\ \/ overflow[cur] /\ Raise({})
       \/ /\ ~overflow[cur]
          /\ IF cur < NumStreams
             THEN cur' = cur + 1 /\ pc' = "frame"
             ELSE cur' = 1 /\ pc' = "validate"
          /\ UNCHANGED <<index, baseline, previous, ticked, packets, samples, verdict, faults>>
    /\ UNCHANGED <<world, stream, worker>>

\* _packet_frame on every packet, then the payload checks, then the record.
Aligned == \A s \in Streams : packets[s] = previous

\* _payload, validate_image and validate_lidar, whichever of them refuses.
PayloadRejected == Raise({"payload"})

ValidatePackets ==
    /\ pc = "validate"
    /\ \/ ~Aligned /\ Raise({})
       \/ PayloadRejected
       \/ /\ Aligned
          /\ samples' = Append(samples, [frame |-> previous, packets |-> packets])
          /\ Advance(index + 1)
          /\ UNCHANGED <<baseline, previous, ticked, packets, verdict, faults>>
    /\ UNCHANGED <<world, stream, worker>>

\* After the loop only the overflow flags are looked at.
FinalOverflowCheck ==
    /\ pc = "final"
    /\ \/ overflow[cur] /\ Raise({})
       \/ /\ ~overflow[cur]
          /\ IF cur < NumStreams
             THEN cur' = cur + 1 /\ UNCHANGED <<pc, verdict>>
             ELSE cur' = 1 /\ pc' = "close" /\ verdict' = "PASS"
          /\ UNCHANGED <<index, baseline, previous, ticked, packets, samples, faults>>
    /\ UNCHANGED <<world, stream, worker>>

\* Any other exception of the try block: an RPC error, Ctrl-C, SIGINT.
Abort ==
    /\ verdict = "running"
    /\ Raise({"abort"})
    /\ UNCHANGED <<world, stream, worker>>

CloseStreams ==
    /\ pc = "close"
    /\ closed' = [closed EXCEPT ![cur] = TRUE]
    /\ IF cur < NumStreams THEN cur' = cur + 1 /\ pc' = pc ELSE cur' = 1 /\ pc' = "done"
    /\ UNCHANGED <<world, queue, overflow, failure, stale, worker, index, baseline, previous,
                   ticked, packets, samples, verdict, faults>>

GateStep ==
    \/ TakeBaseline \/ CheckFailure \/ WorldTick \/ ValidateSnapshot
    \/ FrameEnter \/ FrameTop \/ FrameGet \/ FrameEmpty \/ FrameRecheck
    \/ ValidatePackets \/ FinalOverflowCheck \/ CloseStreams

\* Nothing is left to do: the gate has returned and every packet was handled.
Finished ==
    /\ pc = "done"
    /\ \A s \in Streams : wire[s] = {}
    /\ \A w \in Workers : worker[w].pc = "idle"
    /\ UNCHANGED vars

Next ==
    \/ ForeignTick
    \/ \E w \in Workers : Callback(w)
    \/ GateStep
    \/ Abort
    \/ Finished

\* The gate's own thread and the pool threads are scheduled; nothing else is.
Fairness == WF_vars(GateStep) /\ \A w \in Workers : WF_vars(Callback(w))

Spec == Init /\ [][Next]_vars /\ Fairness

--------------------------------------------------------------------------------
(* Properties.                                                             *)

\* A passing gate holds one sample per requested tick, the frames follow the
\* warm-up without a gap, and every sensor's packet is of the sample's frame
\* (run_gate's loop, validate_snapshot, AlignedQueue.frame and _packet_frame).
\* The gap-free frames also say that nobody else ticked the world between the
\* baseline and the last snapshot: the gate made Loops ticks, and Loops frames
\* passed ("Concurrent ticking is a gate failure").
PassMeansAligned ==
    verdict = "PASS" =>
        /\ Len(samples) = Ticks
        /\ \A i \in 1 .. Len(samples) :
              samples[i] = [frame   |-> baseline + WarmupTicks + i,
                            packets |-> [s \in Streams |-> baseline + WarmupTicks + i]]

\* The inductive core of PassMeansAligned: where the tick loop stands says how
\* far the world has come since the baseline and what has been recorded.
TickLoopInv ==
    /\ previous <= now
    /\ verdict = "running" <=> pc \notin {"close", "done"}
    /\ pc \notin {"final", "close", "done"} => index < Loops
    /\ verdict # "FAIL" =>
        /\ pc = "baseline" => index = 0
        /\ pc \in {"final", "close", "done"} => index = Loops
        /\ pc \in {"check", "tick", "snapshot", "final", "close", "done"} =>
              previous = baseline + index
        /\ pc \in {"frame", "top", "get", "recheck", "validate"} =>
              previous = baseline + index + 1 /\ index >= WarmupTicks
        /\ Len(samples) = IF index <= WarmupTicks THEN 0 ELSE index - WarmupTicks
        /\ \A i \in 1 .. Len(samples) :
              samples[i] = [frame   |-> baseline + WarmupTicks + i,
                            packets |-> [s \in Streams |-> baseline + WarmupTicks + i]]

\* No packet of a frame the gate measures is thrown away as stale: the gate
\* ticks again only after every sensor's packet of the last frame was taken.
OnlyWarmupIsStale ==
    \A s \in Streams : \A f \in stale[s] : f <= baseline + WarmupTicks

\* A recorded failure is never visible before the overflow flag: the loop of
\* frame() and the final check of run_gate look at the flag alone.
FailureImpliesOverflow ==
    \A s \in Streams : failure[s] # "none" => overflow[s]

\* With the world to itself the gate can never overflow a queue, however the
\* pool schedules the callbacks: only the warm-up is left unread, and one
\* measured frame is outstanding at a time.
ExclusiveNeverOverflows ==
    "foreign" \notin faults => \A s \in Streams : ~overflow[s]

\* The gate raises no false alarm: it fails only when somebody else ticked the
\* world, a packet or an answer did not come in time, a payload was bad or the
\* run was interrupted; late callbacks and reordered packets alone never fail it.
NoFalseAlarm ==
    verdict = "FAIL" => faults # {}

\* Every wait has a deadline: the gate always comes to its end, whatever is
\* lost and whoever ticks (queue.get(timeout=remaining)).
GateReturns == <>(pc = "done")

\* The streams and the tick loop implement AlignedEvidence: samples are only
\* appended, one frame further each, and the verdict is final.
Evidence == INSTANCE AlignedEvidence WITH
    Streams <- Streams, Ticks <- Ticks, now <- now, samples <- samples, verdict <- verdict
ImplementsEvidence == Evidence!Spec
================================================================================
