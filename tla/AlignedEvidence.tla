---------------------------- MODULE AlignedEvidence ----------------------------
(***************************************************************************)
(* What the sensors gate of scripts/carla/check_carla_runtime.py promises, *)
(* without queues, threads or clocks: the evidence is a run of consecutive *)
(* world frames, each carrying one packet of that very frame from every    *)
(* sensor, and the gate passes only on a complete run.  A verdict is final.*)
(***************************************************************************)
EXTENDS Naturals, Sequences

CONSTANTS
    Streams,    \* the sensors listened to
    Ticks       \* measured ticks requested on the command line

VARIABLES
    now,        \* the world's frame
    samples,    \* raw["samples"]: the aligned frames recorded so far
    verdict     \* "running", then "PASS" or "FAIL"

vars == <<now, samples, verdict>>

Sample(f) == [frame |-> f, packets |-> [s \in Streams |-> f]]

Init == now = 0 /\ samples = <<>> /\ verdict = "running"

Tick == now' = now + 1 /\ UNCHANGED <<samples, verdict>>

Deliver(f) ==
    /\ verdict = "running"
    /\ Len(samples) < Ticks
    /\ samples # <<>> => f = samples[Len(samples)].frame + 1
    /\ samples' = Append(samples, Sample(f))
    /\ UNCHANGED <<now, verdict>>

Pass ==
    /\ verdict = "running"
    /\ Len(samples) = Ticks
    /\ verdict' = "PASS"
    /\ UNCHANGED <<now, samples>>

Fail ==
    /\ verdict = "running"
    /\ verdict' = "FAIL"
    /\ UNCHANGED <<now, samples>>

Next == Tick \/ Pass \/ Fail \/ \E f \in 0 .. now : Deliver(f)

Spec == Init /\ [][Next]_vars
================================================================================
