\* One sensor, two callback threads; a queue one longer than the warm-up, which a
\* second owner of the world can fill.
CONSTANTS
    w1 = w1
    w2 = w2
    NumStreams = 1
    QueueSize = 2
    WarmupTicks = 1
    Ticks = 2
    Workers = {w1, w2}
    MaxForeign = 2
SPECIFICATION Spec
INVARIANTS
    ExclusiveNeverOverflows
    NoFalseAlarm
    FailureImpliesOverflow
PROPERTIES
    GateReturns
