\* Two sensors, one callback thread, and a second owner of the world.
CONSTANTS
    w1 = w1
    w2 = w2
    NumStreams = 2
    QueueSize = 2
    WarmupTicks = 1
    Ticks = 2
    Workers = {w1}
    MaxForeign = 1
SPECIFICATION Spec
INVARIANTS
    TypeOK
    PassMeansAligned
    OnlyWarmupIsStale
PROPERTIES
    ImplementsEvidence
