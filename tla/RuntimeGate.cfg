\* All three modes, one foreign tick, one SIGINT, every RPC failure.
CONSTANTS
    Modes = {"rpc", "sensors", "actors"}
    Ticks = 2
    SensorWarmup = 1
    ActorWarmup = 1
    MaxForeign = 1
    MaxInterrupts = 1
SPECIFICATION Spec
INVARIANTS
    PassMeansExclusive
    PassMeansReturned
    UndosAreIndependent
    NothingWithoutPermission
    PassMeansUntampered
PROPERTIES
    GateEnds
    FailIsFinal
