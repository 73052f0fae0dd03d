\* A SIGINT in the finally block.
CONSTANTS
    Modes = {"rpc", "sensors", "actors"}
    Ticks = 2
    SensorWarmup = 1
    ActorWarmup = 1
    MaxForeign = 0
    MaxInterrupts = 1
SPECIFICATION Spec
INVARIANTS
    RestoredInFinally
