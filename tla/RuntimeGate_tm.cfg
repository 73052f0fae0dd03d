\* No SIGINT, no foreign tick: actor set-up fails half way.
CONSTANTS
    Modes = {"rpc", "sensors", "actors"}
    Ticks = 2
    SensorWarmup = 1
    ActorWarmup = 1
    MaxForeign = 0
    MaxInterrupts = 0
SPECIFICATION Spec
INVARIANTS
    CleanupLeavesTrafficManagerSync
