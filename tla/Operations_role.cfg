SPECIFICATION Spec
CONSTANTS
  Configs = {"planning", "scenario"}
  MaxContainers = 2
  Runners = {1}
  MaxPolls = 2
  Runs = {1}
  Tests = {"host", "network"}
  Roles = {"dgx", "sim-x86", "unknown"}
  MaxSignals = 0
INVARIANT UnknownRoleIsBlocked
CHECK_DEADLOCK FALSE
