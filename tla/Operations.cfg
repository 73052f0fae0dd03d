SPECIFICATION Spec
CONSTANTS
  Configs = {"planning", "scenario"}
  MaxContainers = 3
  Runners = {1}
  MaxPolls = 2
  Runs = {1}
  Tests = {"host", "gpu", "navsim", "network", "clock", "runtime", "ros", "learning", "compose", "other"}
  Roles = {"dgx", "sim-x86", "unknown"}
  MaxSignals = 1
INVARIANTS TypeOK NothingOlderPasses DecisionMatchesExit EvidenceOfOneContainer
PROPERTY WaitEnds
CHECK_DEADLOCK FALSE
