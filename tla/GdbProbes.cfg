CONSTANTS
  t1 = t1 t2 = t2 h1 = h1 h2 = h2 c1 = c1 c2 = c2
  Threads = {t1, t2}
  Handles = {h1, h2}
  Contexts = {c1, c2}
  MaxListed = 2
  MaxHappens = 4
  MaxFailures = 1
  MaxObjects = 3
  MaxCalls = 2
  MaxMade = 4
  MaxKept = 3
  MaxTraced = 5
SPECIFICATION Spec
INVARIANTS LossIsRecorded OrderIsTheOrder AcceptedIsTheCall FaultIsFirst
SYMMETRY Symmetric
CHECK_DEADLOCK FALSE
