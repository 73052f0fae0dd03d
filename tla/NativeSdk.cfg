CONSTANTS
    p1=p1 p2=p2 b1=b1 b2=b2 u1=u1 s1=s1 s2=s2
    PythonRuns = {p1, p2}
    BoostRuns = {b1, b2}
    UsdRuns = {u1}
    MaxEdits = 1
    Sdks = {s1, s2}
    Files <- TwoFiles
SPECIFICATION Spec
INVARIANTS
    PassUsedWhatItBinds
    OnePythonBelow
    VerifiedSdkIsWhole
    QuietBindingVerifies
SYMMETRY Interchangeable
CHECK_DEADLOCK FALSE
