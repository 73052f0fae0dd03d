\* The trap's finaliser and one started by hand, two edits and a SIGTERM: two of
\* them in any one run.
CONSTANTS
    Missing = Missing
    Finalizers = {f1, f2}
    Trap = f1
    MaxEdits = 2
    Terminations = 1
    MaxFaults = 2
SPECIFICATION Spec
INVARIANTS
    PassMeansPinned
    ReportMatchesResult
    DecisionMatchesReport
    NoFalseFail
    OneVerdict
PROPERTIES
    DecisionIsMade
