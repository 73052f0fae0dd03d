CONSTANTS
    MaxEdits = 2
    ForkOrder <- OneFork
SPECIFICATION Spec
INVARIANTS
    VerifiedReproduces
    QuietCaptureVerifies
    OneTreeInAllRecords
CHECK_DEADLOCK FALSE
