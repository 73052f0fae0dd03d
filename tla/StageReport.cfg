\* Three paths and two stages: chains longer than the depth limit, reports
\* passed as the wrong stage, one file rebuilt or removed.
CONSTANTS
    Missing = Missing
    Contents = {c1, c2}
    Paths = {p1, p2, p3}
    Stages = {s1, s2}
    StageId <- OwnId
    MaxDepth = 2
    MaxNeeds = 2
    MaxWrites = 3
    MaxChanges = 4
SYMMETRY Symmetry
SPECIFICATION Spec
INVARIANTS
    AcceptsTheSound
    PassIsNewest
PROPERTIES
    OnlyOldBytesRevive
CHECK_DEADLOCK FALSE
