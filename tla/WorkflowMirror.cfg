\* One issue, two mirrors under way, two faults, a lost file.
SPECIFICATION FairSpec
CONSTANTS
    Issues = {i1}
    Callers = {c1, c2}
    NoCall = NoCall
    MaxRevision = 3
    MaxFaults = 2
    MaxLosses = 1
INVARIANTS TypeOK MirrorIsFile
PROPERTIES MirrorForward Converges
