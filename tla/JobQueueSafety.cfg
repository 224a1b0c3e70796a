\* Two worker processes and one job: every interleaving around the claim file.
SPECIFICATION SafetySpec
CONSTANTS
    Instances = {w1, w2}
    Jobs = {j1}
    NoOne = NoOne
    Orphan = Orphan
    MaxWorkers = 1
    ResumeOnStart = FALSE
    LoopsMayStall = TRUE
    MaxSubmits = 2
    MaxYields = 1
    MaxCrashes = 1
    MaxStops = 0
    MaxCancels = 1
INVARIANTS TypeOK ClaimGuardsRun OnlyUserCancels
PROPERTY TerminalIsFinal
CHECK_DEADLOCK FALSE
