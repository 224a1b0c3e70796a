\* One process, two jobs and one worker task: crashes, stops, restarts and OCR rounds.
SPECIFICATION Spec
CONSTANTS
    Instances = {w1}
    Jobs = {j1, j2}
    NoOne = NoOne
    Orphan = Orphan
    MaxWorkers = 1
    ResumeOnStart = TRUE
    LoopsMayStall = FALSE
    MaxSubmits = 1
    MaxYields = 1
    MaxCrashes = 1
    MaxStops = 1
    MaxCancels = 0
PROPERTY KeepsContract
CHECK_DEADLOCK FALSE
