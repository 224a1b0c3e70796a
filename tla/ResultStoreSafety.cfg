\* One run, one candidate and its rollback, failed and unheard commits, a crash.
SPECIFICATION Spec
CONSTANTS
    Runs = {r1}
    Candidates = {k1}
    Api = Api
    Sync = Sync
    None = None
    Empty = Empty
    Legacy = Legacy
    ErrorRev = ErrorRev
    Attempts = 2
    MayOverlap = TRUE
    MaxRequests = 1
    MaxFailures = 2
    MaxCrashes = 1
    MaxRollbacks = 1
INVARIANTS TypeOK ResultIsCurrent CurrentIsComplete TokenIdentifiesResult
PROPERTY ReplacesItsBase
CHECK_DEADLOCK FALSE
