\* Two requests at a time, two sessions, two results, one failure or crash.
SPECIFICATION Spec
CONSTANTS
    Reviewers = {r1, r2}
    Analyzer = Analyzer
    None = None
    MaxVersions = 1
    MaxSessions = 2
    MaxGen = 2
    MaxFaults = 1
INVARIANTS TypeOK OneActive CompletionIsLocked LockHasOwner LockedAsJudged
PROPERTIES UnlockedAfterInvalidation
SYMMETRY Symmetry
