\* Two requests at a time, two versions of the document, no failure.
SPECIFICATION Spec
CONSTANTS
    Reviewers = {r1, r2}
    Analyzer = Analyzer
    None = None
    MaxVersions = 2
    MaxSessions = 2
    MaxGen = 2
    MaxFaults = 0
INVARIANTS CompletionIsLocked
SYMMETRY Symmetry
