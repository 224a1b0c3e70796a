\* One request at a time, one version, three sessions, no failure.
SPECIFICATION Spec
CONSTANTS
    Reviewers = {r1}
    Analyzer = Analyzer
    None = None
    MaxVersions = 1
    MaxSessions = 3
    MaxGen = 1
    MaxFaults = 0
INVARIANTS ReopenUnlocks
