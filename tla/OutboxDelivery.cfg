\* One job with up to two decisions, two dispatchers and a connection to spare.
SPECIFICATION FairSpec
CONSTANTS
    Jobs = {j1}
    Dispatchers = {d1, d2}
    Pool = 3
    MaxRevision = 2
    MaxFaults = 2
INVARIANTS TypeOK GateClosed Awaited
PROPERTIES KeepsGate Delivered
