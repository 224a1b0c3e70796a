\* Two analyses side by side, and one thread for both.
SPECIFICATION FairSpec
CONSTANTS
    Jobs = {j1, j2}
    Nobody = Nobody
    Threads = 1
    Asked = {{"ai"}, {"local", "ai"}}
INVARIANTS TypeOK AuditInTurn NothingOutlives TracksTellTruth NoMaskedFailure
PROPERTIES EveryoneEnds
