\* A page of two tiles with up to two regions of two pieces.
SPECIFICATION FairSpec
CONSTANTS
    Workers = {w1, w2}
    Views = {upright, turned}
    Tiles = 2
    Regions = 2
    Pieces = 2
    MaxTurns = 2
    MaxInterrupts = 2
INVARIANTS TypeOK AnswersSaved RightfullyGivenUp StatusTruth
PROPERTIES NothingUndone ReadInTheEnd
