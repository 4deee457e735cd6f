SPECIFICATION PiecesSpec
CONSTANTS
    PIECE_SIZE = 3
    MaxSize = 27
    Thread = {t1, t2, t3}
    SlotCount = 4
    Count = 3
    MaxFailures = 3
    MaxRivals = 1
    MaxTimeouts = 2
    MaxTorn = 1
    MaxReshares = 1
    MaxBadWrites = 3
    MayDie = TRUE
    None = None
INVARIANTS BitmapExact PiecesCover
    OwnSlot HandsBackAll
    RetiredForCause
PROPERTIES PoolEnds AllPiecesFetched
CHECK_DEADLOCK FALSE
