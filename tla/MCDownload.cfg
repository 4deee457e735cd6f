SPECIFICATION FairSpec
CONSTANTS
    Job <- TwoJobs
    Piece = {p1, p2}
    Peer = {a, b}
    Honest = {}
    TargetConnections = 2
    MaxFailures = 2
    MaxRounds = 2
    DiskWorks = {TRUE, FALSE}
    TrackerAnswers = {TRUE}
    MaxCrashes = 1
    None = None
INVARIANTS TypeOK MarkedIsWhole EachPieceOnce SharedIsWhole ListedIsOnDisk
PROPERTIES DoneIsAnnounced KeepsItsProgress JobEnds
CHECK_DEADLOCK FALSE
