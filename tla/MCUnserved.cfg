SPECIFICATION Spec
CONSTANTS
    Job <- OneJob
    Piece = {p1, p2}
    Peer = {a, b}
    Honest = {}
    TargetConnections = 2
    MaxFailures = 2
    MaxRounds = 2
    DiskWorks = {TRUE}
    TrackerAnswers = {TRUE}
    MaxCrashes = 0
    None = None
INVARIANT AnnouncedIsServed
CHECK_DEADLOCK FALSE
