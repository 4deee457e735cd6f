SPECIFICATION FairSpec
CONSTANTS
    User = {u1, u2}
    Registered = {u1, u2}
    MaxFaults = 2
    MaxAnnounces = 1
    None = None
INVARIANTS ActsForItsUser ReachableIsReached NotedIsLoggedIn
ACTION_CONSTRAINT SecondOnRequest
PROPERTY CommandReturns
CHECK_DEADLOCK FALSE
