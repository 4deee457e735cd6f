SPECIFICATION Spec
CONSTANTS
    User = {1}
    Group = {g1}
    File = {f1}
    Password = {pw1}
    Content = {k1}
    Addr = {a1}
    Piece = {0}
    Nil = Nil
    Worker = {w1}
    Active = {0, 1}
    RequestType = {"CREATE_USER", "CREATE_GROUP"}
    MaxOps = 2
    MaxLinks = 2
    MaxRestarts = 1
CONSTRAINT OneInUse
INVARIANTS TypeOK BothConsistent OnePeerLink LogIsSuffix AckSound
CHECK_DEADLOCK FALSE
