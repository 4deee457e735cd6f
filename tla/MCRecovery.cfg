SPECIFICATION RecoverySpec
CONSTANTS
    User = {1, 2}
    Group = {g1}
    File = {f1}
    Password = {pw1}
    Content = {k1}
    Addr = {a1}
    Piece = {0}
    Nil = Nil
    Worker = {w1}
    Active = {}
    RequestType = {"CREATE_USER"}
    MaxOps = 2
    MaxLinks = 5
    MaxRestarts = 0
PROPERTIES EventuallyRecovered
CHECK_DEADLOCK FALSE
