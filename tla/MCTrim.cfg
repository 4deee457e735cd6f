SPECIFICATION Spec
CONSTANTS
    User = {1, 2, 3}
    Group = {g1}
    File = {f1}
    Password = {pw1}
    Content = {k1}
    Addr = {a1}
    Piece = {0}
    Nil = Nil
    Worker = {w1}
    Active = {0}
    RequestType = {"CREATE_USER"}
    MaxOps = 3
    MaxLinks = 2
    MaxRestarts = 0
INVARIANTS NothingLost
CHECK_DEADLOCK FALSE
