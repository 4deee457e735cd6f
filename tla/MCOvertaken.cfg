SPECIFICATION SettledSpec
CONSTANTS
    User = {1, 2}
    Group = {g1}
    File = {f1}
    Password = {pw1}
    Content = {k1}
    Addr = {a1}
    Piece = {0}
    Nil = Nil
    Worker = {w1}
    Active = {1}
    RequestType = {"CREATE_USER", "CREATE_GROUP"}
    MaxOps = 3
    MaxLinks = 2
    MaxRestarts = 0
INVARIANT AgreeAtRest
CHECK_DEADLOCK FALSE
