SPECIFICATION ReplaySpec
CONSTANTS
    User = {1, 2, 3}
    Group = {g1}
    File = {f1}
    Password = {pw1}
    Content = {k1, k2}
    Addr = {a1}
    Piece = {0}
    Nil = Nil
    Connection = {c1}
INVARIANTS ReplayAgrees ReplayAccepted
PROPERTIES ContentStable
