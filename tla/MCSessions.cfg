SPECIFICATION Spec
CONSTANTS
    User = {1, 2, 3}
    Group = {g1}
    File = {f1}
    Password = {pw1}
    Content = {k1}
    Addr = {a1}
    Piece = {0}
    Nil = Nil
    Connection = {c1, c2}
SYMMETRY Symmetry
INVARIANTS TypeOK StateConsistent
PROPERTIES AdmittedByOwner EvictedWhenOffline
