SPECIFICATION SteadySpec
CONSTANTS
    User = {1, 2}
    Group = {g1}
    File = {f1}
    Password = {pw1}
    Content = {k1}
    Addr = {a1}
    Piece = {0}
    Nil = Nil
    Worker = {w1}
    Active = {0}
    RequestType = {"CREATE_USER", "CREATE_GROUP", "JOIN_GROUP", "LEAVE_GROUP",
        "ACCEPT_REQUEST", "UPLOAD_FILE", "STOP_SHARE", "HAVE_PIECES"}
    MaxOps = 5
    MaxLinks = 1
    MaxRestarts = 0
PROPERTIES ImplementsAsyncReplica EventuallySynchronized
CHECK_DEADLOCK FALSE
