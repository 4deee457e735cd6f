SPECIFICATION Spec
CONSTANTS
    Worker = {w1, w2}
    None = None
    Active = {0, 1}
    Capacity = 1
    Backlog = 4
    MaxOps = 4
    Uploader = {u1, u2}
    MaxPayload = 4
    Length = {1, 4}
    Extra = 1
    MaxUploads = 2
    MaxFaults = 2
    Client = {c1, c2}
    Link = {l1, l2}
    Pusher = {w1}
INVARIANTS NothingForgotten ClientsUndisturbed OutIsLink
PROPERTIES StandstillIsMutual CaughtUp
CHECK_DEADLOCK FALSE
