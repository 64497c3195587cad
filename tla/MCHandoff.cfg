\* Two people and one worker, with failures of every store and crashes.
SPECIFICATION HandoffSpec
CONSTANTS
    u1 = u1
    u2 = u2
    c1 = c1
    w1 = w1
    w2 = w2
    e1 = e1
    s1 = s1
    s2 = s2
    NoUser = NoUser
    NoSeat = NoSeat
    Users = {u1, u2}
    Clients = {}
    Workers = {w1}
    Threads = {w1}
    Events = {e1}
    Seats = {s1}
    EventOf <- OneSeat
    Leftover = 1
    MaxID = 2
    HoldTTL = 1
    MaxTime = 2
    StoreMayFail = TRUE
    MayCrash = TRUE
    Buffer = 1
    EntryIDs = {1, 2}
    EarlyWaiters = {u1, u2}
    SkipLocked = TRUE
    QueueMayFail = TRUE
    MayStop = TRUE
CHECK_DEADLOCK FALSE
SYMMETRY UserSymmetry
INVARIANTS
    HandoffTypeOK
    QueueInOrder
    NobodyLost
