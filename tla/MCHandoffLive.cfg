\* The workers keep running and a client races them.
SPECIFICATION OfferSpec
CONSTANTS
    u1 = u1
    u2 = u2
    c1 = c1
    w1 = w1
    w2 = w2
    e1 = e1
    s1 = s1
    s2 = s2
    NoUser = NoUser
    NoSeat = NoSeat
    Users = {u1, u2}
    Clients = {c1}
    Workers = {w1}
    Threads = {c1, w1}
    Events = {e1}
    Seats = {s1}
    EventOf <- OneSeat
    Leftover = 1
    MaxID = 3
    HoldTTL = 1
    MaxTime = 1
    StoreMayFail = FALSE
    MayCrash = FALSE
    Buffer = 1
    EntryIDs = {1, 2}
    EarlyWaiters = {u1}
    SkipLocked = TRUE
    QueueMayFail = FALSE
    MayStop = FALSE
CHECK_DEADLOCK FALSE
PROPERTY OfferIsUsed
