\* Requests on two seats while the administrator edits the catalogue.
SPECIFICATION DeletionFairSpec
CONSTANTS
    u1 = u1
    t1 = t1
    t2 = t2
    e1 = e1
    s1 = s1
    s2 = s2
    NoUser = NoUser
    NoSeat = NoSeat
    NoEvent = NoEvent
    Users = {u1}
    Threads = {t1}
    Events = {e1}
    Seats = {s1, s2}
    EventOf <- TwoSeats
    HoldTTL = 1
    Leftover = 1
    MaxID = 3
    MaxTime = 2
    StoreMayFail = TRUE
    MayCrash = TRUE
    ForeignKeys = TRUE
CHECK_DEADLOCK FALSE
INVARIANTS
    SeatsHaveEvents
    SeatsWellFormed
PROPERTIES
    HoldsEnd
    OnlyDeletionTakesAway
