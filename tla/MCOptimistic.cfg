\* Two requests that race for one seat without locks.
SPECIFICATION OptimisticSpec
CONSTANTS
    u1 = u1
    u2 = u2
    t1 = t1
    t2 = t2
    e1 = e1
    s1 = s1
    NoUser = NoUser
    NoSeat = NoSeat
    Users = {u1, u2}
    Threads = {t1, t2}
    Events = {e1}
    Seats = {s1}
    EventOf <- OneSeat
    HoldTTL = 1
    Leftover = 1
    MaxID = 3
    MaxTime = 1
    StoreMayFail = TRUE
    MayCrash = TRUE
    Attempts = 3
CHECK_DEADLOCK FALSE
SYMMETRY Symmetry
INVARIANTS
    OptimisticTypeOK
    ByHoldLosesOnce
PROPERTIES
    ImplementsReservation
