\* A claim that looked the event up before it was withdrawn.
SPECIFICATION Spec
CONSTANTS
    u1 = u1
    u2 = u2
    t1 = t1
    t2 = t2
    e1 = e1
    s1 = s1
    s2 = s2
    NoUser = NoUser
    NoSeat = NoSeat
    Users = {u1, u2}
    Threads = {t1, t2}
    Events = {e1}
    Seats = {s1}
    EventOf <- OneSeat
    HoldTTL = 2
    Leftover = 0
    MaxID = 3
    MaxTime = 3
    StoreMayFail = FALSE
    MayCrash = FALSE
SYMMETRY Symmetry
CHECK_DEADLOCK FALSE
PROPERTY NoClaimAfterCancel
