SPECIFICATION SessionsSpec
CONSTANTS
    u1 = u1  k1 = k1  r1 = r1  r2 = r2
    Users <- MCUsers
    NoUser = NoUser
    Tokens <- MCTokens
    NoToken = NoToken
    Requests <- MCRequests
    Address = Address
    TokenTTL = 1
    Burst = 1
    Every = 2
    RateLimitTTL = 1
    MaxLag = 1
    StoreMayFail = TRUE
SYMMETRY MCSymmetry
INVARIANTS SessionsTypeOK SignedOutStaysOut RateHolds AdminsOnly
