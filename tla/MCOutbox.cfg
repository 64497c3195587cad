\* Two workers over the deliveries of one notice, with every failure.
SPECIFICATION OutboxFairSpec
CONSTANTS
    u1 = u1
    u2 = u2
    n1 = n1
    p1 = p1
    p2 = p2
    w1 = w1
    w2 = w2
    NoUser = NoUser
    Users = {u1}
    Notices = {n1}
    Recipient <- OneRecipient
    Deployments = {{"email"}, {"push"}}
    Endpoints = {p1}
    Workers = {w1, w2}
    MaxDeliveryAttempts = 2
    DeliveryLease = 1
    BaseRetryDelay = 1
    Batch = 2
    MaxLag = 1
    MaxCrashes = 1
    StoreMayFail = TRUE
CHECK_DEADLOCK FALSE
INVARIANTS
    OutboxTypeOK
PROPERTIES
    KeepsPromise
    Drains
