SPECIFICATION AccountsSpec
CONSTANTS
    u1 = u1  u2 = u2  a1 = a1  l1 = l1  l2 = l2  r1 = r1  r2 = r2  s1 = s1  s2 = s2
    Users <- MCUsers
    NoUser = NoUser
    Addresses <- MCAddresses
    Links <- MCLinks
    NoLink = NoLink
    Requests <- MCRequests
    Senders <- MCSenders
    VerificationTTL = 1
    Batch = 2
    Faults = TRUE
SYMMETRY MCSymmetry
INVARIANTS AccountsTypeOK LinkSpentOnce VerifiedByLink MailedOnce SentOrInHand
PROPERTY NothingUndone
