SPECIFICATION IdempotencySpec
CONSTANTS
    k1 = k1  r1 = r1  r2 = r2  r3 = r3  a = a  b = b
    Keys <- MCKeys
    Requests <- MCRequests
    NoRequest = NoRequest
    Ops <- MCOps
    NoOp = NoOp
    TTL = 2
    MaxLag = 1
    Faults = TRUE
SYMMETRY MCSymmetry
INVARIANTS IdempotencyTypeOK DoneOnce ReplaysTheFirstAnswer
PROPERTY AnswerStands
