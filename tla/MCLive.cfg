\* Two publishers race over one watcher after another.
SPECIFICATION LiveFairSpec
CONSTANTS
    p1 = p1  p2 = p2  s1 = s1  s2 = s2  w1 = w1  o1 = o1
    Publishers = {p1, p2}
    Streams = {s1, s2}
    NoStream = NoStream
    Everyone = Everyone
    Viewer = Viewer
    Addressees = {Everyone, o1}
    Workers = {w1}
    SubscriberBuffer = 1
    MaxChanges = 2
    MaxLoads = 1
    MaxFaults = 1
INVARIANTS LiveTypeOK BrokerNeverPanics DropsAreCounted CleanEndIsClean
PROPERTIES PageCatchesUp StreamComesBack
