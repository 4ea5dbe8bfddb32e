SPECIFICATION FairSpec
CONSTANTS
    m1 = m1  m2 = m2  d1 = d1  w1 = w1  w2 = w2
    None = None
    Messages = {m1}
    Runs = {d1}
    Writers = {w1, w2}
    Batch = 2
    MaxSeq = 3
    MaxDrops = 1
INVARIANTS
    TypeOK
    NothingMissed
    NoMissedWake
PROPERTIES
    Converges
CHECK_DEADLOCK FALSE
