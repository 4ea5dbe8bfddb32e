SPECIFICATION Spec
CONSTANTS
    r1 = r1  r2 = r2  j1 = j1  j2 = j2  j3 = j3
    w1 = w1  w2 = w2  w3 = w3  b1 = b1  b2 = b2  t1 = t1  k1 = k1
    NoOwner = NoOwner  NoRun = NoRun  NoBot = NoBot  NoCheckpoint = NoCheckpoint
    Runs = {r1}
    Jobs = {j1, j2}
    Owners = {j1, j2}
    OwnerOf <- MCOwnSelf
    Checkpoints = {"takeover"}
    Parent <- MCNoParent
    Bots = {b1, b2}  BotOf <- MCBotOf  BotLimit <- MCBotLimit
    Threads = {t1}  ThreadOf <- MCThreadOf  ThreadLimit <- MCThreadLimit
    Computers = {k1}  ComputerOf <- MCComputerOf
    Attended = {b1, b2}  Briefed = {}
    MaxFence = 2
    MaxRetries = 0
SYMMETRY MCJobSymmetry
INVARIANTS
    TypeOK
    HolderMadeLatestClaim
    StopHoldsAtClaim
    LeaseMatchesStatus
    ReleaseIsNotLost
    OneReply
PROPERTIES
    KeepsPromise
