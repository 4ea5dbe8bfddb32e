SPECIFICATION FairSpec
CONSTANTS
    s1 = s1  s2 = s2  s3 = s3  s4 = s4  s5 = s5  p1 = p1
    NoRun = NoRun
    Runs = {s1, s2, s3, p1}
    Peers = {p1}
    MaxMsgs = 3
    Channel = {2}
INVARIANTS
    TypeOK
    AnsweredOnce
    NobodyWaitsAlone
PROPERTIES
    FollowUpSettles
    EventuallySettled
CHECK_DEADLOCK FALSE
