SPECIFICATION Spec
CONSTANTS
    r1 = r1  s1 = s1
    Runs = {r1}
    Sources = {s1}
    None = None
    MaxSeq = 2
    MaxGen = 1
    MaxTries = 1
INVARIANT BriefCovers
CHECK_DEADLOCK FALSE
