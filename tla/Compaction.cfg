SPECIFICATION Spec
CONSTANTS
    r1 = r1  r2 = r2  c1 = c1  c2 = c2
    Runs = {r1}
    Compactors = {c1, c2}
    None = None
    Window = 1
    BatchSize = 1
    Recent = 1
    MaxSeq = 3
    MaxGen = 1
SYMMETRY MCSymmetry
INVARIANTS
    TypeOK
    SummaryIsWhole
    ContextHasNoGap
    SummaryForgets
CHECK_DEADLOCK FALSE
