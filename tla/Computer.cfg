SPECIFICATION Spec
CONSTANTS
    a1 = a1  z1 = z1  x1 = x1  o1 = o1  k1 = k1  k2 = k2
    NoBox = NoBox
    Runners = {a1}
    Sleepers = {z1}
    Resetters = {x1}
    Openers = {o1}
    Boxes = {k1, k2}
    Slow = {o1}
    MaxStamp = 4
SYMMETRY MCComputerSymmetry
INVARIANTS
    TypeOK
    OneBoot
    NoStrayBox
PROPERTIES
    WinnerSurvives
CHECK_DEADLOCK FALSE
