SPECIFICATION Spec
CONSTANTS
    w1 = w1  w2 = w2  send = send  note = note
    Calls = {send, note}
    Consequential = {send}
    Workers = {w1, w2}
    None = None
    MaxDone = 2
    MaxOthers = 0
SYMMETRY MCSymmetry
INVARIANTS
    TypeOK
    AtMostOnce
    DeniedIsNotDone
CHECK_DEADLOCK FALSE
