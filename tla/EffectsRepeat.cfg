SPECIFICATION ObservedSpec
CONSTANTS
    w1 = w1  note = note
    Calls = {note}
    Consequential = {}
    Workers = {w1}
    None = None
    MaxDone = 2
    MaxOthers = 0
INVARIANT NeverRepeatsAlone
CHECK_DEADLOCK FALSE
