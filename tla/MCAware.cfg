SPECIFICATION Spec
CONSTANTS
    Users = {x}
    Groups = {g}
    NoGroup = NoGroup
    Keys = {k}
    Lists = {l1, l2}
    MaxCalls = 4
    MaxChanges = 1
    MaxFaults = 1
INVARIANTS
    AwareConsistent
    StatusCurrent
SYMMETRY ListSymmetry
CHECK_DEADLOCK FALSE
