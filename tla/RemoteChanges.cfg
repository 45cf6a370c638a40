SPECIFICATION Spec
CONSTANTS
    Machines = {m1, m2}
    Rest = {r1}
    Configs = {k1, k2}
    Values = {v1, v2}
    Plans = {p1, p2}
    Calls = {c1, c2}
    None = None
    MaxEdits = 1
    MaxSwitches = 1
    MaxLosses = 1
SYMMETRY Symmetry
INVARIANTS
    ErrorsAreExplained AppliedOnce RestoresReviewed
PROPERTY
    ReplacesItsFinding
CHECK_DEADLOCK FALSE
