SPECIFICATION Spec
CONSTANTS
    m1 = m1
    m2 = m2
    a = a
    b = b
    Items = {a, b}
    Targets = {m1, m2}
    TargetOf <- TwoModels
    Templates = {t1, t2}
    Digests = {d1, d2}
    Slots = {s1, s2}
    Plans = {p1, p2}
    Requests = {q1, q2}
    None = None
    MaxEntries = 1
    MaxRecords = 2
    MaxEvents = 1
SYMMETRY Symmetric
INVARIANTS RegistrationSound ActsOnRegisteredAdapter
PROPERTIES RegisteredStays
CHECK_DEADLOCK FALSE
