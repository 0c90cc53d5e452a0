SPECIFICATION Spec
CONSTANTS
    None = None  s1 = s1  s2 = s2  p1 = p1  p2 = p2  w1 = w1
    Subs = {s1, s2}
    Plans = {p1, p2}
    Workers = {w1}
    Races = {}
    MaxRequests = 3
    MaxFailures = 2
    MaxRedeliveries = 1
INVARIANTS TypeOK OneLiveMinted EntitlementEnds MirrorConverges LimitsConverge NoSilentOrphan ComputeIsBilled
SYMMETRY Symm
CHECK_DEADLOCK FALSE
