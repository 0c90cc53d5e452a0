SPECIFICATION Spec
CONSTANTS
    None = None  s1 = s1  s2 = s2  p1 = p1  p2 = p2  w1 = w1
    Subs = {s1, s2}
    Plans = {p1, p2}
    Workers = {w1}
    Races = {"stale_created"}
    MaxRequests = 3
    MaxFailures = 1
    MaxRedeliveries = 1
INVARIANT MirrorConverges
SYMMETRY Symm
CHECK_DEADLOCK FALSE
