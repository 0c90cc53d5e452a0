SPECIFICATION Spec
CONSTANTS
    r1 = r1  n1 = n1  n2 = n2  g1 = g1  g2 = g2  g3 = g3  c1 = c1  c2 = c2  w1 = w1
    Regions = {r1}
    Nodes = {n1, n2}
    RegionOf <- OneRegion
    Cells = {c1, c2}
    Calls = {g1, g2, g3}
    Singles <- OneOrTwo
    Batches <- FailingBatch
    Carry = {0}
    MaxCASRetries = 2
    BufferCap = 1
    Workers = {w1}
    MaxRestarts = 0
PROPERTY NoFalseAllow
SYMMETRY Symm
CHECK_DEADLOCK FALSE
