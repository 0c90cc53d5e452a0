SPECIFICATION GlobalSpec
CONSTANTS
    ra = ra  rb = rb  n1 = n1  n2 = n2  n3 = n3  g1 = g1  g2 = g2  c1 = c1  c2 = c2  w1 = w1
    Regions = {ra, rb}
    Nodes = {n1}
    RegionOf <- MCRegionOf
    Cells = {c1, c2}
    Calls = {g1, g2}
    Singles <- MCSingles
    Batches <- OneBatch
    Carry = {0}
    MaxCASRetries = 2
    BufferCap = 1
    Workers = {}
    MaxRestarts = 0
    ChunkSize = 1
INVARIANT RowsBackedByAdmissions
CHECK_DEADLOCK FALSE
