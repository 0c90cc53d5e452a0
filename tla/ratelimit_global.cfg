SPECIFICATION GlobalSpec
CONSTANTS
    ra = ra  rb = rb  n1 = n1  n2 = n2  n3 = n3  g1 = g1  g2 = g2  c1 = c1  c2 = c2  w1 = w1
    Regions = {ra, rb}
    Nodes = {n1, n2, n3}
    RegionOf <- MCRegionOf
    Cells = {c1}
    Calls = {g1, g2}
    Singles <- MCSingles
    Batches <- NoBatches
    Carry = {0}
    MaxCASRetries = 2
    BufferCap = 0
    Workers = {}
    MaxRestarts = 0
    ChunkSize = 1
INVARIANTS NoPhantomCount RowsBackedByAdmissions LastPushedIsPublished NoFeedback
SYMMETRY Symm
VIEW View
CHECK_DEADLOCK FALSE
