SPECIFICATION Spec
CONSTANTS
    r1 = r1  n1 = n1  n2 = n2  g1 = g1  g2 = g2  w1 = w1
    Regions = {r1}
    Nodes = {n1}
    RegionOf <- OneRegion
    Calls = {g1, g2}
    Costs = {1, 2}
    Initial = 2
    Settings <- SetUnlimited
    MaxUpdates = 1
    Capacity = 1
    Workers = {w1}
PROPERTY UnlimitedStays
CHECK_DEADLOCK FALSE
