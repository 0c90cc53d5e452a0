SPECIFICATION FairSpec
CONSTANTS
    p1 = p1  d1 = d1  d2 = d2
    Deployments = {p1, d1}
    Production = {p1}
    Recorded = {d1}
    Limits = {1}
    MaxRenewals = 1
    Resent = {d1}
PROPERTIES BuildKeepsSlot LeaseRunsOut EverySlotIsReturned EveryWaitEnds
CHECK_DEADLOCK FALSE
