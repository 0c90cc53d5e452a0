SPECIFICATION Spec
CONSTANTS
    p1 = p1  d1 = d1  d2 = d2
    Deployments = {p1, d1, d2}
    Production = {p1}
    Recorded = {d1, d2}
    Limits = {1, 2}
    MaxRenewals = 0
    Resent = {}
INVARIANTS TypeOK TrackedHasTimer NoIdleSlot
PROPERTIES GrantsRespectLimit PromotionOrder ImplementsGate
SYMMETRY Symm
VIEW View
CHECK_DEADLOCK FALSE
