SPECIFICATION FairSpec
CONSTANTS
    None = None  w1 = w1  w2 = w2
    Invoices = {"subscribe", "renewal", "downgrade"}
    Lines <- MCLines
    Grace = 1
    Workers = {w1, w2}
    MaxTime = 1
    MaxFailures = 2
    MaxRedeliveries = 1
INVARIANTS GrantOnce AllowanceIsPaid
PROPERTIES ImplementsLedger CreditArrives
CHECK_DEADLOCK FALSE
