SPECIFICATION FairSpec
CONSTANTS
    c1 = c1
    c2 = c2
    c3 = c3
    Requests <- MixedRequests
    MaxDeliveries = 3
    Quota = 2
    MaxDisturbances = 1
CHECK_DEADLOCK FALSE
INVARIANT TablesAreTrue
INVARIANT UpdatesSerialize
PROPERTY LedgerSpec
PROPERTY DeliveriesEnd
