SPECIFICATION FairSpec
CONSTANTS
    e1 = e1
    e2 = e2
    f1 = f1
    f2 = f2
    Events = {e1, e2}
    Files = {f1, f2}
    FilesOf <- OneFileEach
    Inputs <- AnyThenControl
    MaxDeliveries = 3
    MaxFaults = 1
    MaxCrashes = 1
CHECK_DEADLOCK FALSE
INVARIANT OncePerEvent
INVARIANT RowsCanBeTrusted
INVARIANT FilesAreThere
PROPERTY IngressSettles
