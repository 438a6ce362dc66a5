SPECIFICATION FairSpec
CONSTANTS
    t1 = t1
    NumAttempts = 2
    GoalAttempts = {1, 2}
    ThreadOf <- MCThreadOf
    Calls = {}
    ActionSlots = 1
    MaxPending = 1
    ItemsPerTurn = 0
    MaxContinuations = 1
    MaxDisturbances <- ThreeThenOne
CHECK_DEADLOCK FALSE
INVARIANT SuccessIsReal
INVARIANT NoOrphanGoal
PROPERTY CallersReturn
