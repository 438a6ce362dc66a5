SPECIFICATION FairSpec
CONSTANTS
    t1 = t1
    NumAttempts = 2
    GoalAttempts = {}
    ThreadOf <- MCThreadOf
    Calls = {c1}
    ActionSlots = 1
    MaxPending = 1
    ItemsPerTurn = 1
    MaxContinuations = 0
    MaxDisturbances <- OneDisturbance
CHECK_DEADLOCK FALSE
INVARIANT ResultsAreOwn
INVARIANT NothingRunsOn
PROPERTY CallersReturn
PROPERTY HandlersEnd
