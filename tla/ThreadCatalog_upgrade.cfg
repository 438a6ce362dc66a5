SPECIFICATION Spec
CONSTANTS
    Threads = {t1, t2, t3, t4, t5}
    NoThread = NoThread
    Goals = TRUE
    MaxTurns = 4
    MaxNews = 2
    MaxFaults = 2
    MaxDeploys = 1
SYMMETRY ThreadSymmetry
CHECK_DEADLOCK FALSE
INVARIANT NoObsoleteTurn
INVARIANT NoThreadLeak
INVARIANT UndisturbedTurnsStart
