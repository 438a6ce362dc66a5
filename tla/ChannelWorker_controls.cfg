SPECIFICATION FairSpec
CONSTANTS
    m1 = m1
    m2 = m2
    m3 = m3
    alice = alice
    bob = bob
    Messages = {m1, m2}
    Goals = {m2}
    Scheduled = {}
    Attached = {}
    Actor <- MCActor2
    Controls = {c1}
    Quit = quit
    Workers = {w1, w2}
    NoWorker = NoWorker
    QueueDepth = 1
    MaxShutdowns = 0
    MaxTimeouts = 1
    MaxRecycles = 1
    MaxFaults = 1
    MaxDisturbances = 2
CHECK_DEADLOCK FALSE
INVARIANT ControlsCutCleanly
INVARIANT NoLostWakeup
PROPERTY MessagesSettle
PROPERTY ControlsTakeEffect
