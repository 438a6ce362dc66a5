SPECIFICATION FairSpec
CONSTANTS
    m1 = m1
    m2 = m2
    m3 = m3
    alice = alice
    bob = bob
    Messages = {m1, m2}
    Goals = {}
    Scheduled = {}
    Attached = {}
    Actor <- MCActor2
    Controls = {}
    Quit = quit
    Workers = {w1, w2}
    NoWorker = NoWorker
    QueueDepth = 2
    MaxShutdowns = 1
    MaxTimeouts = 1
    MaxRecycles = 0
    MaxFaults = 0
    MaxDisturbances = 9
CHECK_DEADLOCK FALSE
INVARIANT OnePlace
PROPERTY ShutdownEnds
