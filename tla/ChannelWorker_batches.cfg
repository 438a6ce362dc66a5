SPECIFICATION Spec
CONSTANTS
    m1 = m1
    m2 = m2
    m3 = m3
    alice = alice
    bob = bob
    Messages = {m1, m2, m3}
    Goals = {}
    Scheduled = {m2}
    Attached = {}
    Actor <- MCActor
    Controls = {}
    Quit = quit
    Workers = {w1, w2}
    NoWorker = NoWorker
    QueueDepth = 2
    MaxShutdowns = 0
    MaxTimeouts = 1
    MaxRecycles = 1
    MaxFaults = 1
    MaxDisturbances = 9
SYMMETRY WorkerSymmetry
CHECK_DEADLOCK FALSE
INVARIANT OneTurnAtATime
INVARIANT BatchesKeepOrder
