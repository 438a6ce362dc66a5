SPECIFICATION Spec
CONSTANTS
    m1 = m1
    m2 = m2
    m3 = m3
    alice = alice
    bob = bob
    Messages = {m1, m2}
    Goals = {}
    Scheduled = {}
    Attached = {}
    Actor <- MCActor2
    Controls = {c1}
    Quit = quit
    Workers = {w1, w2}
    NoWorker = NoWorker
    QueueDepth = 2
    MaxShutdowns = 0
    MaxTimeouts = 0
    MaxRecycles = 1
    MaxFaults = 0
    MaxDisturbances = 9
INVARIANT NoTurnDuringControl
SYMMETRY WorkerSymmetry
CHECK_DEADLOCK FALSE
