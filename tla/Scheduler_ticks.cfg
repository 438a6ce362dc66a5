SPECIFICATION FairSpec
CONSTANTS
    PromptTasks = {p1, p2}
    ScriptTasks = {s1}
    NoTask = NoTask
    Crons = {EvenTicks}
    NextSlot <- MCNextSlot
    RunIds = {r1, r2, r3}
    Grace = 0
    ScanLimit = 2
    MaxPromptDispatch = 1
    MaxScripts = 1
    MaxEnabledTasks = 2
    MaxTime = 3
    Outcomes = {"succeeded"}
    MaxVersion = 2
    MaxToggles = 1
    MaxFaults = 1
INVARIANT SlotsUnique
INVARIANT NoOrphanRun
PROPERTY LedgerSpec
PROPERTY RunsSettle
PROPERTY DueSlotsHandled
