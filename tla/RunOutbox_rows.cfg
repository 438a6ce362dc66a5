SPECIFICATION FairSpec
CONSTANTS
    PromptRuns = {p1}
    ScriptRuns = {s1}
    MaxScripts = 1
    MaxCrashes = 2
    MaxDbFaults = 1
    MaxRevokes = 1
CHECK_DEADLOCK FALSE
INVARIANT OneVisibleResult
INVARIANT OutboxIsTruthful
INVARIANT NeverReplayed
PROPERTY LedgerSpec
PROPERTY RunsSettle
