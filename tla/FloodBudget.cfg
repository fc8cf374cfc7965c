SPECIFICATION Spec
CONSTANTS
    MaxRetries = 3
    MaxDelay = 300
    SafetyDelay = 1
    LookupTime = 45
    DownloadTime = 180
    Latencies = {0, 1, 44, 200}
    Delays = {1, 300, 301}
    MaxChunks = 2
INVARIANTS
    BudgetIsEnough
CHECK_DEADLOCK FALSE
