SPECIFICATION Spec
CONSTANTS
    MaxPages = 2
    MaxFrames = 3
    MaxCommits = 2
    MaxLogs = 2
    Attempts = 2
INVARIANTS
    TypeOK
    SnapshotIsCommitted
CHECK_DEADLOCK FALSE
