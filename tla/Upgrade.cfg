SPECIFICATION FairSpec
CONSTANTS
    Process = {p1, p2}
    Message = {m1, m2}
    NoMessage = NoMessage
    Gone = {m2}
    NoRow = NoRow
    NoId = NoId
    SchemaVersion = 5
    OldVersions = {2}
    MaxFaults = 1
    MaxRows = 3
INVARIANTS
    TypeOK
    CurrentIsComplete
    OldBackupIsRecognised
PROPERTIES
    ImplementsUpgrade
    OpensInTheEnd
