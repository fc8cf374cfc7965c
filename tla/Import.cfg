SPECIFICATION Spec
CONSTANTS
    Command = {c1, c2}
    Account = {x, y}
    Unknown = Unknown
    Message = {m1}
    Path = {p1}
    BackupPath = BackupPath
    NoPath = NoPath
    NoMedia = NoMedia
    Broken = Broken
    Gone = Gone
    NoRow = NoRow
    Unseen = Unseen
    MaxLosses = 1
    MaxPulls = 1
INVARIANTS
    TypeOK
    OneAccount
    FilesAreThere
    MediaBelongs
PROPERTY
    KeepsMedia
SYMMETRY Symmetry
CHECK_DEADLOCK FALSE
