SPECIFICATION MCSpec
CONSTANTS
    Archives = {a1, a2}
    Texts = {1, 2}
    NoText = 0
    MaxTime = 3
    MaxRevisions = 4
    HashBefore <- MCHashBefore
SYMMETRY ArchiveSymmetry
INVARIANTS
    TypeOK
    RowIsRecorded
    HistoryIsClosed
PROPERTIES
    ResurrectionIsCausal
    MergeKeepsNewerEdit
    DeletionYieldsOnlyToLater
CHECK_DEADLOCK FALSE
