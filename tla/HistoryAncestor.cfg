SPECIFICATION MCSpec
CONSTANTS
    Archives = {a1, a2}
    Texts = {1}
    NoText = 0
    MaxTime = 3
    MaxRevisions = 4
    HashBefore <- MCHashBefore
SYMMETRY ArchiveSymmetry
INVARIANTS
    AncestorDeletionStaysUndone
CHECK_DEADLOCK FALSE
