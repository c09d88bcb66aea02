SPECIFICATION Spec
CONSTANTS
    TaskId = {t1, t2, t3}
    None = None
    c1 = c1  b1 = b1  b2 = b2  d1 = d1  e1 = e1
    KeysOf <- FamilyKeys
    MaxVersion = 8
    MaxItems = 2
SYMMETRY Symmetry
INVARIANTS
    TypeOK
    IndexComplete
    TreeIntact
    DepsIntact
    DoneByChildren
    ProgressAgrees
    CompletedIffDone
PROPERTIES
    LegalMoves
    VersionGuardsContent
CHECK_DEADLOCK FALSE
