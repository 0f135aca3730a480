SPECIFICATION Spec
CONSTANTS
    Clients = {c1, c2}
    Keys = {k1, k2}
    Projects = {p1, p2}
    Ids = {i1, i2}
    WriteKinds = {"edit", "start_render"}
    MaxItems = 1
    InitialItems = {0}
    None = None
    Dead = Dead
SYMMETRY Symmetry
INVARIANTS
    TypeOK
    NoSecondEffect
    ReceiptsTellTheTruth
    SinglePending
PROPERTIES
    WriteAhead
    SlotDiscipline
CHECK_DEADLOCK FALSE
