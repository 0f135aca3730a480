SPECIFICATION Spec
CONSTANTS
    Clients = {c1}
    Keys = {k1}
    Projects = {p1}
    Ids = {i1}
    WriteKinds = {"edit"}
    MaxItems = 1
    InitialItems = {1}
    None = None
    Dead = Dead
INVARIANT
    PartialEditStaysPending
CHECK_DEADLOCK FALSE
