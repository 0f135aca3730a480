SPECIFICATION LiveSpec
CONSTANTS
    Clients = {c1}
    Keys = {k1, k2}
    Projects = {p1}
    Ids = {i1, i2}
    WriteKinds = {"edit", "quit_resolve"}
    MaxItems = 1
    InitialItems = {0}
    None = None
    Dead = Dead
PROPERTIES
    RefinesOnceWrites
    RequestsReturn
CHECK_DEADLOCK FALSE
