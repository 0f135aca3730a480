SPECIFICATION Spec
CONSTANTS
    Ids = {i1}
    Keys = {k1}
    Arguments = {a1}
    Creations = {}
    None = None
INVARIANT
    UnboundDoesNotPoison
CHECK_DEADLOCK FALSE
