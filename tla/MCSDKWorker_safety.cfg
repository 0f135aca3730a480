SPECIFICATION Spec
CONSTANTS
    Ids = {i1, i2}
    Keys = {k1, k2}
    Arguments = {a1, a2}
    Creations = {a1}
    None = None
SYMMETRY Symmetry
INVARIANTS
    TypeOK
    MutatedOncePerKey
    CompletedRouteIsTrue
PROPERTIES
    MutationUnderOpenRoute
    DoubtIsKept
CHECK_DEADLOCK FALSE
