SPECIFICATION Spec
CONSTANTS
    Ids = {i1, i2}
    Keys = {k1}
    Kinds = {"edit"}
    Earlier = {}
    None = None
INVARIANT
    RepeatNeverDuplicates
CHECK_DEADLOCK FALSE
