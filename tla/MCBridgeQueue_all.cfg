\* Two commands of any kind, after a session that prepared a render job.
SPECIFICATION LiveSpec
CONSTANTS
    Ids = {i1, i2, i3}
    Keys = {k1, k2}
    Kinds = {"read", "stop", "create", "edit", "prepare", "start"}
    Earlier = {i3}
    None = None
INVARIANTS
    TypeOK
    ExecutedOnce
    SuccessIsDurable
PROPERTIES
    SettledKeyIsFinal
    ClaimedIsAnswered
CHECK_DEADLOCK FALSE
