\* Every action, three attempts, two calls that misbehave and two moves of the user.
SPECIFICATION Spec
CONSTANTS
    None = None
    Wanted = 2
    MaxTries = 3
    MaxFaults = 2
    MaxMoves = 2
INVARIANTS
    TypeOK
    SuccessIsSeen
    NothingElseChanges
    RepeatAddsNothing
CHECK_DEADLOCK FALSE
