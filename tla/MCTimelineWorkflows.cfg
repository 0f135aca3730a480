SPECIFICATION Spec
CONSTANTS
    Processes = {s1, s2}
    None = None
    MaxFaults = 1
    MaxEdits = 1
INVARIANTS
    TypeOK
    OncePerStep
    ReceiptNotAhead
    AppliedIsExact
PROPERTIES
    EventuallyApplied
CHECK_DEADLOCK FALSE
