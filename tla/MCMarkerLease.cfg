SPECIFICATION Spec
CONSTANTS
    Keepers = {s1, s2}
    Requests = {r1}
    None = None
    Lease = 5
    Interval = 3
    Slack = 0
    Stall = 1
    Base = 4
    MaxTime = 6
    MaxFailures = 1
SYMMETRY Symmetry
INVARIANTS
    TypeOK
    LeaseIsHonest
    LiveServerKeepsLoop
CHECK_DEADLOCK FALSE
