SPECIFICATION Spec
CONSTANTS
    o1 = o1
    a1 = a1
    a2 = a2
    n1 = n1
    c1 = c1
    c2 = c2
    w1 = w1
    watcher = watcher
    None = None
    Past = past
    Openers = {o1}
    Autos = {a1, a2}
    Creators = {n1}
    Closers = {c1, c2}
    Writers = {w1}
    Watcher = watcher
    Mixes <- MCMixes
    MaxProcess = 2
    MaxGeneration = 2
    Tries <- MCTries
INVARIANTS
    TypeOK
    ActedOnce
    ClosureIsHeld
    KeyInOneGeneration
CHECK_DEADLOCK FALSE
