SPECIFICATION Spec
CONSTANTS
    Ids = {a}
    MaxParts = 1
    MaxEvents = 2
    LastAttempt = 1
INVARIANT NothingHeld
PROPERTY ImplementsGuard
PROPERTY CallerContract
