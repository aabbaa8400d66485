SPECIFICATION Spec
CONSTANTS
    MaxAttempts = 2
    MaxBlocks = 1
    MaxEvents = 3
    MaxUsage = 0
PROPERTY ImplementsGuard
