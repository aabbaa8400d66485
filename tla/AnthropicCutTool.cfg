SPECIFICATION Spec
CONSTANTS
    MaxAttempts = 1
    MaxBlocks = 1
    MaxEvents = 3
    MaxUsage = 0
INVARIANT UnfinishedToolNeverExecutes
