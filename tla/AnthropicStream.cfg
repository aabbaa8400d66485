SPECIFICATION Spec
CONSTANTS
    MaxAttempts = 3
    MaxBlocks = 2
    MaxEvents = 6
    MaxUsage = 1
INVARIANT RetryIsInvisible
INVARIANT StreamsAreClosed
INVARIANT CutInputNeverExecutes
INVARIANT HiddenThoughtsStayHidden
PROPERTY ContractHolds
