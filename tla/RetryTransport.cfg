SPECIFICATION Spec
CONSTANT LastAttempt = 2
INVARIANT NothingLeaks
INVARIANT OnlyRefusalsAreRepeated
PROPERTY CancellationIsPrompt
CHECK_DEADLOCK FALSE
