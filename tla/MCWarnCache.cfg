SPECIFICATION CacheSpec
CONSTANTS
    r1 = r1
    r2 = r2
    r3 = r3
    w1 = w1
    w2 = w2
    w3 = w3
    w4 = w4
    Callers <- MCCallers
    Warnings <- MCWarnings
    Cap = 2
SYMMETRY Symmetry
INVARIANT CacheAgrees
INVARIANT NotRepeatedEarly
INVARIANT RememberedIsReported
