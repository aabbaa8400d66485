SPECIFICATION Spec
CONSTANTS
    Ids = {a, b}
    MaxParts = 2
    MaxEvents = 5
INVARIANT FinalIsWhatWasShown
INVARIANT SignaturesAreWhole
INVARIANT PartialsAreStable
INVARIANT CallsAreExecutable
