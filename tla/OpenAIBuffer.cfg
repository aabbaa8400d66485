SPECIFICATION Spec
CONSTANTS
    ItemIds = {""}
    MaxItems = 1
    MaxEvents = 4
INVARIANT ArgumentsAreRetrieved
