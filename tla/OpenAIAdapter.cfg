SPECIFICATION AdapterSpec
CONSTANTS
    ItemIds = {"item_1", "item_2"}
    MaxItems = 2
    MaxEvents = 7
    MaxCalls = 2
    MaxChunks = 7
INVARIANT StreamedCallsAreTheirOwn
INVARIANT KeptIsWhatWasShown
INVARIANT UnfinishedNeverExecutes
PROPERTY ContractHolds
