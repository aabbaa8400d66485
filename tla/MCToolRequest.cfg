SPECIFICATION Spec

CONSTANTS
    Requests <- MCRequests
    NoName = ""
    NoHints = NoHints
    Conversion <- Converted
    Cost <- StrictCost
    MaxTools = 2
    MaxOptional = 3
    MaxUnions = 2

INVARIANT StrictBudgetHolds
INVARIANT GrantedByPriority
INVARIANT ArgumentsMeanTheSame
INVARIANT ForcedChoiceHonoured

CHECK_DEADLOCK FALSE
