SPECIFICATION Spec

CONSTANTS
    UserTurns <- MCUserTurns
    ModelTurns <- MCModelTurns
    Catalogue <- MCCatalogue
    Phases <- MCPhases
    SearchTool = "search"
    AlwaysLoaded = {"act"}
    Deferred = {"t1", "t2"}
    MaxPlain = 7
    MaxNative = 6

INVARIANT NothingLostOrMoved
INVARIANT ResultsReachTheirCalls
INVARIANT ChatIsSettled
INVARIANT AnthropicTurnsHold
INVARIANT MessageIdentityKept
INVARIANT LoadedToolsStayCallable
INVARIANT WireResolves
INVARIANT CachedPrefixKept

CHECK_DEADLOCK FALSE
