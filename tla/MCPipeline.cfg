SPECIFICATION MCSpec
CONSTANTS
    Requests = {1, 2, 3}
    Keys = {k1}
    Fingerprints = {1, 2}
    Hosts = {h1}
    ReadLimit = 1
    MutationLimit = 1
    Window = 5
    Second = 3
    TTL = 3
    MaxTime = 5
    NoKey = NoKey
    NoEntry = NoEntry
    Conflict = Conflict
    None = None
INVARIANTS AtMostTwoWindows WaitIsEnough OnlyRunsAreCounted
PROPERTIES RunsApart PromiseKept RefusedMeansSpent StuckOnlyBehindPanic
CHECK_DEADLOCK FALSE
