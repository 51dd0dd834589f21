\* Three requests of two bodies under every fault at once.
SPECIFICATION FairSpec
CONSTANTS
    Requests = {q1, q2, q3}
    Fingerprints = {f1, f2}
    Faults = {"slow", "redis", "cancel", "crash"}
    NoLock = NoLock
    NoResult = NoResult
    None = None
INVARIANTS LeaderHoldsLock ReplayIsGenuine LateNeverRuns AcknowledgedIsReplayed
PROPERTY EveryRequestEnds
\* requests are answered once: the system stops when all of them are
CHECK_DEADLOCK FALSE
