\* No fault at all: is the mutation executed once?
SPECIFICATION Spec
CONSTANTS
    Requests = {q1, q2}
    Fingerprints = {f1, f2}
    Faults = {}
    NoLock = NoLock
    NoResult = NoResult
    None = None
INVARIANT ExecutedOnce
\* requests are answered once: the system stops when all of them are
CHECK_DEADLOCK FALSE
