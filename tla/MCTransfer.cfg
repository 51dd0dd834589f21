\* Either storage, five overlapping calls of every kind, restarts.
SPECIFICATION Spec
CONSTANT Requests = {c1, c2, c3, c4, c5}
SYMMETRY RequestSymmetry
INVARIANTS ReadyMeansPayload ToldMeansReadable
PROPERTY PromiseKept
\* every call is made once: the system stops when all are over
CHECK_DEADLOCK FALSE
