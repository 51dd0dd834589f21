\* Overlapping calls to /uploaded and /complete.
SPECIFICATION Spec
CONSTANT Requests = {c1, c2, c3, c4, c5}
INVARIANT AcknowledgedIsCompleted
\* every call is made once: the system stops when all are over
CHECK_DEADLOCK FALSE
