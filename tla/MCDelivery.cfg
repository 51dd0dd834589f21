\* One connection at a time, publisher and connection on two replicas, one fault.
SPECIFICATION Spec
CONSTANTS
    Replicas = {r1, r2}
    Sockets = {s1}
    None = None
    MaxFaults = 1
INVARIANTS OwedIsComing
PROPERTIES ReadyIsSeen
\* the app is stopped and nobody starts it: the system stops
CHECK_DEADLOCK FALSE
