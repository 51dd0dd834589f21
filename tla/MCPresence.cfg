\* The old and the new connection of a device that reconnects, on two replicas.
CONSTANTS
    Replicas = {r1, r2}
    Sockets = {s1, s2}
    None = None
SPECIFICATION HubSpec
PROPERTIES OrphansAreExceptional PresenceEnds PresenceReturns

