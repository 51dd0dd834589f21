\* From a session that has rotated twice: two more calls race.
SPECIFICATION DeepSpec
CONSTANTS
    r1 = r1
    r2 = r2
    r3 = r3
    t1 = t1
    t2 = t2
    t3 = t3
    alice = alice
    Requests = {r1, r2, r3, r4, r5}
    Tokens = {t1, t2, t3, t4, t5, forged}
    Forged = forged
    Users = {alice, bob}
    TTL = 1
    MaxClock = 1
    NoRow = NoRow
    NoToken = NoToken
    NoUser = NoUser
    Free = Free
INVARIANTS ConsumedOnce ReuseRevokesSuccessor
PROPERTIES RotationPromise DeadFamilyStaysDead EveryCallAnswered
\* the replies of a request are final: the system stops when all are answered
CHECK_DEADLOCK FALSE
