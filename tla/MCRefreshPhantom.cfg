\* The reuse promise of docs/AUTH.md, against the code.
SPECIFICATION Spec
CONSTANTS
    r1 = r1
    r2 = r2
    r3 = r3
    t1 = t1
    t2 = t2
    t3 = t3
    alice = alice
    Requests = {r1, r2, r3, r4}
    Tokens = {t1, t2, t3, forged}
    Forged = forged
    Users = {alice}
    TTL = 1
    MaxClock = 1
    NoRow = NoRow
    NoToken = NoToken
    NoUser = NoUser
    Free = Free
INVARIANT ReuseRevokesFamily
\* the replies of a request are final: the system stops when all are answered
CHECK_DEADLOCK FALSE
