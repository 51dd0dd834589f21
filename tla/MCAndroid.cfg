\* Three calls of the app and of the messaging service, two accounts, a kill.
SPECIFICATION MCSpec
CONSTANTS
    Requests = {1, 2, 3}
    Alice = alice
    Users = {alice, bob}
    None = None
    MaxExpiries = 2
    MaxKills = 1
INVARIANTS StoreIsAccounts AppRotatesOnce ReuseIsExplained StoredIsUnused
PROPERTY CallsEnd
\* every call is made once: the system stops when all are over
CHECK_DEADLOCK FALSE
