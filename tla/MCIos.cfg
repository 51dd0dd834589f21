\* Three calls, sign-outs or sign-ins in any order, two accounts, a kill.
SPECIFICATION MCSpec
CONSTANTS
    Requests = {1, 2, 3}
    Alice = alice
    Users = {alice, bob}
    None = None
    MaxExpiries = 2
    MaxKills = 1
INVARIANTS IosStoreIsAccounts SingleFlight IosReuseIsExplained
\* every call is made once: the system stops when all are over
CHECK_DEADLOCK FALSE
