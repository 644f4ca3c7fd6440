CONSTANTS
    Files = {f1}
    Uuids = {t1}
    Free = Free
    MaxVersion = 4
    w1 = w1
    w2 = w2
    a1 = a1
    a2 = a2
    Workers = {w1, w2}
    Admins = {a1, a2}
    Home <- HomeOfWorkers
    Batches = 1
    Options <- Manual
    MaxRequests = 0
    MaxCrashes = 1
    MaxDbErrors = 0
SPECIFICATION FairSpec
PROPERTY OneAdminDownHasNoEffect
CHECK_DEADLOCK FALSE
