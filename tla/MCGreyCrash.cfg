CONSTANTS
    Files = {f1}
    Uuids = {t1}
    Free = Free
    MaxVersion = 3
    w1 = w1
    w2 = w2
    a1 = a1
    a2 = a2
    Workers = {w1, w2}
    Admins = {a1, a2}
    Home <- HomeOfWorkers
    Batches = 2
    Options <- AutoAndBastion
    MaxRequests = 1
    MaxCrashes = 1
    MaxDbErrors = 1
SPECIFICATION FairSpec
INVARIANTS
    GreyTypeOK
    LocksFollowTask
    BatchesInOrder
PROPERTIES
    OnlyCurrentViewAdvances
    PushingTaskGetsOn
CHECK_DEADLOCK FALSE
