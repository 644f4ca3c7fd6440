CONSTANTS
    Files = {f1, f2}
    Uuids = {t1, t2}
    Free = Free
    MaxVersion = 3
    w1 = w1
    w2 = w2
    a1 = a1
    a2 = a2
    Workers = {w1, w2}
    Admins = {a1, a2}
    Home <- HomeOfWorkers
    Batches = 1
    Options <- Bastion
    MaxRequests = 1
    MaxCrashes = 0
    MaxDbErrors = 0
SPECIFICATION Spec
SYMMETRY Sym
INVARIANTS
    LocksFollowTask
    FinishPublishesAll
PROPERTIES
    OverIsOver
    OnlyHolderPublishes
    ImplementsConfigTable
CHECK_DEADLOCK FALSE
