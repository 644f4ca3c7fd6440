CONSTANTS
    t1 = t1
    t2 = t2
    Loader = Loader
    Threads <- OneThread
    Retain = 2
    FailOnNotExists = TRUE
    MaxVersion = 1
    MaxOverrides = 1
    MaxCrashes = 0
    MaxFailures = 0
SPECIFICATION FairStoreSpec
PROPERTY OverrideGone
