CONSTANTS
    t1 = t1
    t2 = t2
    Loader = Loader
    Threads <- TwoThreads
    Retain = 1
    FailOnNotExists = TRUE
    MaxVersion = 2
    MaxOverrides = 1
    MaxCrashes = 1
    MaxFailures = 1
SPECIFICATION FairStoreSpec
INVARIANT StoreTypeOK
INVARIANT OverrideInUse
INVARIANT UpdateNotLost
INVARIANT LabelTellsContent
INVARIANT CacheRecovers

CONSTRAINT FewFaults
PROPERTY ClientFollows
