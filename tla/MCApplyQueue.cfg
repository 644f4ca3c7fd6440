CONSTANTS
    Files = {f1, f2}
    Uuids = {t1}
    Free = Free
    MaxVersion = 4
SPECIFICATION ApplyQueueSpec
INVARIANTS
    ApplyTypeOK
    SnapshotsAreHistory
    ConfigIsLatestPublish
    EditsAreBasedOnPublished
    DeletedIsNotInUse
PROPERTIES ImplementsConfigTable
CHECK_DEADLOCK FALSE
