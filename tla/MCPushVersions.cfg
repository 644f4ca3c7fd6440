CONSTANTS
    Machines = {m1}
    MaxVersion = 4
SPECIFICATION FairPushSpec
INVARIANT PushTypeOK
INVARIANT GrantsKept
PROPERTY PublishLevels
PROPERTY LoadsConverge
