CONSTANTS
    f1 = f1
    h1 = h1
    h2 = h2
    Files <- OneFile
    MaxVersion = 1
    Handlers <- TwoHandlers
    MaxCrashes = 0
    MaxDbErrors = 1
SPECIFICATION ServerSpec
PROPERTY RefreshKeepsUpdates
