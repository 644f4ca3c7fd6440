CONSTANTS
    f1 = f1
    h1 = h1
    c1 = c1
    p1 = p1
    p2 = p2
    NoFile = NoFile
    NoPoll = NoPoll
    Files <- OneFile
    MaxVersion = 2
    Handlers <- OneHandler
    Clients <- OneClient
    Polls <- OnePoll
    MaxCrashes = 0
    MaxDbErrors = 0
    MaxFailures = 0
SPECIFICATION PollingSpec
INVARIANT NoMissedChange
