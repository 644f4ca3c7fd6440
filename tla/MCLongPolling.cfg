CONSTANTS
    f1 = f1
    h1 = h1
    c1 = c1
    p1 = p1
    p2 = p2
    NoFile = NoFile
    NoPoll = NoPoll
    Files <- OneFile
    MaxVersion = 2
    Handlers <- OneHandler
    Clients <- OneClient
    Polls <- TwoPolls
    MaxCrashes = 1
    MaxDbErrors = 1
    MaxFailures = 1
SPECIFICATION FairPollingSpec
CONSTRAINTS OneFault SecondIsRetry
INVARIANTS
    PollingTypeOK
    OpenPollsListen
    WaitersAreWoken
PROPERTIES
    ClientsCatchUp
    VersionsDontGoBack
    CacheConverges
    ImplementsDelivery
