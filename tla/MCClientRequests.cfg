CONSTANTS
    NoRequest = NoRequest
    Loads = {l1, l2, l3, first}
    Forced = {first}
    Checks = {poll}
    Limit = 2
    NumServers = 2
SPECIFICATION FairRequestsSpec
CONSTRAINT FewWithChecks
INVARIANT RequestTypeOK
INVARIANT SlotsAreCounted
INVARIANT MissesOnlyWhatOthersSkip
PROPERTY FirstLoadsGoFirst
PROPERTY EveryRequestIsAnswered
