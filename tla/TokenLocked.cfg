SPECIFICATION FairSpec
CONSTANTS
    w1 = w1
    w2 = w2
    k1 = k1
    Web <- TwoWeb
    Worker <- OneWorker
    NoCaller = NoCaller
    NoCred = NoCred
    NoToken = NoToken
    Unreadable = Unreadable
    MaxCalls = 1
    MaxLogins = 0
    KeepsToken = FALSE
    RedisFails = FALSE
    SlowHolders = FALSE
CHECK_DEADLOCK FALSE
INVARIANTS TypeOK OneRefreshAtATime RereadersAreCurrent GrantSurvivesRaces
PROPERTY EveryCallReturns
