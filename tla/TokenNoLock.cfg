SPECIFICATION Spec
CONSTANTS
    w1 = w1
    w2 = w2
    k1 = k1
    Web <- OneWeb
    Worker <- OneWorker
    NoCaller = NoCaller
    NoCred = NoCred
    NoToken = NoToken
    Unreadable = Unreadable
    MaxCalls = 1
    MaxLogins = 1
    KeepsToken = TRUE
    RedisFails = TRUE
    SlowHolders = TRUE
CHECK_DEADLOCK FALSE
INVARIANT RowNeverRegresses
PROPERTY StoresReplaceOlder
