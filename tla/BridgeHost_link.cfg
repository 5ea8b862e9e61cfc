SPECIFICATION FairSpec
CONSTANTS
    t1 = t1
    UseSSL = TRUE
    RetryLimits <- NoneAndTwo
    Senders <- OneSender
    MaxAddrs = 2
INVARIANTS
    UpMeansUsable
    SteadySendsReach
    FirstTriesExact
PROPERTY Reconnects
CHECK_DEADLOCK FALSE
