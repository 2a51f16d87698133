CONSTANTS
    t1 = t1
    t2 = t2
    t3 = t3
    t4 = t4
    a = a
    b = b
    Threads = {t1, t2, t3, t4}
    SyncIDs = {a, b}
    Warm = {a}
    SyncOf <- TwoSyncIDs
    Retries <- SomeRetries
    Nil = Nil
SPECIFICATION FairSpec
INVARIANT TypeOK
INVARIANT OneAtATimeWhenWarm
INVARIANT ResultIsEarned
PROPERTY ImplementsExclusiveRuns
PROPERTY ExecuteReturns
