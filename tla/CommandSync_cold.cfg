CONSTANTS
    t1 = t1
    t2 = t2
    t3 = t3
    t4 = t4
    a = a
    b = b
    Threads = {t1, t2, t3, t4}
    SyncIDs = {a, b}
    Warm = {}
    SyncOf <- TwoSyncIDs
    Retries <- SomeRetries
    Nil = Nil
SPECIFICATION Spec
INVARIANT OneAtATime
