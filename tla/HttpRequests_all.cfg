CONSTANTS
    Threads = {t1, t2}
    RequestCounts = {2, 3, 4}
    RetryNumbers = {0, 1, 3}
    MaxServed = 5
SPECIFICATION FairSpec
INVARIANT TypeOK
INVARIANT RepeatedOnlyAfterLoss
INVARIANT StoredRunIsAnswered
INVARIANT ThreadsServedAll
INVARIANT ThreadsReported
PROPERTY StepEnds
