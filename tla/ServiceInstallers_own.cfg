CONSTANTS
    t1 = t1
    t2 = t2
    n1 = n1
    n2 = n2
    Scenarios = {t1, t2}
    Namespaces = {n1, n2}
    NsOf <- OwnNs
    NsServices = {s1, s2}
    CwServices = {c1}
    Reliable = {s1, c1}
    Listed = {s1, c1}
    MaxInstalls <- Installs
    Nil = Nil
SPECIFICATION FairSpec
INVARIANT TypeOK
INVARIANT Tracked
INVARIANT InstalledOnce
INVARIANT SuccessMeansClean
INVARIANT SuiteSuccessMeansClean
PROPERTY OperatorOutlivesResources
PROPERTY SuiteEnds
