CONSTANTS
    Pods = {p1, p2}
    Containers = {c1}
    Scenarios = 2
    KeepNamespace = FALSE
    ApiFails = TRUE
    Nil = Nil
SPECIFICATION FairSpec
INVARIANT FinishedHasLog
PROPERTY AfterScenarioReturns
