CONSTANTS
    Scenarios = {s1, s2}
    Builds <- MCBuilds
SPECIFICATION Spec
INVARIANT TypeOK
INVARIANT ImageIsOwn
INVARIANT FailsOnlyByProvider
