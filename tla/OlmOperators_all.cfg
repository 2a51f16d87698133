CONSTANTS
    Users = {u1, u2}
    Scopes = {"namespaced", "cluster"}
    MaxVersion = 2
SPECIFICATION FairSpec
INVARIANT TypeOK
INVARIANT RegistryPreventsConflict
INVARIANT OperatorOutlivesScenarios
PROPERTY ForeignUntouched
PROPERTY SuccessLeavesOnlyUpgrades
PROPERTY InstallationEnds
