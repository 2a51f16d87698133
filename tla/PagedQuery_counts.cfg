CONSTANTS
    PageSize = 2
    Expectations <- UpToFive
    MaxIndexed = 6
    MaxFailures = 2
SPECIFICATION FairSpec
INVARIANT TypeOK
INVARIANT NeverOvercounts
INVARIANT CountedWhenUninterrupted
PROPERTY LeftoverIsOvercome
