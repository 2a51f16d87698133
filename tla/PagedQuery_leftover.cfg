CONSTANTS
    PageSize = 2
    Expectations <- UpToFive
    MaxIndexed = 6
    MaxFailures = 2
SPECIFICATION Spec
INVARIANT Counted
