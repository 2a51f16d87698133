CONSTANTS
    Pods = {p1, p2}
    Containers = {c1, c2}
    Scenarios = 1
    KeepNamespace = FALSE
    ApiFails = FALSE
    Nil = Nil
SPECIFICATION Spec
INVARIANT TypeOK
INVARIANT NoPanic
INVARIANT LogsStoredOrClaimed
PROPERTY MapsFrozenAfterStop
SYMMETRY Symmetry
