CONSTANTS
    Scenarios = {b1, b2}
    Installations = {k}
    Others = {o}
    Torn = torn
    Histories <- MCHistories
SPECIFICATION Spec
INVARIANT TypeOK
 
PROPERTY PruneSparesForeign
SYMMETRY Symmetry
