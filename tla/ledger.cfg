SPECIFICATION Spec
CONSTANTS
    w1 = w1
    w2 = w2
    Writer = {w1, w2}
    Nobody = Nobody
    LegacyRows = {0, 2}
    Cap = 3
    Target = 2
    MaxHash = 9
    MaxCrashes = 1
    MaxFailures = 2
    MaxTears = 1
SYMMETRY Symmetry
INVARIANTS ChainVerifies RowsAccounted AckedRowsKept RowChangeNoticed
    FailuresSealedOrPending
PROPERTY HeadAdvances
CHECK_DEADLOCK FALSE
