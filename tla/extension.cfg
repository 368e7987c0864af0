SPECIFICATION Spec
CONSTANTS
    r1 = r1
    r2 = r2
    r3 = r3
    r4 = r4
    r5 = r5
    Request = {r1, r2, r3, r4, r5}
    MaxPending = 3
    Threshold = 3
    Window = 2
    MaxBackoff = 2
    MaxClock = 3
    MaxSocket = 2
SYMMETRY Requests
INVARIANT PendingAnswerable
PROPERTY CircuitOpensForCause
CHECK_DEADLOCK FALSE
