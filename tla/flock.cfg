SPECIFICATION FairLockSpec
CONSTANTS
    p1 = p1
    p2 = p2
    p3 = p3
    Process = {p1, p2, p3}
    Suspendable = {p1}
    Windows = TRUE
    MaxCrashes = 2
    NoLock = NoLock
INVARIANT ExclusiveUntilStale
PROPERTIES CallsEnd AbandonedLockCleared
