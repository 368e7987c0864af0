SPECIFICATION FairSpec
CONSTANTS
    e1 = e1
    e2 = e2
    e3 = e3
    e4 = e4
    e5 = e5
    s1 = s1
    s2 = s2
    Session = {s1, s2}
    NoSession = NoSession
    SessionOf <- MCSessionOf
    None = None
    Edit = {e1, e2, e4, e5}
    Cancellable = {e5}
INVARIANTS OneOwner InOrder WritesAreCurrent
PROPERTY QueueDrains
CHECK_DEADLOCK FALSE
