SPECIFICATION FairSpec
CONSTANTS
    s1 = s1
    s2 = s2
    s3 = s3
    c1 = c1
    c2 = c2
    Session = {s1, s2, s3}
    Call = {c1, c2}
    IdOf <- MCIdOf
    SessionOf <- MCSessionOf
    MaxConcurrentTools = 2
    MaxHttpSessions = 2
    MaxPendingSends = 2
    IdleThreshold = 0
    MaxWait = 1
    SessionTtl = 2
    NoWs = NoWs
    NoCall = NoCall
    Adapter = Adapter
    Conforming = TRUE
INVARIANTS Accounts AnswerIsOwn
PROPERTIES BusySessionKept UnusedSessionsGo
