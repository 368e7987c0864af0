SPECIFICATION FairSpec
CONSTANTS
    k1 = k1
    k2 = k2
    c1 = c1
    c2 = c2
    c3 = c3
    Client = {k1, k2}
    Call = {c1, c2, c3}
    IdOf <- MCIdOf
    ClientOf <- MCClientOf
    MaxConcurrentTools = 2
    MaxSessions = 2
    MaxConn = 3
    NoSession = NoSession
    NoWs = NoWs
INVARIANTS SlotsExact AnswersFollowTheSession
PROPERTIES ConnectedSessionKept LostSessionsGo
CHECK_DEADLOCK FALSE
