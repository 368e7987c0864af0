SPECIFICATION FairSpec
CHECK_DEADLOCK FALSE
CONSTANTS
    t1 = t1
    t2 = t2
    t3 = t3
    big = big
    Task = {t1, t2, t3, big}
    Tokens <- MCTokens
    Oversized = {big}
    Legacy = {big, t3}
    Awaited = {t1}
    MaxConcurrent = 2
    MaxQueue = 3
    MaxHistory = 3
    MaxTokenBudget = 3
    MaxRestarts = 1
INVARIANTS BooksAgree NoIdleSlot WaitingIsLive StartedOnce
PROPERTY AwaitedIsTold
