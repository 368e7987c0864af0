SPECIFICATION FairSpec
CONSTANTS
    b1 = b1
    b2 = b2
    r1 = r1
    r2 = r2
    tick = tick
    hook = hook
    other = other
    w = w
    Bridge = {b1, b2}
    Recipe = {r1, r2}
    Slot = {tick}
    Delivery = {hook, other}
    RecipeOf <- MCRecipeOf
    AttemptOf <- MCAttemptOf
    Write = {w}
    MaxConcurrentRuns = 2
    ClaimRequired = FALSE
    StoreBreaks = FALSE
    MaxRuns = 2
PROPERTY HungRunReleased
CHECK_DEADLOCK FALSE
