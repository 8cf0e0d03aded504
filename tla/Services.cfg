SPECIFICATION ServicesSpec
CONSTANTS
    c1 = c1  c2 = c2  c3 = c3
    low = low  high = high  top = top
    Clients = {c1, c2, c3}
    Rate = 2
    Capacity = 2
    MaxConcurrent = 2
    MaxCalls = 2
    Jobs = {low, high, top}
    Priority <- DefaultAmongHigh
    MaxBonus = 8
    StepTicks = 3
    MaxSteps = 4
    Coders = {c1}
    TTL = 1
    MaxRuns = 2
INVARIANTS ConcurrencyCapped GrantsBounded
    PostureFresh WeakOnlyByConsent VerdictHonest NothingLeftBehind
PROPERTIES EveryCallReturns OnlyAgedRivalsStarve EveryRunEnds
CHECK_DEADLOCK FALSE
