SPECIFICATION MemorySpec
CONSTANTS
    QuotaTotal = 1
    MaxTotal = 2
    Policies <- TightPolicies
    Budget = 5
    PinnedTokens = 1
    PromptTokens = 1
    ReplyTokens = {0, 1, 3}
    Estimate = 1
    SummaryTokens = 2
    Rounds = 16
    MaxTurns = 10
    MaxSwapIns = 1
    Capacity = 11
    Messages <- MCMessages
    Overlap = FALSE
    MaxSends = 6
    k1 = k1  k2 = k2
    Keys = {k1, k2}
    Bodies <- MCBodies
    PageSize = 2
    Slots = 4
    OwnsPath = TRUE
    MaxOuts = 2
INVARIANTS NothingVanishes InTurnOrder FitsOrStuck SummariesPaid
PROPERTIES AssembleEnds ImplementsStream ImplementsStore
CHECK_DEADLOCK FALSE
