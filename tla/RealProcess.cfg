SPECIFICATION FairSpec
CONSTANTS
    N = 3
    Chunks = 1
    MaxSlices = 6
INVARIANTS OneAtATime SignalsOnlyChildren NothingLeft FairTurns
PROPERTIES CallReturns
CHECK_DEADLOCK FALSE
