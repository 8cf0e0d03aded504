SPECIFICATION ServicesSpec
CONSTANTS
    c1 = c1  c2 = c2  c3 = c3
    low = low  high = high  top = top
    Clients = {c1, c2, c3}
    Rate = 2
    Capacity = 2
    MaxConcurrent = 2
    MaxCalls = 0
    Jobs = {low, high, top}
    Priority <- LowestAmongTop
    MaxBonus = 8
    StepTicks = 1
    MaxSteps = 2
    Coders = {c1}
    TTL = 1
    MaxRuns = 0
PROPERTIES NoStarvation
CHECK_DEADLOCK FALSE
