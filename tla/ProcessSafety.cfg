SPECIFICATION Spec
CONSTANTS
    w1 = w1  w2 = w2  c1 = c1  a = a  b = b  d = d  p1 = p1  p2 = p2
    NoAgent = NoAgent
    NoPid = NoPid
    PreemptInTransition = FALSE
    Agents = {a, b}
    Workers = {w1, w2}
    Callers = {c1}
    Threads <- MCThreads
    OsPids = {p1, p2}
    StepCap = 4
    ForkMayFail = TRUE
    Policy = "fcfs"
    QuotaTotal = 2
    MaxTotal = 3
    AgentQuota = 2
    MaxToolCalls = 3
    Failures = {"TIMEOUT", "ERROR"}
    MaxPolls = 1
    MailboxCap = 2
    PipeTo <- AtoB
    InputFrom <- BfromA
    Kind <- FirstReact
    Parent <- BfromA
    Backend = "process"
    Killable = {a, b}
    Ops = {"topup", "reap"}
INVARIANTS SingleDispatch InFlightExact NoAgentLost SlainAreDead
    RegistryNamesOwnChild DrainedMeansReaped BudgetNeverUnderCharged
SYMMETRY PoolSymmetry
CHECK_DEADLOCK FALSE
