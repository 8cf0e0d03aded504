SPECIFICATION Spec
CONSTANTS
    w1 = w1  w2 = w2  c1 = c1  c2 = c2  a = a  b = b  d = d
    NoAgent = NoAgent
    PreemptInTransition = TRUE
    Agents = {a, b}
    Workers = {w1, w2}
    Callers = {c1}
    Threads <- MCThreads
    Policy = "rr"
    Quantum = 2
    QuotaTotal = 2
    MaxTotal = 3
    AgentQuota = 2
    MaxToolCalls = 3
    Failures = {"TIMEOUT", "ERROR"}
    MaxPolls = 1
    MailboxCap = 1
    PipeTo <- AtoB
    InputFrom <- BfromA
    Kind <- FirstReact
    Parent <- Alone
    Backend = "thread"
    Killable = {a, b}
    Ops = {"topup", "reap", "shutdown", "late"}
INVARIANTS TypeOK SingleDispatch QuotaConserved AgentWithinQuota
SYMMETRY WorkerSymmetry
CHECK_DEADLOCK FALSE
