SPECIFICATION Spec
CONSTANTS
    w1 = w1  w2 = w2  c1 = c1  c2 = c2  a = a  b = b  d = d
    NoAgent = NoAgent
    PreemptInTransition = FALSE
    Agents = {a, b, d}
    Workers = {w1, w2}
    Callers = {c1}
    Threads <- MCThreads
    Policy = "priority"
    Quantum = 1
    QuotaTotal = 2
    MaxTotal = 2
    AgentQuota = 2
    MaxToolCalls = 2
    Failures = {"TIMEOUT", "ERROR"}
    MaxPolls = 1
    MailboxCap = 1
    PipeTo <- AtoB
    InputFrom <- BfromA
    Kind <- ReactAndCoder
    Parent <- Chain
    Backend = "thread"
    Killable = {a, b, d}
    Ops = {}
INVARIANTS NoAgentLost SlainAreDead PipedOnceByDone
PROPERTIES OnlyLegalTransitions
SYMMETRY WorkerSymmetry
CHECK_DEADLOCK FALSE
