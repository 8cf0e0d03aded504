SPECIFICATION Spec
CONSTANTS
    w1 = w1  w2 = w2  c1 = c1  c2 = c2  a = a  b = b  d = d
    NoAgent = NoAgent
    PreemptInTransition = FALSE
    Agents = {a, b}
    Workers = {w1}
    Callers = {c1, c2}
    Threads <- MCThreads
    Policy = "fcfs"
    Quantum = 1
    QuotaTotal = 2
    MaxTotal = 2
    AgentQuota = 2
    MaxToolCalls = 2
    Failures = {"TIMEOUT", "ERROR"}
    MaxPolls = 1
    MailboxCap = 1
    PipeTo <- Alone
    InputFrom <- Alone
    Kind <- Plain
    Parent <- Family
    Backend = "thread"
    Killable = {a, b}
    Ops = {"reap"}
INVARIANTS SlainAreDead
CHECK_DEADLOCK FALSE
