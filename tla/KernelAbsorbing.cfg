SPECIFICATION Spec
CONSTANTS
    w1 = w1  w2 = w2  c1 = c1  c2 = c2  a = a  b = b  d = d
    NoAgent = NoAgent
    PreemptInTransition = TRUE
    Agents = {a}
    Workers = {w1}
    Callers = {c1}
    Threads <- MCThreads
    Policy = "fcfs"
    Quantum = 0
    QuotaTotal = 1
    MaxTotal = 1
    AgentQuota = 1
    MaxToolCalls = 1
    Failures = {"TIMEOUT", "ERROR"}
    MaxPolls = 1
    MailboxCap = 1
    PipeTo <- Alone
    InputFrom <- Alone
    Kind <- Plain
    Parent <- Alone
    Backend = "thread"
    Killable = {a}
    Ops = {}
PROPERTIES TerminalIsAbsorbing
CHECK_DEADLOCK FALSE
