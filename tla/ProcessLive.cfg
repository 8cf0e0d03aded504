SPECIFICATION FairSpec
CONSTANTS
    w1 = w1  w2 = w2  c1 = c1  a = a  b = b  d = d  p1 = p1  p2 = p2
    NoAgent = NoAgent
    NoPid = NoPid
    PreemptInTransition = FALSE
    Agents = {a, b}
    Workers = {w1, w2}
    Callers = {c1}
    Threads <- MCThreads
    OsPids = {p1, p2}
    StepCap = 4
    ForkMayFail = FALSE
    Policy = "fcfs"
    QuotaTotal = 1
    MaxTotal = 2
    AgentQuota = 1
    MaxToolCalls = 3
    Failures = {"TIMEOUT"}
    MaxPolls = 1
    MailboxCap = 2
    PipeTo <- Alone
    InputFrom <- Alone
    Kind <- Plain
    Parent <- Alone
    Backend = "process"
    Killable = {a}
    Ops = {"topup", "shutdown"}
PROPERTIES EveryAgentFinishes ShutdownStopsWorkers
CHECK_DEADLOCK FALSE
