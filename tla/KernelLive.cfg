SPECIFICATION FairSpec
CONSTANTS
    w1 = w1  w2 = w2  c1 = c1  c2 = c2  a = a  b = b  d = d
    NoAgent = NoAgent
    PreemptInTransition = FALSE
    Agents = {a, b, d}
    Workers = {w1, w2}
    Callers = {c1}
    Threads <- MCThreads
    Policy = "fcfs"
    Quantum = 0
    QuotaTotal = 2
    MaxTotal = 2
    AgentQuota = 2
    MaxToolCalls = 2
    Failures = {"TIMEOUT"}
    MaxPolls = 2
    MailboxCap = 1
    PipeTo <- AtoB
    InputFrom <- BfromA
    Kind <- FirstReact
    Parent <- Family
    Backend = "thread"
    Killable = {a}
    Ops = {"shutdown"}
PROPERTIES EveryAgentFinishes ShutdownStopsWorkers
CHECK_DEADLOCK FALSE
