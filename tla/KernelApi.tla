------------------------------ MODULE KernelApi ------------------------------
(***************************************************************************)
(* The kernel facade of gcos/kernel/kernel.py with the process table and   *)
(* the process tree: the threads (REPL, HTTP handlers) that spawn, kill,   *)
(* reap, top up and shut down, beside the workers of either pool.  spawn() *)
(* and kill() are several critical sections long, and everything else runs *)
(* between them.                                                           *)
(*                                                                         *)
(* A caller's point:  free | spawn (PCB registered, not queued) |          *)
(*   kill (victims collected) | signal (root marked, children to signal) | *)
(*   strike (a child looked up) | pop (root marked) | reap (root dequeued) *)
(*   slay (stop raised, children to signal) | join (waiting for workers)   *)
(* The points signal, strike and slay exist only where agents are real     *)
(* processes, that is in the process backend.                              *)
(***************************************************************************)
EXTENDS WorkerLoop

CONSTANTS
    Callers,   \* threads inside the kernel's public API
    Parent,    \* Parent[a]: parent_pid
    Backend,   \* executor_backend: "thread" or "process"
    Killable,  \* bound: the agents that kill() is called on
    Ops        \* bound: the operations called besides spawn and kill; "late"
               \* stands for calls after shutdown() has returned

ASSUME ApiAssumption ==
    /\ Threads = Workers \cup Callers
    /\ Workers \cap Callers = {}
    /\ IsFiniteSet(Workers)
    /\ Parent \in [Agents -> Agents \cup {NoAgent}]
    /\ Backend \in {"thread", "process"}
    /\ Killable \subseteq Agents
    /\ Ops \subseteq {"reap", "topup", "shutdown", "late"}

VARIABLES
    cpc,       \* cpc[c]: where caller c is
    target,    \* target[c]: the PCB c spawns or kills
    victims,   \* victims[c]: the local `victims' of kill()
    todo,      \* todo[c]: the victims that the loop c is in has yet to visit
    born,      \* PIDs handed out by the allocator
    table,     \* the process table
    linked,    \* agents that are in their parent's children list
    started,   \* the flag _started; start() has run in the initial state
    slain      \* history: the victims of the kill() calls that returned True

callerVars == <<cpc, target, victims, todo>>
tableVars == <<born, table, linked, started>>
apiVars == <<callerVars, tableVars, slain>>

ApiTypeOK ==
    /\ cpc \in [Callers -> {"free", "spawn", "kill", "signal", "strike", "pop",
                            "reap", "slay", "join"}]
    /\ target \in [Callers -> Agents \cup {NoAgent}]
    /\ victims \in [Callers -> SUBSET Agents]
    /\ todo \in [Callers -> SUBSET Agents]
    /\ born \subseteq Agents
    /\ table \subseteq Agents
    /\ linked \subseteq Agents
    /\ started \in BOOLEAN
    /\ slain \subseteq Agents

ApiInit ==
    /\ cpc = [c \in Callers |-> "free"]
    /\ target = [c \in Callers |-> NoAgent]
    /\ victims = [c \in Callers |-> {}]
    /\ todo = [c \in Callers |-> {}]
    /\ born = {}
    /\ table = {}
    /\ linked = {}
    /\ started = TRUE
    /\ slain = {}
-----------------------------------------------------------------------------
CallerAt(c, p) == cpc[c] = p /\ Settled(c)

\* c may begin a call.
Open(c) == CallerAt(c, "free") /\ (started \/ "late" \in Ops)

CallerGoto(c, p) == cpc' = [cpc EXCEPT ![c] = p]

(***************************************************************************)
(* spawn(): register the PCB and hang it under its parent, then queue it.  *)
(***************************************************************************)
SpawnRegister(c, a) ==
    /\ Open(c)
    /\ a \notin born
    /\ born' = born \cup {a}
    /\ table' = table \cup {a}
    /\ linked' = IF Parent[a] \in table THEN linked \cup {a} ELSE linked
    /\ target' = [target EXCEPT ![c] = a]
    /\ CallerGoto(c, "spawn")
    /\ \/ InputFrom[a] # NoAgent /\ Transition(c, a, "WAITING")
       \/ InputFrom[a] = NoAgent /\ UNCHANGED pcbVars
    /\ UNCHANGED <<queueVars, quotaVars, busVars, loopVars, victims, todo, started,
                   slain>>

SpawnEnqueue(c) ==
    /\ CallerAt(c, "spawn")
    /\ Put(c, target[c])
    /\ target' = [target EXCEPT ![c] = NoAgent]
    /\ CallerGoto(c, "free")
    /\ UNCHANGED <<quotaVars, busVars, loopVars, victims, todo, tableVars, slain>>

(***************************************************************************)
(* kill(): collect, mark, dequeue, reap the descendants, free mailboxes.   *)
(***************************************************************************)
\* descendants_of: what children lists reach from a through the PCBs still in
\* the table, that is the least set with the children of a and of its members.
Descendants(a) ==
    LET IsChild(d, p) == d \in linked \cap table /\ p \in table /\ Parent[d] = p
        Closed(S) == \A d \in Agents, p \in S \cup {a} : IsChild(d, p) => d \in S
    IN  {d \in Agents : \A S \in SUBSET Agents : Closed(S) => d \in S}

KillCollect(c, a) ==
    /\ a \in Killable
    /\ Open(c)
    /\ a \in table
    /\ ~IsTerminal(a)
    /\ target' = [target EXCEPT ![c] = a]
    /\ victims' = [victims EXCEPT ![c] = {a} \cup Descendants(a)]
    /\ CallerGoto(c, "kill")
    /\ UNCHANGED <<pcbVars, queueVars, quotaVars, busVars, loopVars, todo,
                   tableVars, slain>>

\* The answer of transition() is ignored.  Next come the child processes.
KillMark(c) ==
    /\ CallerAt(c, "kill")
    /\ Transition(c, target[c], "ZOMBIE")
    /\ todo' = [todo EXCEPT ![c] = victims[c]]
    /\ CallerGoto(c, IF Backend = "process" THEN "signal" ELSE "pop")
    /\ UNCHANGED <<queueVars, quotaVars, busVars, loopVars, target, victims,
                   tableVars, slain>>

\* queue.pop() of the root only; reap_descendants then collects anew.
KillDequeue(c) ==
    /\ CallerAt(c, "pop")
    /\ PopAgent(target[c])
    /\ todo' = [todo EXCEPT ![c] = Descendants(target[c])]
    /\ CallerGoto(c, "reap")
    /\ UNCHANGED <<pcbVars, quotaVars, busVars, loopVars, target, victims,
                   tableVars, slain>>

KillReap(c) ==
    /\ CallerAt(c, "reap")
    /\ \E d \in todo[c] :
          /\ Transition(c, d, "ZOMBIE")
          /\ todo' = [todo EXCEPT ![c] = @ \ {d}]
    /\ UNCHANGED <<queueVars, quotaVars, busVars, loopVars, cpc, target,
                   victims, tableVars, slain>>

KillReturn(c) ==
    /\ CallerAt(c, "reap")
    /\ todo[c] = {}
    /\ Drop(victims[c])
    /\ slain' = slain \cup victims[c]
    /\ target' = [target EXCEPT ![c] = NoAgent]
    /\ victims' = [victims EXCEPT ![c] = {}]
    /\ CallerGoto(c, "free")
    /\ UNCHANGED <<pcbVars, queueVars, quotaVars, loopVars, todo, tableVars>>

(***************************************************************************)
(* The operations that are one step                                        *)
(***************************************************************************)
\* One round of reap_terminal(): forget a finished agent and its mailbox.
ReapTerminal(c) ==
    /\ "reap" \in Ops
    /\ Open(c)
    /\ \E a \in table :
          /\ IsTerminal(a)
          /\ table' = table \ {a}
          /\ Drop({a})
    /\ UNCHANGED <<pcbVars, queueVars, quotaVars, loopVars, callerVars, born,
                   linked, started, slain>>

TopupQuota(c) ==
    /\ "topup" \in Ops
    /\ Open(c)
    /\ Topup
    /\ UNCHANGED <<pcbVars, queueVars, busVars, loopVars, apiVars>>

\* shutdown(): raise the stop event and join the workers, a wait that times
\* out; then drop every mailbox.
Shutdown(c) ==
    /\ "shutdown" \in Ops
    /\ Open(c)
    /\ started
    /\ stop' = TRUE
    /\ CallerGoto(c, IF Backend = "process" THEN "slay" ELSE "join")
    /\ UNCHANGED <<pcbVars, queueVars, quotaVars, busVars, pc, held, agentVars,
                   spent, target, victims, todo, tableVars, slain>>

ShutdownReturn(c) ==
    /\ CallerAt(c, "join")
    /\ Drop(Agents)
    /\ started' = FALSE
    /\ CallerGoto(c, "free")
    /\ UNCHANGED <<pcbVars, queueVars, quotaVars, loopVars, target, victims, todo,
                   born, table, linked, slain>>

Caller(c) ==
    \/ \E a \in Agents : SpawnRegister(c, a) \/ KillCollect(c, a)
    \/ SpawnEnqueue(c)
    \/ KillMark(c) \/ KillDequeue(c) \/ KillReap(c) \/ KillReturn(c)
    \/ ReapTerminal(c) \/ TopupQuota(c) \/ Shutdown(c) \/ ShutdownReturn(c)

\* A thread switch inside transition() ends: its assignment is made.
CompleteWrite(t) ==
    /\ FinishWrite(t)
    /\ UNCHANGED <<quotaVars, busVars, loopVars, apiVars>>

\* What callers do, and the assignments that thread switches have delayed.
ApiNext ==
    \/ \E c \in Callers : Caller(c)
    \/ \E t \in Threads : CompleteWrite(t)
=============================================================================
