--------------------------- MODULE ProcessKernel ---------------------------
(***************************************************************************)
(* The kernel with the process backend: kill() and shutdown() also signal  *)
(* the child processes of the agents they stop.                            *)
(***************************************************************************)
EXTENDS ProcessPool, KernelApi

ASSUME ProcessBackend == Backend = "process"

VARIABLE aim   \* aim[c]: the agent and PID that kill_running has looked up

vars == <<pcbVars, queueVars, quotaVars, busVars, loopVars, procVars, apiVars, aim>>

NoAim == [agent |-> NoAgent, pid |-> NoPid]

\* Every field of every component keeps to its domain: states of PCBs, the
\* queue, 0 <= remaining <= total, mailboxes, processes, registry and locals.
TypeOK ==
    /\ PcbTypeOK /\ QueueTypeOK /\ QuotaTypeOK
    /\ BusTypeOK /\ LoopTypeOK /\ ProcTypeOK /\ ApiTypeOK
    /\ aim \in [Callers -> [agent : Agents, pid : OsPids] \cup {NoAim}]

Init ==
    /\ PcbInit /\ QueueInit /\ QuotaInit /\ BusInit
    /\ LoopInit /\ ProcInit /\ ApiInit
    /\ aim = [c \in Callers |-> NoAim]
-----------------------------------------------------------------------------
(***************************************************************************)
(* kill(): kill_running for every victim                                   *)
(***************************************************************************)
\* The registry is read under its lock.
KillLookup(c) ==
    /\ CallerAt(c, "signal")
    /\ \E a \in todo[c] :
          /\ todo' = [todo EXCEPT ![c] = @ \ {a}]
          /\ \/ /\ children[a] = NoPid
                /\ UNCHANGED <<cpc, aim>>
             \/ /\ children[a] # NoPid
                /\ aim' = [aim EXCEPT ![c] = [agent |-> a, pid |-> children[a]]]
                /\ CallerGoto(c, "strike")
    /\ UNCHANGED <<pcbVars, queueVars, quotaVars, busVars, loopVars, procVars,
                   target, victims, tableVars, slain>>

\* The signal is sent after the lock was released.
KillStrike(c) ==
    /\ CallerAt(c, "strike")
    /\ Signal({aim[c].pid})
    /\ aim' = [aim EXCEPT ![c] = NoAim]
    /\ CallerGoto(c, "signal")
    /\ UNCHANGED <<pcbVars, queueVars, quotaVars, busVars, loopVars, job, quotaOf,
                   begun, children, target, victims, todo, tableVars, slain>>

KillSignalled(c) ==
    /\ CallerAt(c, "signal")
    /\ todo[c] = {}
    /\ CallerGoto(c, "pop")
    /\ UNCHANGED <<pcbVars, queueVars, quotaVars, busVars, loopVars, procVars,
                   target, victims, todo, tableVars, slain, aim>>

\* shutdown(): every registered child, under the lock.
ShutdownSlay(c) ==
    /\ CallerAt(c, "slay")
    /\ Signal({children[a] : a \in Agents} \ {NoPid})
    /\ CallerGoto(c, "join")
    /\ UNCHANGED <<pcbVars, queueVars, quotaVars, busVars, loopVars, job, quotaOf,
                   begun, children, target, victims, todo, tableVars, slain, aim>>

ProcessCaller(c) ==
    KillLookup(c) \/ KillStrike(c) \/ KillSignalled(c) \/ ShutdownSlay(c)

Next ==
    \/ \E w \in Workers : Supervisor(w) /\ UNCHANGED <<apiVars, aim>>
    \/ \E p \in OsPids : Child(p) /\ UNCHANGED <<apiVars, aim>>
    \/ ApiNext /\ UNCHANGED <<procVars, aim>>
    \/ \E c \in Callers : ProcessCaller(c)

Spec == Init /\ [][Next]_vars
=============================================================================
