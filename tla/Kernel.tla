------------------------------- MODULE Kernel -------------------------------
(***************************************************************************)
(* The kernel with the thread backend: the worker pool and the callers of  *)
(* its API, over one ready queue, quota, bus and process table.            *)
(***************************************************************************)
EXTENDS WorkerPool, KernelApi

ASSUME ThreadBackend == Backend = "thread"

vars == <<pcbVars, queueVars, quotaVars, busVars, loopVars, stepVars, apiVars>>

\* Every field of every component keeps to its domain: states of PCBs, the
\* queue, 0 <= remaining <= total, mailboxes, worker and caller locals.
TypeOK ==
    /\ PcbTypeOK /\ QueueTypeOK /\ QuotaTypeOK
    /\ BusTypeOK /\ LoopTypeOK /\ StepTypeOK /\ ApiTypeOK

Init ==
    /\ PcbInit /\ QueueInit /\ QuotaInit /\ BusInit
    /\ LoopInit /\ StepInit /\ ApiInit

Next ==
    \/ \E w \in Workers : Worker(w) /\ UNCHANGED apiVars
    \/ ApiNext /\ UNCHANGED stepVars

Spec == Init /\ [][Next]_vars
=============================================================================
