----------------------------- MODULE KernelProps -----------------------------
(***************************************************************************)
(* What the thread-backed kernel promises: the properties the runs check   *)
(* and the proofs establish, and the fairness its scheduling justifies.    *)
(***************************************************************************)
EXTENDS Kernel, ApiProps

Spending == {w \in Workers : unit[w]}

-----------------------------------------------------------------------------
(***************************************************************************)
(* Invariants that hold whatever thread switches fall inside transition(). *)
(***************************************************************************)
\* No unit of the OS budget leaks or is minted (bug A3): what remains, what
\* workers hold and the LLM calls really made add up to the ceiling, through
\* refused steps, failed calls, blocked waits, top-ups and shutdown.
QuotaConserved == remaining + Cardinality(Spending) + spent = total

-----------------------------------------------------------------------------
(***************************************************************************)
(* Liveness.  A worker thread keeps being scheduled, LLM calls and waits   *)
(* have timeouts, and a spawn() or kill() under way runs to its return; no *)
(* operation is ever bound to be started.  A subscript names what every    *)
(* step of that thread changes.                                            *)
(***************************************************************************)
CallUnderWay(c) ==
    \/ SpawnEnqueue(c)
    \/ KillMark(c) \/ KillDequeue(c) \/ KillReap(c) \/ KillReturn(c)
    \/ ShutdownReturn(c)

Fairness ==
    /\ \A w \in Workers : WF_<<pc, pending>>(Worker(w) \/ CompleteWrite(w))
    /\ \A c \in Callers : WF_<<cpc, todo, pending>>(CallUnderWay(c) \/ CompleteWrite(c))

FairSpec == Spec /\ Fairness

\* a has its input and lacks only quota, and the OS budget has really gone to
\* LLM calls: no unit of it is in anybody's hands, to be given back, or lost.
OutOfBudget(a) == ~IsTerminal(a) /\ ~AwaitsInput(a) /\ spent = total

\* Every spawned agent reaches a terminal state and leaves the queue, from
\* which kill() takes its target but not the descendants it made zombies,
\* whether its input comes or not, it is killed, or it has to wait for quota
\* that others hold and give back: unless the kernel is shut down, or the
\* budget was spent to the last unit and quota is all the agent waits for.
EveryAgentFinishes ==
    []~stop => []<>(\A a \in born : (IsTerminal(a) /\ ~Queued(a)) \/ OutOfBudget(a))

\* After the stop event every worker leaves its loop, from wherever it was.
ShutdownStopsWorkers == stop ~> \A w \in Workers : pc[w] = "exited"

-----------------------------------------------------------------------------
(***************************************************************************)
(* What comments of the code claim and the code does not do.               *)
(***************************************************************************)
\* pcb.py: "Terminal states are *absorbing*: once an agent is DONE/TIMEOUT/
\* ERROR/ZOMBIE it can never transition again."
TerminalIsAbsorbing ==
    [][\A a \in Agents : IsTerminal(a) => state'[a] = state[a]]_vars
=============================================================================
