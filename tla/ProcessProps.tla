---------------------------- MODULE ProcessProps ----------------------------
(***************************************************************************)
(* What the process-backed kernel promises beyond ApiProps: children are   *)
(* supervised until they are reaped, and the OS budget is never            *)
(* under-charged whatever signals arrive when.                             *)
(***************************************************************************)
EXTENDS ProcessKernel, ApiProps

\* The registry names only children that are still to be waited for, each
\* under the agent it runs, so a signal sent under the registry lock can hit
\* nothing else.
RegistryNamesOwnChild ==
    \A a \in Agents :
        children[a] # NoPid => /\ proc[children[a]].status # "free"
                               /\ proc[children[a]].agent = a

\* wait_idle() means idle: when the queue is drained no child is left, neither
\* running nor as a zombie, whoever was killed at whatever point.
DrainedMeansReaped == IsDrained => \A p \in OsPids : proc[p].status = "free"

\* Units that a worker has reserved and that its child may still spend.
Outstanding ==
    [w \in Workers |->
        CASE pc[w] = "fork" -> job[w].reserved
          [] pc[w] \in {"register", "read", "reap"} ->
                Less(job[w].reserved, proc[job[w].pid].used)
          [] OTHER -> 0]

\* The units f gives the workers, so that their number is the sum of f.
Units(f) == UNION {{w} \X (1 .. f[w]) : w \in Workers}

\* Admission control: the LLM calls made, what children may yet spend and what
\* remains never exceed the ceiling together, so the agents cannot outspend
\* the OS budget collectively, children killed before they report included.
BudgetNeverUnderCharged ==
    spent + Cardinality(Units(Outstanding)) + remaining <= total

-----------------------------------------------------------------------------
(***************************************************************************)
(* Liveness: threads and processes keep being scheduled, and a call under  *)
(* way runs to its return.                                                 *)
(***************************************************************************)
CallUnderWay(c) ==
    \/ SpawnEnqueue(c)
    \/ KillMark(c) \/ KillDequeue(c) \/ KillReap(c) \/ KillReturn(c)
    \/ ShutdownReturn(c)
    \/ ProcessCaller(c)

Fairness ==
    /\ \A w \in Workers : WF_<<pc, pending>>(Supervisor(w) \/ CompleteWrite(w))
    /\ \A p \in OsPids : WF_proc(Child(p))
    /\ \A c \in Callers : WF_<<cpc, todo, pending>>(CallUnderWay(c) \/ CompleteWrite(c))

FairSpec == Spec /\ Fairness

\* a has its input and lacks only quota, no worker has a reservation of which
\* some could come back, and the OS budget went to LLM calls or, in part, to
\* the reservation of a child that kill() stopped before it reported.
OutOfBudget(a) ==
    /\ ~IsTerminal(a) /\ ~AwaitsInput(a)
    /\ quotaOf[a] > 0 /\ remaining = 0
    /\ \A w \in Workers : pc[w] \notin {"fork", "register", "read", "reap", "settle"}
    /\ spent = total \/ slain # {}

\* Every spawned agent reaches a terminal state and leaves the queue, whether
\* its process is killed before, while or after it reports, it is put back for
\* want of quota that a sibling holds, or a sibling's child holds an end of its
\* pipe: unless the kernel is shut down, or the budget is gone for good and
\* quota is all the agent waits for.
EveryAgentFinishes ==
    []~stop => []<>(\A a \in born : (IsTerminal(a) /\ ~Queued(a)) \/ OutOfBudget(a))

\* After shutdown() every worker leaves its loop, though a child forked or
\* registered after the signals were sent is left to finish by itself.
ShutdownStopsWorkers == stop ~> \A w \in Workers : pc[w] = "exited"
=============================================================================
