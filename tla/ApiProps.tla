------------------------------ MODULE ApiProps ------------------------------
(***************************************************************************)
(* What the kernel promises with either backend: no agent is in two places *)
(* at once, none is forgotten, none is revived, and pipes carry results of *)
(* agents that succeeded.                                                  *)
(***************************************************************************)
EXTENDS KernelApi

\* The PCBs a thread alone may put on the queue: a worker's from the pop to
\* the hand-back, a spawner's until it is queued, and one inside put().
Holds(t, a) ==
    \/ t \in Workers /\ held[t] = a /\ pc[t] \notin LetGo
    \/ t \in Callers /\ target[t] = a /\ cpc[t] = "spawn"
    \/ pending[t].enqueue /\ pending[t].agent = a

Queued(a) == \E i \in 1 .. Len(queue) : queue[i] = a

Dispatching == {w \in Workers : pc[w] \notin {"idle", "exited"}}

-----------------------------------------------------------------------------
(***************************************************************************)
(* Invariants that hold whatever thread switches fall inside transition(). *)
(***************************************************************************)
\* An agent is never dispatched twice at a time (bug A1): it is on the queue
\* at most once, never both queued and in some thread's hands, and never in
\* the hands of two threads, whatever kills race with pops and re-queues.
SingleDispatch ==
    /\ \A i, j \in 1 .. Len(queue) : queue[i] = queue[j] => i = j
    /\ \A t \in Threads, a \in Agents : Holds(t, a) => ~Queued(a)
    /\ \A t, u \in Threads, a \in Agents : Holds(t, a) /\ Holds(u, a) => t = u

\* The idle signal of wait_idle (bug A2): _in_flight is exactly the number of
\* workers between a pop and its task_done, so it is zero only when no worker
\* has a PCB in hand, on every path through _dispatch.
InFlightExact == inFlight = Cardinality(Dispatching)

\* No agent makes more LLM calls than its own quota_remaining allowed, though
\* the runner tests the quota long before the call is counted.
AgentWithinQuota == \A a \in Agents : calls[a] <= AgentQuota

-----------------------------------------------------------------------------
(***************************************************************************)
(* Invariants that hold when transition() is not interrupted.              *)
(***************************************************************************)
\* Agents whose worker thread was ended by an exception while it had them.
Abandoned == {held[w] : w \in {u \in Workers : pc[u] = "exited"}}

\* While the pool runs, an unfinished agent is always on the queue or in some
\* thread's hands, so wait_idle() cannot report a drained system that has
\* forgotten one (kill-vs-requeue, quota waits and re-parks included).  The
\* one exception is the agent whose worker died of a fork() that raised: it
\* stays as it is, and no other agent is lost with it.
NoAgentLost ==
    ~stop => \A a \in born \ Abandoned :
                IsTerminal(a) \/ Queued(a) \/ \E t \in Threads : Holds(t, a)

\* When kill() has returned True, every agent it had collected is finished and
\* stays so ("Kill a PID and reap all its descendants (cascade).", kernel.py):
\* none is revived by a worker that was in the middle of its step.  It holds
\* while reap_terminal() is not called during a kill(), which takes the killed
\* agent out of the table and its descendants out of reach.
SlainAreDead == \A a \in slain : IsTerminal(a)

\* Whatever a consumer received or will receive is the result of an agent that
\* ended DONE: a killed, failed or timed-out agent pipes nothing, and a kill
\* that comes after the test of the state cannot undo the DONE.  No result is
\* piped twice, although its agent may be dispatched many times: a worker that
\* has put an agent back neither pipes nor queues it again.
PipedOnceByDone ==
    \A a \in Agents :
        /\ \A i \in 1 .. Len(mailbox[a]) :
              /\ state[mailbox[a][i]] = "DONE"
              /\ inputOf[a] # mailbox[a][i]
        /\ IsInjective(mailbox[a])
        /\ inputOf[a] # NoAgent => state[inputOf[a]] = "DONE"

\* Every change of an agent's state is an edge of the documented graph, which
\* has none out of a terminal state: workers, killers and spawners never
\* surprise one another into an edge that pcb.py would log as unexpected.
OnlyLegalTransitions ==
    [][\A a \in Agents :
          state'[a] # state[a] => state'[a] \in LegalTransitions(state[a])]_pcbVars
=============================================================================
