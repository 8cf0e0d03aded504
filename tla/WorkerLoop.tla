----------------------------- MODULE WorkerLoop -----------------------------
(***************************************************************************)
(* What the two worker pools share: the loop of gcos/kernel/worker_pool.py *)
(* and gcos/kernel/process_pool.py that pops an agent, resolves its        *)
(* {INPUT}, has it run, forwards its result and hands it back; and what    *)
(* the step runners (executor.py, agent_loop.py, coder.py) make of a call. *)
(* Each pool adds how an agent is run between "slice" and "pipe".          *)
(*                                                                         *)
(* A worker's pc names the point it has reached:                           *)
(*   idle      waiting for the queue      dispatch  popped, not looked at  *)
(*   recv      inside bus.recv            slice     about to run the agent *)
(*   pipe      done running it            requeue   about to queue.put     *)
(*   finish    about to task_done         exited    the thread returned    *)
(* in the thread pool also                                                 *)
(*   blocked   inside acquire_blocking    woken     back from it           *)
(*   step      entering the step runner   chat      inside the LLM call    *)
(*   account   after the step runner                                       *)
(* and in the process pool                                                 *)
(*   reserve   about to reserve quota     fork      about to fork          *)
(*   register  forked, not registered     read      reading the result     *)
(*   reap      result applied             settle    child waited for       *)
(*   denied    no quota, about to put     late      put back, still inside *)
(*   crash     an exception is on its way out of the thread                *)
(***************************************************************************)
EXTENDS ReadyQueue, Quota, MessageBus, FiniteSets

CONSTANTS
    Workers,        \* the worker threads
    Kind,           \* Kind[a]: which step runner serves a
    AgentQuota,     \* quota_remaining of a new PCB
    MaxToolCalls,   \* capability.max_tool_calls
    Failures,       \* bound: the states in which a failed LLM call ends
    MaxPolls        \* bound: input deadline / input_wait_s

ASSUME LoopAssumption ==
    /\ Workers \subseteq Threads
    /\ Kind \in [Agents -> {"plain", "react", "coder"}]
    /\ AgentQuota \in Nat
    /\ MaxToolCalls \in Nat
    /\ Failures \subseteq {"TIMEOUT", "ERROR"}
    /\ MaxPolls \in Nat \ {0}

VARIABLES
    pc,        \* pc[w]: where worker w is
    held,      \* held[w]: the PCB w dispatches
    calls,     \* calls[a]: llm_calls_used
    inputOf,   \* inputOf[a]: whose message replaced {INPUT} in the prompt
    polls,     \* polls[a]: how often a was re-parked, its waiting time
    stop,      \* the pool's stop event
    spent      \* history: LLM calls made since boot

agentVars == <<calls, inputOf, polls>>
loopVars == <<pc, held, agentVars, stop, spent>>

PC == {"idle", "dispatch", "recv", "slice", "pipe", "requeue", "finish", "exited",
       "blocked", "woken", "step", "chat", "account",
       "reserve", "fork", "register", "read", "reap", "settle", "denied", "late",
       "crash"}

\* Points at which the agent popped last is no longer the worker's to queue.
LetGo == {"idle", "finish", "late", "exited"}

LoopTypeOK ==
    /\ pc \in [Workers -> PC]
    /\ held \in [Workers -> Agents \cup {NoAgent}]
    /\ calls \in [Agents -> Nat]
    /\ inputOf \in [Agents -> Agents \cup {NoAgent}]
    /\ polls \in [Agents -> 0 .. MaxPolls]
    /\ stop \in BOOLEAN
    /\ spent \in Nat

LoopInit ==
    /\ pc = [w \in Workers |-> "idle"]
    /\ held = [w \in Workers |-> NoAgent]
    /\ calls = [a \in Agents |-> 0]
    /\ inputOf = [a \in Agents |-> NoAgent]
    /\ polls = [a \in Agents |-> 0]
    /\ stop = FALSE
    /\ spent = 0
-----------------------------------------------------------------------------
\* w stands at point p and is not inside a call of transition().
At(w, p) == pc[w] = p /\ Settled(w)

Goto(w, p) == pc' = [pc EXCEPT ![w] = p]

AwaitsInput(a) == InputFrom[a] # NoAgent /\ inputOf[a] = NoAgent

(***************************************************************************)
(* _loop                                                                   *)
(***************************************************************************)
Pick(w) ==
    /\ At(w, "idle")
    /\ ~stop
    /\ \E i \in 1 .. Len(queue) :
          /\ PopSelected(i)
          /\ held' = [held EXCEPT ![w] = queue[i]]
    /\ Goto(w, "dispatch")
    /\ UNCHANGED <<pcbVars, quotaVars, busVars, agentVars, stop, spent>>

\* task_done() in the finally clause.
Finish(w) ==
    /\ At(w, "finish")
    /\ TaskDone
    /\ Goto(w, "idle")
    /\ held' = [held EXCEPT ![w] = NoAgent]
    /\ UNCHANGED <<pcbVars, quotaVars, busVars, agentVars, stop, spent>>

Exit(w) ==
    /\ At(w, "idle")
    /\ stop
    /\ Goto(w, "exited")
    /\ UNCHANGED <<pcbVars, queueVars, quotaVars, busVars, held, agentVars, stop,
                   spent>>

(***************************************************************************)
(* _dispatch: before the agent is run                                      *)
(***************************************************************************)
Dispatch(w) ==
    /\ At(w, "dispatch")
    /\ \/ /\ IsTerminal(held[w])
          /\ Goto(w, "finish")
          /\ UNCHANGED busVars
       \/ /\ ~IsTerminal(held[w])
          /\ AwaitsInput(held[w])
          /\ Listen(held[w])
          /\ Goto(w, "recv")
       \/ /\ ~IsTerminal(held[w])
          /\ ~AwaitsInput(held[w])
          /\ Goto(w, "slice")
          /\ UNCHANGED busVars
    /\ UNCHANGED <<pcbVars, queueVars, quotaVars, held, agentVars, stop, spent>>

ReceiveInput(w) ==
    /\ At(w, "recv")
    /\ Receive(held[w])
    /\ inputOf' = [inputOf EXCEPT ![held[w]] = Head(mailbox[held[w]])]
    /\ Goto(w, "slice")
    /\ UNCHANGED <<pcbVars, queueVars, quotaVars, held, calls, polls, stop, spent>>

\* _repark_waiting: the first empty poll starts the clock; a later one may be
\* past the deadline, and the one after MaxPolls of them certainly is.
Repark(w) ==
    /\ At(w, "recv")
    /\ ReceiveNothing(held[w])
    /\ \/ /\ polls[held[w]] < MaxPolls
          /\ polls' = [polls EXCEPT ![held[w]] = @ + 1]
          /\ Transition(w, held[w], "WAITING")
          /\ Goto(w, "requeue")
       \/ /\ polls[held[w]] > 0
          /\ Transition(w, held[w], "ERROR")
          /\ Goto(w, "finish")
          /\ UNCHANGED polls
    /\ UNCHANGED <<queueVars, quotaVars, held, calls, inputOf, stop, spent>>

\* Mutant of Requeue: the PCB is not put back.
RequeueSkipped(w) ==
    /\ At(w, "requeue")
    /\ Goto(w, "finish")
    /\ UNCHANGED <<pcbVars, queueVars, quotaVars, busVars, held, agentVars, stop,
                   spent>>

\* Mutant of Requeue: it falls through to the forwarding of results.
RequeueThenPipe(w) ==
    /\ At(w, "requeue")
    /\ Put(w, held[w])
    /\ Goto(w, "pipe")
    /\ UNCHANGED <<quotaVars, busVars, held, agentVars, stop, spent>>

Requeue(w) ==
    /\ At(w, "requeue")
    /\ Put(w, held[w])
    /\ Goto(w, "finish")
    /\ UNCHANGED <<quotaVars, busVars, held, agentVars, stop, spent>>

(***************************************************************************)
(* _dispatch: after it was run, forward a result, or yield                 *)
(***************************************************************************)
Forwards(a) == state[a] = "DONE" /\ PipeTo[a] # NoAgent

Conclude(w, keepGoing) ==
    /\ At(w, "pipe")
    /\ \/ /\ Forwards(held[w])
          /\ Send(held[w], PipeTo[held[w]])
          /\ Goto(w, "finish")
       \/ /\ keepGoing /\ ~IsTerminal(held[w])
          /\ Goto(w, "requeue")
          /\ UNCHANGED busVars
       \/ /\ ~Forwards(held[w])
          /\ ~keepGoing \/ IsTerminal(held[w])
          /\ Goto(w, "finish")
          /\ UNCHANGED busVars
    /\ UNCHANGED <<pcbVars, queueVars, quotaVars, held, agentVars, stop, spent>>

(***************************************************************************)
(* The step runners: run_step, run_react_step, run_coder_step              *)
(***************************************************************************)
\* Mutant of Refused: one call too many.
RefusedLate(a, used, quota) ==
    \/ used > quota
    \/ Kind[a] = "react" /\ used >= MaxToolCalls

\* The tests that end a step before any call, after `used' calls: the agent's
\* own quota and the bound on tool calls.
Refused(a, used, quota) ==
    \/ used >= quota
    \/ Kind[a] = "react" /\ used >= MaxToolCalls

\* What a runner makes of an answer: final, a tool step, a failed sandbox.  Code
\* after a counted call that raises, and makes the agent an ERROR in the pool,
\* is left out: for plain and react agents nothing there is expected to.
Outcomes(a) ==
    CASE Kind[a] = "plain" -> {"DONE"}
      [] Kind[a] = "react" -> {"DONE", "TOOL"}
      [] OTHER             -> {"DONE", "ERROR"}

\* The steps that both pools take in the same way.
LoopStep(w) ==
    \/ Pick(w) \/ Exit(w)
    \/ Dispatch(w) \/ ReceiveInput(w) \/ Repark(w) \/ Requeue(w)
=============================================================================
