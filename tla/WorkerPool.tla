----------------------------- MODULE WorkerPool -----------------------------
(***************************************************************************)
(* The thread backend, gcos/kernel/worker_pool.py: a worker runs up to a   *)
(* quantum of LLM-call steps on the agent it holds, each paid with one     *)
(* unit of the OS quota, by calling the step runner itself.                *)
(***************************************************************************)
EXTENDS WorkerLoop

CONSTANT Quantum   \* the scheduler's quantum; 0 stands for None

ASSUME QuantumAssumption == Quantum \in Nat

VARIABLES
    unit,   \* unit[w]: w holds one unit of the global quota
    keep,   \* keep[w]: keep_going
    ran     \* ran[w]: steps of this dispatch that have run

stepVars == <<unit, keep, ran>>

StepTypeOK ==
    /\ unit \in [Workers -> BOOLEAN]
    /\ keep \in [Workers -> BOOLEAN]
    /\ ran \in [Workers -> Nat]

StepInit ==
    /\ unit = [w \in Workers |-> FALSE]
    /\ keep = [w \in Workers |-> FALSE]
    /\ ran = [w \in Workers |-> 0]
-----------------------------------------------------------------------------
(***************************************************************************)
(* _run_one_step: the unit of quota                                        *)
(***************************************************************************)
Reserve(w) ==
    /\ At(w, "slice")
    /\ ~stop
    /\ \/ /\ Acquire
          /\ unit' = [unit EXCEPT ![w] = TRUE]
          /\ Goto(w, "step")
          /\ UNCHANGED pcbVars
       \/ /\ Exhausted
          /\ Transition(w, held[w], "BLOCKED")
          /\ Goto(w, "blocked")
          /\ UNCHANGED unit
    /\ UNCHANGED <<queueVars, busVars, held, agentVars, stop, spent, keep, ran>>

\* The stop event is looked at before every step.
StopSlice(w) ==
    /\ At(w, "slice")
    /\ stop
    /\ Goto(w, "pipe")
    /\ UNCHANGED <<pcbVars, queueVars, quotaVars, busVars, held, agentVars, stop,
                   spent, stepVars>>

\* Mutant of AwaitQuota: the wait has no timeout.
AwaitForever(w) ==
    /\ At(w, "blocked")
    /\ Acquire
    /\ unit' = [unit EXCEPT ![w] = TRUE]
    /\ Goto(w, "woken")
    /\ UNCHANGED <<pcbVars, queueVars, busVars, held, agentVars, stop, spent, keep,
                   ran>>

AwaitQuota(w) ==
    /\ At(w, "blocked")
    /\ \/ /\ Acquire
          /\ unit' = [unit EXCEPT ![w] = TRUE]
       \/ /\ Exhausted
          /\ UNCHANGED unit
    /\ Goto(w, "woken")
    /\ UNCHANGED <<pcbVars, queueVars, busVars, held, agentVars, stop, spent, keep,
                   ran>>

Wake(w) ==
    /\ At(w, "woken")
    /\ \/ /\ stop /\ unit[w]
          /\ Refund(1)
          /\ unit' = [unit EXCEPT ![w] = FALSE]
          /\ Goto(w, "requeue")
       \/ /\ ~unit[w]
          /\ Goto(w, "requeue")
          /\ UNCHANGED <<quotaVars, unit>>
       \/ /\ ~stop /\ unit[w]
          /\ Goto(w, "step")
          /\ UNCHANGED <<quotaVars, unit>>
    /\ UNCHANGED <<pcbVars, queueVars, busVars, held, agentVars, stop, spent, keep,
                   ran>>

(***************************************************************************)
(* The step runner                                                         *)
(***************************************************************************)
\* The tests before the call: a finished agent, an exhausted agent, and the
\* policy gate, which may deny a coder's prompt.
EnterStep(w) ==
    /\ At(w, "step")
    /\ keep' = [keep EXCEPT ![w] = FALSE]
    /\ \/ /\ IsTerminal(held[w])
          /\ Goto(w, "account")
          /\ UNCHANGED pcbVars
       \/ /\ ~IsTerminal(held[w])
          /\ \/ Refused(held[w], calls[held[w]], AgentQuota)
             \/ Kind[held[w]] = "coder"
          /\ Transition(w, held[w], "ERROR")
          /\ Goto(w, "account")
       \/ /\ ~IsTerminal(held[w])
          /\ ~Refused(held[w], calls[held[w]], AgentQuota)
          /\ Transition(w, held[w], "RUNNING")
          /\ Goto(w, "chat")
    /\ UNCHANGED <<queueVars, quotaVars, busVars, held, agentVars, stop, spent,
                   unit, ran>>

\* The call raised: a timeout or any other error.  Nothing was spent.
ChatFails(w) ==
    /\ At(w, "chat")
    /\ \E s \in Failures : Transition(w, held[w], s)
    /\ Goto(w, "account")
    /\ UNCHANGED <<queueVars, quotaVars, busVars, held, agentVars, stop, spent,
                   stepVars>>

ChatReturns(w) ==
    /\ At(w, "chat")
    /\ calls' = [calls EXCEPT ![held[w]] = @ + 1]
    /\ unit' = [unit EXCEPT ![w] = FALSE]
    /\ spent' = spent + 1
    /\ Goto(w, "account")
    /\ \/ /\ state[held[w]] = "ZOMBIE"      \* killed during the call: discard
          /\ UNCHANGED <<pcbVars, keep>>
       \/ /\ state[held[w]] # "ZOMBIE"
          /\ \E o \in Outcomes(held[w]) \ {"TOOL"} : Transition(w, held[w], o)
          /\ UNCHANGED keep
       \/ /\ state[held[w]] # "ZOMBIE"
          /\ "TOOL" \in Outcomes(held[w])
          /\ keep' = [keep EXCEPT ![w] = TRUE]
          /\ UNCHANGED pcbVars
    /\ UNCHANGED <<queueVars, quotaVars, busVars, held, inputOf, polls, stop, ran>>

\* Back in _run_one_step: refund unless a call was counted, then go round
\* the loop or leave it.
Account(w) ==
    /\ At(w, "account")
    /\ \/ unit[w] /\ Refund(1)
       \/ ~unit[w] /\ UNCHANGED quotaVars
    /\ unit' = [unit EXCEPT ![w] = FALSE]
    /\ ran' = [ran EXCEPT ![w] = @ + 1]
    /\ \/ /\ IsTerminal(held[w]) \/ ~keep[w] \/ ran[w] + 1 = Quantum
          /\ Goto(w, "pipe")
       \/ /\ ~IsTerminal(held[w]) /\ keep[w] /\ ran[w] + 1 # Quantum
          /\ Goto(w, "slice")
    /\ UNCHANGED <<pcbVars, queueVars, busVars, held, agentVars, stop, spent, keep>>

-----------------------------------------------------------------------------
\* The locals of _dispatch are gone when it returns.
HandBack(w) ==
    /\ Finish(w)
    /\ keep' = [keep EXCEPT ![w] = FALSE]
    /\ ran' = [ran EXCEPT ![w] = 0]
    /\ UNCHANGED unit

Worker(w) ==
    \/ (LoopStep(w) \/ Conclude(w, keep[w])) /\ UNCHANGED stepVars
    \/ HandBack(w)
    \/ Reserve(w) \/ StopSlice(w) \/ AwaitQuota(w) \/ Wake(w)
    \/ EnterStep(w) \/ ChatFails(w) \/ ChatReturns(w) \/ Account(w)
=============================================================================
