---------------------------- MODULE KernelProofs ----------------------------
(***************************************************************************)
(* Proofs about the thread-backed kernel: type correctness, that no agent  *)
(* is ever dispatched twice at a time, that the OS budget, the in-flight   *)
(* count and every agent's quota are kept exactly, and what the life of an *)
(* agent may look like.                                                    *)
(***************************************************************************)
EXTENDS KernelProps, ApiProofs

TypeInv == ApiInv /\ StepTypeOK

\* The initial states are well-formed.
LEMMA TypeInit == Init => TypeInv
<1>1. Init => StepTypeOK
  BY DEF Init, StepInit, StepTypeOK
<1> QED
  BY <1>1, ApiTypeInit DEF Init, TypeInv

\* Every step of a worker keeps the types.
LEMMA WorkerType ==
    ASSUME TypeInv, NEW w \in Workers, Worker(w), UNCHANGED apiVars
    PROVE  TypeInv'
<1>0. /\ w \in Threads /\ ApiInv /\ Grip
      /\ PcbTypeOK /\ QueueTypeOK /\ QuotaTypeOK
      /\ BusTypeOK /\ LoopTypeOK /\ StepTypeOK
  BY LoopAssumption DEF TypeInv, ApiInv
<1>1. CASE (LoopStep(w) \/ Conclude(w, keep[w])) /\ UNCHANGED stepVars
  BY <1>0, <1>1, LoopType DEF TypeInv, StepTypeOK, stepVars
<1>2. CASE HandBack(w)
  BY <1>0, <1>2, LoopType DEF TypeInv, StepTypeOK, HandBack
<1>s. {"ERROR", "BLOCKED", "RUNNING", "TIMEOUT", "DONE"} \subseteq AgentState
  BY DEF AgentState, LiveStates, TerminalStates
<1>t. \A s \in {"ERROR", "BLOCKED", "RUNNING", "TIMEOUT", "DONE"} :
         held[w] \in Agents /\ Transition(w, held[w], s) => PcbTypeOK'
  BY <1>0, <1>s, TransitionType
<1>m. ASSUME NEW p \in PC, pc[w] \notin {"idle", "exited"}, Goto(w, p),
             UNCHANGED <<held, inputOf, polls, stop>>,
             PcbTypeOK', QueueTypeOK', QuotaTypeOK', BusTypeOK',
             calls' \in [Agents -> Nat], spent' \in Nat, StepTypeOK'
      PROVE  TypeInv'
  BY <1>0, <1>m, MoveType DEF TypeInv
<1>c. calls \in [Agents -> Nat] /\ spent \in Nat
  BY <1>0 DEF LoopTypeOK
<1>f. /\ UNCHANGED pcbVars => PcbTypeOK'
      /\ UNCHANGED queueVars => QueueTypeOK'
      /\ UNCHANGED quotaVars => QuotaTypeOK'
      /\ UNCHANGED busVars => BusTypeOK'
  BY <1>0, FrameType
<1> USE DEF At, StepTypeOK, PC, agentVars, stepVars
<1>3. CASE Reserve(w)
  <2>1. pc[w] \notin {"idle", "exited"} /\ held[w] \in Agents
    BY <1>0, <1>3 DEF Reserve, Grip
  <2>2. PcbTypeOK' /\ BusTypeOK' /\ QueueTypeOK' /\ QuotaTypeOK' /\ StepTypeOK'
    BY <1>0, <1>3, <1>f, <1>t, <2>1, QuotaOpsType DEF Reserve
  <2>3. \E p \in PC : Goto(w, p)
    BY <1>3 DEF Reserve
  <2>4. UNCHANGED <<held, calls, inputOf, polls, stop, spent>>
    BY <1>3 DEF Reserve
  <2> QED
    BY <1>c, <1>m, <2>1, <2>2, <2>3, <2>4
<1>4. CASE StopSlice(w)
  <2>1. pc[w] \notin {"idle", "exited"} /\ held[w] \in Agents
    BY <1>0, <1>4 DEF StopSlice, Grip
  <2>2. PcbTypeOK' /\ BusTypeOK' /\ QueueTypeOK' /\ QuotaTypeOK' /\ StepTypeOK'
    BY <1>0, <1>4, <1>f, <2>1 DEF StopSlice
  <2>3. \E p \in PC : Goto(w, p)
    BY <1>4 DEF StopSlice
  <2>4. UNCHANGED <<held, calls, inputOf, polls, stop, spent>>
    BY <1>4 DEF StopSlice
  <2> QED
    BY <1>c, <1>m, <2>1, <2>2, <2>3, <2>4
<1>5. CASE AwaitQuota(w)
  <2>1. pc[w] \notin {"idle", "exited"} /\ held[w] \in Agents
    BY <1>0, <1>5 DEF AwaitQuota, Grip
  <2>2. PcbTypeOK' /\ BusTypeOK' /\ QueueTypeOK' /\ QuotaTypeOK' /\ StepTypeOK'
    BY <1>0, <1>5, <1>f, <2>1, QuotaOpsType DEF AwaitQuota
  <2>3. \E p \in PC : Goto(w, p)
    BY <1>5 DEF AwaitQuota
  <2>4. UNCHANGED <<held, calls, inputOf, polls, stop, spent>>
    BY <1>5 DEF AwaitQuota
  <2> QED
    BY <1>c, <1>m, <2>1, <2>2, <2>3, <2>4
<1>6. CASE Wake(w)
  <2>1. pc[w] \notin {"idle", "exited"} /\ held[w] \in Agents
    BY <1>0, <1>6 DEF Wake, Grip
  <2>2. PcbTypeOK' /\ BusTypeOK' /\ QueueTypeOK' /\ QuotaTypeOK' /\ StepTypeOK'
    BY <1>0, <1>6, <1>f, <2>1, QuotaOpsType DEF Wake
  <2>3. \E p \in PC : Goto(w, p)
    BY <1>6 DEF Wake
  <2>4. UNCHANGED <<held, calls, inputOf, polls, stop, spent>>
    BY <1>6 DEF Wake
  <2> QED
    BY <1>c, <1>m, <2>1, <2>2, <2>3, <2>4
<1>7. CASE EnterStep(w)
  <2>1. pc[w] \notin {"idle", "exited"} /\ held[w] \in Agents
    BY <1>0, <1>7 DEF EnterStep, Grip
  <2>2. PcbTypeOK' /\ BusTypeOK' /\ QueueTypeOK' /\ QuotaTypeOK' /\ StepTypeOK'
    BY <1>0, <1>7, <1>f, <1>t, <2>1 DEF EnterStep
  <2>3. \E p \in PC : Goto(w, p)
    BY <1>7 DEF EnterStep
  <2>4. UNCHANGED <<held, calls, inputOf, polls, stop, spent>>
    BY <1>7 DEF EnterStep
  <2> QED
    BY <1>c, <1>m, <2>1, <2>2, <2>3, <2>4
<1>8. CASE ChatFails(w)
  <2>1. pc[w] \notin {"idle", "exited"} /\ held[w] \in Agents
    BY <1>0, <1>8 DEF ChatFails, Grip
  <2>2. PcbTypeOK' /\ BusTypeOK' /\ QueueTypeOK' /\ QuotaTypeOK' /\ StepTypeOK'
    BY <1>0, <1>8, <1>f, <1>t, <2>1, LoopAssumption DEF ChatFails
  <2>3. \E p \in PC : Goto(w, p)
    BY <1>8 DEF ChatFails
  <2>4. UNCHANGED <<held, calls, inputOf, polls, stop, spent>>
    BY <1>8 DEF ChatFails
  <2> QED
    BY <1>c, <1>m, <2>1, <2>2, <2>3, <2>4
<1>9. CASE ChatReturns(w)
  <2>1. pc[w] \notin {"idle", "exited"} /\ held[w] \in Agents
    BY <1>0, <1>9 DEF ChatReturns, Grip
  <2>2. Outcomes(held[w]) \ {"TOOL"} \subseteq {"DONE", "ERROR"}
    BY DEF Outcomes
  <2>3. PcbTypeOK' /\ BusTypeOK' /\ QueueTypeOK' /\ QuotaTypeOK'
    BY <1>0, <1>9, <1>f, <1>t, <2>1, <2>2 DEF ChatReturns
  <2>4. keep' = keep \/ keep' = [keep EXCEPT ![w] = TRUE]
    BY <1>9 DEF ChatReturns
  <2>5. /\ Goto(w, "account")
        /\ calls' = [calls EXCEPT ![held[w]] = @ + 1]
        /\ unit' = [unit EXCEPT ![w] = FALSE]
        /\ spent' = spent + 1
        /\ UNCHANGED <<held, ran, inputOf, polls, stop>>
    BY <1>9 DEF ChatReturns
  <2>6. StepTypeOK'
    BY <1>0, <2>4, <2>5
  <2>7. calls' \in [Agents -> Nat] /\ spent' \in Nat
    BY <1>c, <2>1, <2>5
  <2> QED
    BY <1>m, <2>1, <2>3, <2>5, <2>6, <2>7
<1>10. CASE Account(w)
  <2>1. pc[w] \notin {"idle", "exited"} /\ held[w] \in Agents
    BY <1>0, <1>10 DEF Account, Grip
  <2>2. PcbTypeOK' /\ BusTypeOK' /\ QueueTypeOK' /\ QuotaTypeOK' /\ StepTypeOK'
    BY <1>0, <1>10, <1>f, QuotaOpsType DEF Account
  <2>3. \E p \in PC : Goto(w, p)
    BY <1>10 DEF Account
  <2>4. UNCHANGED <<held, calls, inputOf, polls, stop, spent>>
    BY <1>10 DEF Account
  <2> QED
    BY <1>c, <1>m, <2>1, <2>2, <2>3, <2>4
<1> QED
  BY <1>1, <1>2, <1>3, <1>4, <1>5, <1>6, <1>7, <1>8, <1>9, <1>10 DEF Worker

\* The inductive step of type correctness.
LEMMA TypeStep == TypeInv /\ [Next]_vars => TypeInv'
<1> SUFFICES ASSUME TypeInv, [Next]_vars PROVE TypeInv'
  OBVIOUS
<1>1. ASSUME UNCHANGED stepVars PROVE StepTypeOK'
  BY <1>1 DEF TypeInv, StepTypeOK, stepVars
<1>2. CASE UNCHANGED vars
  <2>1. ApiInv'
    BY <1>2, FrameType
    DEF vars, TypeInv, ApiInv, Grip, LoopTypeOK, ApiTypeOK, loopVars, agentVars,
        apiVars, callerVars, tableVars
  <2> QED
    BY <1>1, <1>2, <2>1 DEF vars, TypeInv
<1>3. ASSUME NEW c \in Callers, Caller(c), UNCHANGED stepVars PROVE TypeInv'
  BY <1>1, <1>3, CallerType DEF TypeInv
<1>4. ASSUME NEW t \in Threads, CompleteWrite(t), UNCHANGED stepVars PROVE TypeInv'
  BY <1>1, <1>4, WriteType DEF TypeInv
<1> QED
  BY <1>2, <1>3, <1>4, WorkerType DEF Next, ApiNext

\* Type correctness: PCBs, queue, budget, mailboxes and the locals of every
\* thread keep to their domains in every behaviour of the kernel.
THEOREM TypeCorrect == Spec => []TypeOK
<1>1. Spec => []TypeInv
  BY TypeInit, TypeStep, PTL DEF Spec
<1>2. TypeInv => TypeOK
  BY DEF TypeInv, ApiInv, TypeOK
<1> QED
  BY <1>1, <1>2, PTL

-----------------------------------------------------------------------------
\* Every step of a worker keeps each PCB in one place.
LEMMA WorkerDispatch ==
    ASSUME TypeInv, DispatchInv, NEW w \in Workers, Worker(w), UNCHANGED apiVars
    PROVE  SingleDispatch' /\ PutInv' /\ BornInv'
<1>0. /\ w \in Threads /\ ApiInv
      /\ DOMAIN pc = Workers /\ DOMAIN held = Workers
  BY LoopAssumption DEF DispatchInv, ApiInv, LoopTypeOK
<1>1. CASE LoopStep(w) \/ Conclude(w, keep[w])
  BY <1>1, LoopDispatch
<1>2. CASE HandBack(w)
  BY <1>2, LoopDispatch DEF HandBack
<1>3. SUFFICES ASSUME ~LoopStep(w), ~Conclude(w, keep[w]), ~HandBack(w) PROVE
         /\ Settled(w)
         /\ \A v \in Workers : v # w => pc'[v] = pc[v] /\ held'[v] = held[v]
         /\ pc'[w] \in LetGo \/ (held'[w] = held[w] /\ pc[w] \notin LetGo)
         /\ UNCHANGED queue
         /\ \A u \in Threads :
               pending'[u] = pending[u] \/ (u = w /\ ~pending'[u].enqueue)
  BY <1>1, <1>2, WorkerFrame
<1>t. ASSUME NEW s, Transition(w, held[w], s)
      PROVE  \A u \in Threads :
                pending'[u] = pending[u] \/ (u = w /\ ~pending'[u].enqueue)
  BY <1>0, <1>t, TransitionPending
<1> USE <1>0 DEF At, Goto, LetGo, queueVars, pcbVars
<1>4. CASE Reserve(w)
  BY <1>4, <1>t DEF Reserve
<1>5. CASE StopSlice(w)
  BY <1>5 DEF StopSlice
<1>6. CASE AwaitQuota(w)
  BY <1>6 DEF AwaitQuota
<1>7. CASE Wake(w)
  BY <1>7 DEF Wake
<1>8. CASE EnterStep(w)
  BY <1>8, <1>t DEF EnterStep
<1>9. CASE ChatFails(w)
  BY <1>9, <1>t DEF ChatFails
<1>10. CASE ChatReturns(w)
  BY <1>10, <1>t DEF ChatReturns
<1>11. CASE Account(w)
  BY <1>11 DEF Account
<1> QED
  BY <1>3, <1>4, <1>5, <1>6, <1>7, <1>8, <1>9, <1>10, <1>11 DEF Worker

\* The inductive step of single dispatch.
LEMMA DispatchStep ==
    TypeInv /\ DispatchInv /\ [Next]_vars => TypeInv' /\ DispatchInv'
<1> SUFFICES ASSUME TypeInv, DispatchInv, [Next]_vars PROVE TypeInv' /\ DispatchInv'
  OBVIOUS
<1>1. TypeInv' /\ ApiInv'
  BY TypeStep DEF TypeInv
<1>2. ASSUME UNCHANGED vars PROVE SingleDispatch' /\ PutInv' /\ BornInv'
  <2>1. UNCHANGED <<queue, pending, pc, held, cpc, target, born>>
    BY <1>2 DEF vars, pcbVars, queueVars, loopVars, apiVars, callerVars, tableVars
  <2>2. \A t \in Threads, a \in Agents : Holds(t, a)' => Holds(t, a)
    BY <2>1 DEF Holds
  <2>3. PutInv'
    BY <2>1 DEF DispatchInv, PutInv
  <2> QED
    BY <2>1, <2>2, <2>3, ReleaseDispatch DEF DispatchInv
<1>3. SingleDispatch' /\ PutInv' /\ BornInv'
  BY <1>2, WorkerDispatch, CallerDispatch, WriteDispatch DEF Next, ApiNext
<1> QED
  BY <1>1, <1>3 DEF DispatchInv

\* No double dispatch: in every behaviour of the kernel an agent is queued at
\* most once, or in the hands of at most one thread, and never both.
THEOREM NoDoubleDispatch == Spec => []SingleDispatch
<1>1. Init => TypeInv /\ DispatchInv
  BY TypeInit, ApiDispatchInit DEF Init, TypeInv, DispatchInv
<1>2. DispatchInv => SingleDispatch
  BY DEF DispatchInv
<1> QED
  BY <1>1, <1>2, DispatchStep, PTL DEF Spec

-----------------------------------------------------------------------------
(***************************************************************************)
(* The OS budget, the in-flight count and the quota of an agent            *)
(***************************************************************************)

\* A worker holds a unit of quota only between taking it and the end of the
\* step, and always holds one while it is inside the step runner.
UnitInv ==
    \A w \in Workers :
        /\ unit[w] => pc[w] \in {"woken", "step", "chat", "account"}
        /\ pc[w] \in {"step", "chat"} => unit[w]

BudgetInv == TypeInv /\ UnitInv /\ QuotaConserved

\* The workers that hold a unit are finitely many.
LEMMA CountsAreNat ==
    IsFiniteSet(Spending) /\ Cardinality(Spending) \in Nat
<1>1. Spending \subseteq Workers
  BY DEF Spending
<1> QED
  BY <1>1, ApiAssumption, FS_Subset, FS_CardinalityType

\* Taking a unit adds one holder.
LEMMA TakeUnit ==
    ASSUME TypeInv, NEW w \in Workers, ~unit[w],
           unit' = [unit EXCEPT ![w] = TRUE]
    PROVE  Cardinality(Spending') = Cardinality(Spending) + 1
<1>1. Spending' = Spending \cup {w} /\ w \notin Spending
  BY DEF Spending, TypeInv, StepTypeOK
<1> QED
  BY <1>1, CountsAreNat, FS_AddElement

\* Spending it or handing it back removes one.
LEMMA DropUnit ==
    ASSUME TypeInv, NEW w \in Workers, unit[w],
           unit' = [unit EXCEPT ![w] = FALSE]
    PROVE  /\ Cardinality(Spending') = Cardinality(Spending) - 1
           /\ Cardinality(Spending) >= 1
<1>1. Spending' = Spending \ {w} /\ w \in Spending
  BY DEF Spending, TypeInv, StepTypeOK
<1>2. Cardinality(Spending') = Cardinality(Spending) - 1
  BY <1>1, CountsAreNat, FS_RemoveElement
<1>3. Cardinality(Spending') \in Nat
  BY <1>1, CountsAreNat, FS_Subset, FS_CardinalityType
<1> QED
  BY <1>2, <1>3, CountsAreNat

\* A step that leaves unit, quota and history alone keeps the balance.
LEMMA BudgetFrame ==
    ASSUME QuotaConserved, UNCHANGED <<unit, quotaVars, spent>>
    PROVE  QuotaConserved'
  BY DEF QuotaConserved, Spending, quotaVars

\* Every step of a worker keeps the balance.
LEMMA WorkerBudget ==
    ASSUME BudgetInv, NEW w \in Workers, Worker(w), UNCHANGED apiVars
    PROVE  UnitInv' /\ QuotaConserved'
<1>0. /\ TypeInv /\ UnitInv /\ QuotaConserved
      /\ total \in Nat /\ remaining \in 0 .. total /\ spent \in Nat
      /\ pc \in [Workers -> PC] /\ unit \in [Workers -> BOOLEAN]
  BY DEF BudgetInv, TypeInv, ApiInv, QuotaTypeOK, LoopTypeOK, StepTypeOK
<1>1. Cardinality(Spending) \in Nat
  BY CountsAreNat
<1> USE DEF At, Goto, UnitInv, quotaVars, stepVars
<1>2. CASE Pick(w) /\ UNCHANGED stepVars
  BY <1>0, <1>2, BudgetFrame DEF Pick
<1>3. CASE HandBack(w)
  BY <1>0, <1>3, BudgetFrame DEF HandBack, Finish
<1>4. CASE Exit(w) /\ UNCHANGED stepVars
  BY <1>0, <1>4, BudgetFrame DEF Exit
<1>5. CASE Dispatch(w) /\ UNCHANGED stepVars
  BY <1>0, <1>5, BudgetFrame DEF Dispatch
<1>6. CASE ReceiveInput(w) /\ UNCHANGED stepVars
  BY <1>0, <1>6, BudgetFrame DEF ReceiveInput
<1>7. CASE Repark(w) /\ UNCHANGED stepVars
  BY <1>0, <1>7, BudgetFrame DEF Repark
<1>8. CASE Requeue(w) /\ UNCHANGED stepVars
  BY <1>0, <1>8, BudgetFrame DEF Requeue
<1>9. CASE Reserve(w)
  <2>1. CASE unit' = [unit EXCEPT ![w] = TRUE] /\ Acquire /\ Goto(w, "step")
    <3>1. ~unit[w]
      BY <1>0, <1>9 DEF Reserve
    <3>2. Cardinality(Spending') = Cardinality(Spending) + 1
      BY <1>0, <2>1, <3>1, TakeUnit
    <3> QED
      BY <1>0, <1>1, <1>9, <2>1, <3>2 DEF Reserve, Acquire, QuotaConserved
  <2>2. CASE Exhausted /\ UNCHANGED unit /\ Goto(w, "blocked")
    BY <1>0, <1>9, <2>2, BudgetFrame DEF Reserve, Exhausted
  <2> QED
    BY <1>9, <2>1, <2>2 DEF Reserve
<1>10. CASE StopSlice(w)
  BY <1>0, <1>10, BudgetFrame DEF StopSlice
<1>11. CASE AwaitQuota(w)
  <2>1. CASE unit' = [unit EXCEPT ![w] = TRUE] /\ Acquire
    <3>1. ~unit[w]
      BY <1>0, <1>11 DEF AwaitQuota
    <3>2. Cardinality(Spending') = Cardinality(Spending) + 1
      BY <1>0, <2>1, <3>1, TakeUnit
    <3> QED
      BY <1>0, <1>1, <1>11, <2>1, <3>2 DEF AwaitQuota, Acquire, QuotaConserved
  <2>2. CASE Exhausted /\ UNCHANGED unit
    BY <1>0, <1>11, <2>2, BudgetFrame DEF AwaitQuota, Exhausted
  <2> QED
    BY <1>11, <2>1, <2>2 DEF AwaitQuota
<1>12. CASE Wake(w)
  <2>1. CASE unit[w] /\ unit' = [unit EXCEPT ![w] = FALSE] /\ Refund(1)
             /\ Goto(w, "requeue")
    <3>1. /\ Cardinality(Spending') = Cardinality(Spending) - 1
          /\ Cardinality(Spending) >= 1
      BY <1>0, <2>1, DropUnit
    <3> QED
      BY <1>0, <1>1, <1>12, <2>1, <3>1 DEF Wake, Refund, QuotaConserved
  <2>2. CASE ~unit[w] /\ UNCHANGED <<quotaVars, unit>> /\ Goto(w, "requeue")
    BY <1>0, <1>12, <2>2, BudgetFrame DEF Wake
  <2>3. CASE unit[w] /\ UNCHANGED <<quotaVars, unit>> /\ Goto(w, "step")
    BY <1>0, <1>12, <2>3, BudgetFrame DEF Wake
  <2> QED
    BY <1>12, <2>1, <2>2, <2>3 DEF Wake
<1>13. CASE EnterStep(w)
  BY <1>0, <1>13, BudgetFrame DEF EnterStep
<1>14. CASE ChatFails(w)
  BY <1>0, <1>14, BudgetFrame DEF ChatFails
<1>15. CASE ChatReturns(w)
  <2>1. unit[w] /\ unit' = [unit EXCEPT ![w] = FALSE] /\ Goto(w, "account")
    BY <1>0, <1>15 DEF ChatReturns
  <2>2. Cardinality(Spending') = Cardinality(Spending) - 1
    BY <1>0, <2>1, DropUnit
  <2>3. spent' = spent + 1 /\ UNCHANGED quotaVars
    BY <1>15 DEF ChatReturns
  <2> QED
    BY <1>0, <1>1, <2>1, <2>2, <2>3 DEF QuotaConserved
<1>16. CASE Account(w)
  <2>1. unit' = [unit EXCEPT ![w] = FALSE] /\ UNCHANGED spent
    BY <1>16 DEF Account
  <2>2. pc' = [pc EXCEPT ![w] = "pipe"] \/ pc' = [pc EXCEPT ![w] = "slice"]
    BY <1>16 DEF Account
  <2>3. UnitInv'
    BY <1>0, <2>1, <2>2
  <2>4. CASE unit[w] /\ Refund(1)
    <3>1. /\ Cardinality(Spending') = Cardinality(Spending) - 1
          /\ Cardinality(Spending) >= 1
      BY <1>0, <2>1, <2>4, DropUnit
    <3> QED
      BY <1>0, <1>1, <2>1, <2>3, <2>4, <3>1 DEF Refund, QuotaConserved
  <2>5. CASE ~unit[w] /\ UNCHANGED quotaVars
    <3>1. unit' = unit
      BY <1>0, <2>1, <2>5
    <3> QED
      BY <1>0, <2>1, <2>3, <2>5, <3>1, BudgetFrame
  <2> QED
    BY <1>16, <2>4, <2>5 DEF Account
<1>17. CASE Conclude(w, keep[w]) /\ UNCHANGED stepVars
  BY <1>0, <1>17, BudgetFrame DEF Conclude
<1> QED
  BY <1>2, <1>3, <1>4, <1>5, <1>6, <1>7, <1>8, <1>9, <1>10, <1>11, <1>12,
     <1>13, <1>14, <1>15, <1>16, <1>17
  DEF Worker, LoopStep

\* A caller moves the balance only by a top-up, which raises both sides.
LEMMA CallerBudget ==
    ASSUME BudgetInv, NEW c \in Callers, Caller(c), UNCHANGED stepVars
    PROVE  UnitInv' /\ QuotaConserved'
<1>0. TypeInv /\ UnitInv /\ QuotaConserved /\ Cardinality(Spending) \in Nat
  BY CountsAreNat DEF BudgetInv
<1>1. CASE TopupQuota(c)
  <2>1. UNCHANGED <<unit, pc, spent>>
    BY <1>1 DEF TopupQuota, loopVars, stepVars
  <2>2. Spending' = Spending
    BY <2>1 DEF Spending
  <2> QED
    BY <1>0, <1>1, <2>1, <2>2
    DEF TopupQuota, Topup, UnitInv, QuotaConserved, TypeInv, ApiInv, QuotaTypeOK,
        LoopTypeOK
<1>2. CASE UNCHANGED <<unit, pc, quotaVars, spent>>
  BY <1>0, <1>2, BudgetFrame DEF UnitInv
<1>3. \/ TopupQuota(c)
      \/ UNCHANGED <<unit, pc, quotaVars, spent>>
  BY DEF Caller, SpawnRegister, KillCollect, SpawnEnqueue, KillMark,
         KillDequeue, KillReap, KillReturn, ReapTerminal, Shutdown,
         ShutdownReturn, loopVars, stepVars
<1> QED
  BY <1>1, <1>2, <1>3

\* The OS budget is conserved: units that remain, units in workers' hands and
\* LLM calls made always add up to the ceiling, so no path through a step, a
\* quota wait or shutdown leaks a unit, and refund() never hits its cap.
THEOREM BudgetConserved == Spec => []QuotaConserved
<1>1. Init => BudgetInv
  <2> SUFFICES ASSUME Init PROVE BudgetInv
    OBVIOUS
  <2>1. \A w \in Workers : unit[w] = FALSE /\ pc[w] = "idle"
    BY DEF Init, LoopInit, StepInit
  <2>2. UnitInv /\ Spending = {}
    BY <2>1 DEF UnitInv, Spending
  <2>3. Cardinality(Spending) = 0
    BY <2>2, FS_EmptySet
  <2>4. remaining = total /\ total \in Nat /\ spent = 0
    BY QuotaAssumption DEF Init, LoopInit, QuotaInit
  <2> QED
    BY <2>2, <2>3, <2>4, TypeInit DEF BudgetInv, QuotaConserved
<1>2. BudgetInv /\ [Next]_vars => BudgetInv'
  <2> SUFFICES ASSUME BudgetInv, [Next]_vars PROVE BudgetInv'
    OBVIOUS
  <2>1. TypeInv'
    BY TypeStep DEF BudgetInv
  <2>2. ASSUME UNCHANGED <<unit, pc, quotaVars, spent>>
        PROVE  UnitInv' /\ QuotaConserved'
    BY <2>2, BudgetFrame DEF BudgetInv, UnitInv
  <2>3. ASSUME NEW t \in Threads, CompleteWrite(t), UNCHANGED stepVars
        PROVE  UnitInv' /\ QuotaConserved'
    BY <2>2, <2>3 DEF CompleteWrite, loopVars, stepVars
  <2>4. ASSUME UNCHANGED vars
        PROVE  UnitInv' /\ QuotaConserved'
    BY <2>2, <2>4 DEF vars, loopVars, stepVars
  <2>5. UnitInv' /\ QuotaConserved'
    BY <2>3, <2>4, WorkerBudget, CallerBudget DEF Next, ApiNext
  <2> QED
    BY <2>1, <2>5 DEF BudgetInv
<1>3. BudgetInv => QuotaConserved
  BY DEF BudgetInv
<1> QED
  BY <1>1, <1>2, <1>3, PTL DEF Spec

-----------------------------------------------------------------------------
\* Every step of a worker keeps the in-flight count exact.
LEMMA WorkerInFlight ==
    ASSUME TypeInv, InFlightExact, NEW w \in Workers, Worker(w)
    PROVE  InFlightExact'
<1>1. CASE LoopStep(w) \/ Conclude(w, keep[w]) \/ HandBack(w)
  BY <1>1, LoopInFlight DEF TypeInv, HandBack
<1>2. CASE \/ Reserve(w) \/ StopSlice(w) \/ AwaitQuota(w) \/ Wake(w)
           \/ EnterStep(w) \/ ChatFails(w) \/ ChatReturns(w) \/ Account(w)
  <2>1. pc[w] \notin {"idle", "exited"} /\ UNCHANGED inFlight
    BY <1>2
    DEF Reserve, StopSlice, AwaitQuota, Wake, EnterStep, ChatFails, ChatReturns,
        Account, At, queueVars
  <2>2. PICK p \in PC \ {"idle", "exited"} : Goto(w, p)
    BY <1>2
    DEF Reserve, StopSlice, AwaitQuota, Wake, EnterStep, ChatFails, ChatReturns,
        Account, PC
  <2> QED
    BY <2>1, <2>2, InFlightFrame DEF TypeInv, Goto
<1> QED
  BY <1>1, <1>2 DEF Worker

\* The in-flight count is exact: it is the number of workers between a pop and
\* the matching task_done(), so is_drained() is true only when the queue is
\* empty and no worker has a PCB in hand.
THEOREM InFlightCorrect == Spec => []InFlightExact
<1> DEFINE Inv == TypeInv /\ InFlightExact
<1>1. Init => Inv
  <2> SUFFICES ASSUME Init PROVE InFlightExact
    BY TypeInit
  <2>1. Dispatching = {} /\ inFlight = 0
    BY DEF Init, LoopInit, QueueInit, Dispatching
  <2> QED
    BY <2>1, FS_EmptySet DEF InFlightExact
<1>2. Inv /\ [Next]_vars => Inv'
  <2> SUFFICES ASSUME Inv, [Next]_vars PROVE InFlightExact'
    BY TypeStep
  <2>1. CASE UNCHANGED vars
    BY <2>1 DEF vars, queueVars, loopVars, InFlightExact, Dispatching
  <2> QED
    BY <2>1, WorkerInFlight, ApiInFlight DEF Next, ApiNext
<1> QED
  BY <1>1, <1>2, PTL DEF Spec

-----------------------------------------------------------------------------
\* Whoever is inside an LLM call was let in with a call to spare, and still
\* has it, because no other thread has the agent meanwhile.
CallToSpare ==
    \A w \in Workers : pc[w] = "chat" => calls[held[w]] < AgentQuota

CallsInv == TypeInv /\ DispatchInv /\ CallToSpare /\ AgentWithinQuota

\* A step that counts no call and lets nobody in keeps the bound.
LEMMA CallsFrame ==
    ASSUME CallToSpare, AgentWithinQuota, UNCHANGED calls,
           \A w \in Workers :
              pc'[w] = "chat" => pc[w] = "chat" /\ held'[w] = held[w]
    PROVE  CallToSpare' /\ AgentWithinQuota'
  BY DEF CallToSpare, AgentWithinQuota

\* Every step of a worker keeps each agent within its own quota.
LEMMA WorkerCalls ==
    ASSUME CallsInv, NEW w \in Workers, Worker(w), UNCHANGED apiVars
    PROVE  CallToSpare' /\ AgentWithinQuota'
<1>0. /\ CallToSpare /\ AgentWithinQuota /\ SingleDispatch
      /\ pc \in [Workers -> PC] /\ DOMAIN held = Workers
      /\ calls \in [Agents -> Nat] /\ AgentQuota \in Nat
      /\ \A v \in Workers : pc[v] = "chat" => held[v] \in Agents
  BY LoopAssumption
  DEF CallsInv, DispatchInv, TypeInv, ApiInv, LoopTypeOK, Grip
<1>1. CASE ChatReturns(w)
  <2>1. /\ pc[w] = "chat" /\ held[w] \in Agents
        /\ calls' = [calls EXCEPT ![held[w]] = @ + 1]
        /\ pc' = [pc EXCEPT ![w] = "account"] /\ UNCHANGED held
    BY <1>0, <1>1 DEF ChatReturns, At, Goto
  <2>2. calls[held[w]] + 1 <= AgentQuota
    BY <1>0, <2>1 DEF CallToSpare
  <2>3. AgentWithinQuota'
    BY <1>0, <2>1, <2>2 DEF AgentWithinQuota
  <2>4. ASSUME NEW v \in Workers, pc'[v] = "chat"
        PROVE  calls'[held'[v]] < AgentQuota
    <3>1. v # w /\ pc[v] = "chat"
      BY <1>0, <2>1, <2>4
    <3>2. v \in Threads /\ w \in Threads /\ held[v] \in Agents
      BY <1>0, <3>1, LoopAssumption
    <3>3. Holds(v, held[v]) /\ Holds(w, held[w])
      BY <2>1, <3>1 DEF Holds, LetGo
    <3>4. held[v] # held[w]
      BY <1>0, <3>1, <3>2, <3>3 DEF SingleDispatch
    <3> QED
      BY <1>0, <2>1, <3>1, <3>2, <3>4 DEF CallToSpare
  <2> QED
    BY <2>3, <2>4 DEF CallToSpare
<1>2. CASE EnterStep(w)
  <2>1. UNCHANGED <<calls, held>>
    BY <1>2 DEF EnterStep, agentVars
  <2>2. \/ pc' = [pc EXCEPT ![w] = "account"]
        \/ pc' = [pc EXCEPT ![w] = "chat"] /\ ~(calls[held[w]] >= AgentQuota)
    BY <1>2 DEF EnterStep, Goto, Refused
  <2>3. held[w] \in Agents
    BY <1>2 DEF EnterStep, At, CallsInv, TypeInv, ApiInv, Grip
  <2>4. CallToSpare'
    BY <1>0, <2>1, <2>2, <2>3 DEF CallToSpare
  <2> QED
    BY <1>0, <2>1, <2>4 DEF AgentWithinQuota
<1>3. CASE ~ChatReturns(w) /\ ~EnterStep(w)
  <2>1. UNCHANGED calls
    BY <1>3
    DEF Worker, LoopStep, Pick, Exit, Dispatch, ReceiveInput, Repark, Requeue,
        Conclude, HandBack, Finish, Reserve, StopSlice, AwaitQuota, Wake, ChatFails,
        Account, agentVars
  <2>2. /\ pc'[w] # "chat"
        /\ \A v \in Workers : v # w => pc'[v] = pc[v] /\ held'[v] = held[v]
    BY <1>0, <1>3
    DEF Worker, LoopStep, Pick, Exit, Dispatch, ReceiveInput, Repark, Requeue,
        Conclude, HandBack, Finish, Reserve, StopSlice, AwaitQuota, Wake, ChatFails,
        Account, Goto
  <2> QED
    BY <1>0, <2>1, <2>2, CallsFrame
<1> QED
  BY <1>1, <1>2, <1>3

\* No agent makes more LLM calls than its own quota allows: the test of
\* quota_remaining at the head of the step runner still holds when the call is
\* counted, however many workers, kills and re-queues come in between.
THEOREM QuotaPerAgent == Spec => []AgentWithinQuota
<1>1. Init => CallsInv
  <2> SUFFICES ASSUME Init PROVE CallsInv
    OBVIOUS
  <2>1. CallToSpare /\ AgentWithinQuota
    BY LoopAssumption DEF Init, LoopInit, CallToSpare, AgentWithinQuota
  <2> QED
    BY <2>1, TypeInit, ApiDispatchInit DEF Init, TypeInv, DispatchInv, CallsInv
<1>2. CallsInv /\ [Next]_vars => CallsInv'
  <2> SUFFICES ASSUME CallsInv, [Next]_vars PROVE CallToSpare' /\ AgentWithinQuota'
    BY DispatchStep DEF CallsInv
  <2>1. ASSUME UNCHANGED <<calls, pc, held>>
        PROVE  CallToSpare' /\ AgentWithinQuota'
    BY <2>1, CallsFrame DEF CallsInv
  <2>2. ASSUME NEW c \in Callers, Caller(c) PROVE UNCHANGED <<calls, pc, held>>
    BY <2>2
    DEF Caller, SpawnRegister, KillCollect, SpawnEnqueue, KillMark, KillDequeue,
        KillReap, KillReturn, ReapTerminal, TopupQuota, Shutdown, ShutdownReturn,
        loopVars, agentVars
  <2>3. ASSUME NEW t \in Threads, CompleteWrite(t)
        PROVE  UNCHANGED <<calls, pc, held>>
    BY <2>3 DEF CompleteWrite, loopVars, agentVars
  <2>4. CASE UNCHANGED vars
    BY <2>1, <2>4 DEF vars, loopVars, agentVars
  <2> QED
    BY <2>1, <2>2, <2>3, <2>4, WorkerCalls DEF Next, ApiNext
<1>3. CallsInv => AgentWithinQuota
  BY DEF CallsInv
<1> QED
  BY <1>1, <1>2, <1>3, PTL DEF Spec

-----------------------------------------------------------------------------
(***************************************************************************)
(* The life of an agent, when transition() is not interrupted              *)
(***************************************************************************)
\* A worker that does not go on with its agent has finished it, or stops.
KeepInv ==
    \A w \in Workers :
        pc[w] \in {"account", "pipe"} => keep[w] \/ IsTerminal(held[w]) \/ stop

ThreadLifeInv == TypeInv /\ LifeInv /\ KeepInv /\ NoAgentLost

\* What a worker has decided about its agent is not undone by others.
LEMMA KeepFrame ==
    ASSUME TypeInv, KeepInv, LegalStep, stop => stop',
           \A w \in Workers :
              pc'[w] \in {"account", "pipe"} =>
                 \/ keep'[w] \/ state'[held'[w]] \in TerminalStates \/ stop'
                 \/ pc[w] \in {"account", "pipe"} /\ held'[w] = held[w] /\ keep'[w] = keep[w]
    PROVE  KeepInv'
<1> SUFFICES ASSUME NEW w \in Workers, pc'[w] \in {"account", "pipe"},
                    pc[w] \in {"account", "pipe"}, held'[w] = held[w],
                    keep'[w] = keep[w], IsTerminal(held[w])
             PROVE  state'[held'[w]] \in TerminalStates
  BY DEF KeepInv, IsTerminal
<1>1. held[w] \in Agents
  BY DEF TypeInv, ApiInv, Grip
<1> QED
  BY <1>1, LegalKeeps DEF IsTerminal

\* Every step of a worker conserves the agents.
LEMMA WorkerLife ==
    ASSUME ThreadLifeInv, ~PreemptInTransition, NEW w \in Workers, Worker(w),
           UNCHANGED apiVars
    PROVE  Conserves /\ Quiet' /\ Known' /\ Marked' /\ KeepInv'
<1>0. /\ TypeInv /\ LifeInv /\ KeepInv /\ PcbTypeOK
      /\ pc \in [Workers -> PC] /\ keep \in [Workers -> BOOLEAN]
      /\ DOMAIN held = Workers
      /\ pc[w] \notin {"idle", "exited"} => held[w] \in Agents
      /\ pc[w] \notin {"idle", "exited"} => state[held[w]] # "NEW"
  BY DEF ThreadLifeInv, LifeInv, Known, TypeInv, ApiInv, Grip, LoopTypeOK, StepTypeOK
<1>l. UNCHANGED state => LegalStep
  BY DEF LegalStep
<1>t. ASSUME NEW s \in {"BLOCKED", "RUNNING", "TIMEOUT", "ERROR", "DONE"},
             pc[w] \notin {"idle", "exited"}, Transition(w, held[w], s)
      PROVE  /\ UNCHANGED pending /\ LegalStep
             /\ s \in TerminalStates => state'[held[w]] \in TerminalStates
  <2>1. s \in AgentState \ {"NEW"}
    BY DEF AgentState, LiveStates, TerminalStates
  <2>2. UNCHANGED pending /\ LegalStep
    BY <1>0, <1>t, <2>1, TransitionAtomic, TransitionLegal
  <2>3. s \in TerminalStates => state'[held[w]] \in TerminalStates
    BY <1>0, <1>t, TransitionAtomic DEF IsTerminal
  <2> QED
    BY <2>2, <2>3
<1>s. {"TIMEOUT", "ERROR", "DONE", "ZOMBIE"} \subseteq TerminalStates
  BY DEF TerminalStates
<1>1. CASE LoopStep(w) \/ Conclude(w, keep[w]) \/ HandBack(w)
  <2>1. Conserves /\ Quiet' /\ Known' /\ Marked'
    BY <1>0, <1>1, LoopConserves DEF KeepInv, HandBack
  <2>2. /\ pc'[w] \notin {"account", "pipe"}
        /\ \A v \in Workers : v # w => pc'[v] = pc[v] /\ held'[v] = held[v]
                                       /\ keep'[v] = keep[v]
    BY <1>0, <1>1
    DEF Worker, LoopStep, Pick, Exit, Dispatch, ReceiveInput, Repark, Requeue,
        Conclude, HandBack, Finish, Reserve, StopSlice, AwaitQuota, Wake, EnterStep,
        ChatFails, ChatReturns, Account, At, Goto, stepVars
  <2>3. KeepInv'
    BY <1>0, <2>1, <2>2, KeepFrame DEF Conserves
  <2> QED
    BY <2>1, <2>3
<1>m. ASSUME NEW p \in PC \ (LetGo \cup {"idle", "exited"}), pc[w] \notin LetGo,
             Goto(w, p), UNCHANGED <<queue, pending, held, stop>>, LegalStep,
             \A v \in Workers : v # w => keep'[v] = keep[v],
             p \in {"account", "pipe"} =>
                keep'[w] \/ state'[held[w]] \in TerminalStates \/ stop
      PROVE  Conserves /\ Quiet' /\ Known' /\ Marked' /\ KeepInv'
  <2>1. Conserves /\ Quiet' /\ Known' /\ Marked'
    BY <1>0, <1>m, WorkerConserves DEF Goto
  <2>2. KeepInv'
    BY <1>0, <1>m, KeepFrame DEF Goto
  <2> QED
    BY <2>1, <2>2
<1> USE DEF At, PC, LetGo, queueVars, pcbVars, stepVars
<1>2. CASE Reserve(w)
  BY <1>0, <1>2, <1>l, <1>m, <1>t DEF Reserve
<1>3. CASE StopSlice(w)
  BY <1>0, <1>3, <1>l, <1>m DEF StopSlice
<1>4. CASE AwaitQuota(w)
  BY <1>0, <1>4, <1>l, <1>m DEF AwaitQuota
<1>5. CASE Wake(w)
  BY <1>0, <1>5, <1>l, <1>m DEF Wake
<1>6. CASE EnterStep(w)
  BY <1>0, <1>6, <1>l, <1>m, <1>s, <1>t DEF EnterStep, IsTerminal
<1>7. CASE ChatFails(w)
  BY <1>0, <1>7, <1>m, <1>s, <1>t, LoopAssumption DEF ChatFails
<1>8. CASE ChatReturns(w)
  <2>1. Outcomes(held[w]) \ {"TOOL"} \subseteq {"DONE", "ERROR"}
    BY DEF Outcomes
  <2> QED
    BY <1>0, <1>8, <1>l, <1>m, <1>s, <1>t, <2>1 DEF ChatReturns
<1>9. CASE Account(w)
  <2>1. /\ pc[w] = "account" /\ UNCHANGED <<state, pending, queue, held, stop, keep>>
        /\ Goto(w, "pipe") \/ Goto(w, "slice")
    BY <1>9 DEF Account
  <2>2. keep[w] \/ state[held[w]] \in TerminalStates \/ stop
    BY <1>0, <2>1 DEF KeepInv, IsTerminal
  <2> QED
    BY <1>l, <1>m, <2>1, <2>2
<1> QED
  BY <1>1, <1>2, <1>3, <1>4, <1>5, <1>6, <1>7, <1>8, <1>9 DEF Worker

\* The inductive step: every step of the kernel conserves the agents.
LEMMA LifeStep ==
    ASSUME ThreadLifeInv, ~PreemptInTransition, [Next]_vars
    PROVE  ThreadLifeInv' /\ LegalStep
<1>0. TypeInv /\ LifeInv /\ KeepInv /\ NoAgentLost
  BY DEF ThreadLifeInv
<1>1. TypeInv'
  BY <1>0, TypeStep
<1>2. ASSUME NEW w \in Workers, Worker(w), UNCHANGED apiVars
      PROVE  Conserves /\ Quiet' /\ Known' /\ Marked' /\ KeepInv'
  BY <1>2, WorkerLife
<1>3. ASSUME NEW c \in Callers, Caller(c), UNCHANGED stepVars
      PROVE  Conserves /\ Quiet' /\ Known' /\ Marked' /\ KeepInv'
  <2>1. Conserves /\ Quiet' /\ Known' /\ Marked'
    BY <1>0, <1>3, CallerConserves
  <2>2. UNCHANGED <<pc, held, keep>>
    BY <1>3
    DEF Caller, SpawnRegister, KillCollect, SpawnEnqueue, KillMark, KillDequeue,
        KillReap, KillReturn, ReapTerminal, TopupQuota, Shutdown, ShutdownReturn,
        loopVars, stepVars
  <2>3. KeepInv'
    BY <1>0, <2>1, <2>2, KeepFrame DEF Conserves
  <2> QED
    BY <2>1, <2>3
<1>4. CASE \E t \in Threads : CompleteWrite(t)
  BY <1>0, <1>4, QuietNoWrite DEF LifeInv
<1>5. CASE UNCHANGED vars
  BY <1>0, <1>1, <1>5
  DEF vars, pcbVars, queueVars, loopVars, stepVars, apiVars, callerVars, tableVars,
      ThreadLifeInv, LifeInv, TypeInv, Quiet, Settled, Known, Marked, KeepInv,
      NoAgentLost, Abandoned, IsTerminal, Queued, Holds, LegalStep
<1>6. CASE Conserves /\ Quiet' /\ Known' /\ Marked' /\ KeepInv'
  <2>1. born' \subseteq Agents /\ LegalStep
    BY <1>1, <1>6 DEF TypeInv, ApiInv, ApiTypeOK, Conserves
  <2>2. NoAgentLost'
    BY <1>0, <1>6, <2>1, ConservedNotLost DEF LifeInv
  <2> QED
    BY <1>1, <1>6, <2>1, <2>2 DEF ThreadLifeInv, LifeInv, TypeInv
<1> QED
  BY <1>2, <1>3, <1>4, <1>5, <1>6 DEF Next, ApiNext

\* The inductive invariant of the life of agents.
LEMMA LifeCorrect ==
    ASSUME ~PreemptInTransition
    PROVE  Spec => []ThreadLifeInv
<1>1. Init => ThreadLifeInv
  <2> SUFFICES ASSUME Init PROVE ThreadLifeInv
    OBVIOUS
  <2>1. KeepInv
    BY DEF Init, LoopInit, KeepInv
  <2> QED
    BY <2>1, TypeInit, LifeInit DEF Init, ThreadLifeInv, LifeInv, TypeInv
<1>2. ThreadLifeInv /\ [Next]_vars => ThreadLifeInv'
  BY LifeStep
<1> QED
  BY <1>1, <1>2, PTL DEF Spec

\* No agent is forgotten: while the pool runs, every spawned agent that is not
\* finished is on the queue or in some thread's hands, through kills that race
\* with pops, quota waits, re-parks and yields.
THEOREM NothingForgotten ==
    ASSUME ~PreemptInTransition
    PROVE  Spec => []NoAgentLost
<1>1. ThreadLifeInv => NoAgentLost
  BY DEF ThreadLifeInv
<1> QED
  BY <1>1, LifeCorrect, PTL

\* Agents change state along the documented edges only, and never again once
\* they are finished.
THEOREM LegalEdgesOnly ==
    ASSUME ~PreemptInTransition
    PROVE  Spec => OnlyLegalTransitions
<1>1. ThreadLifeInv /\ [Next]_vars
        => [\A a \in Agents :
               state'[a] # state[a] => state'[a] \in LegalTransitions(state[a])]_pcbVars
  BY LifeStep DEF LegalStep
<1> QED
  BY <1>1, LifeCorrect, PTL DEF Spec, OnlyLegalTransitions

\* The inductive step for the pipes.
LEMMA PipeStep ==
    ASSUME ThreadLifeInv, DispatchInv, PipedInv, ~PreemptInTransition, [Next]_vars
    PROVE  PipedInv'
<1>0. TypeInv /\ ApiInv /\ LifeInv /\ Quiet /\ ThreadLifeInv' /\ Quiet'
  BY LifeStep DEF ThreadLifeInv, LifeInv
<1>1. ASSUME NEW w \in Workers, Worker(w), UNCHANGED apiVars PROVE PipedInv'
  <2>1. Conserves
    BY <1>1, WorkerLife
  <2>2. CASE LoopStep(w) \/ Conclude(w, keep[w]) \/ HandBack(w)
    BY <1>0, <1>1, <2>1, <2>2, LoopPipe DEF HandBack
  <2>3. CASE \/ Reserve(w) \/ StopSlice(w) \/ AwaitQuota(w) \/ Wake(w)
             \/ EnterStep(w) \/ ChatFails(w) \/ ChatReturns(w) \/ Account(w)
    <3>1. UNCHANGED <<mailbox, inputOf>>
      BY <2>3
      DEF Reserve, StopSlice, AwaitQuota, Wake, EnterStep, ChatFails, ChatReturns,
          Account, busVars, agentVars
    <3> QED
      BY <2>1, <3>1, PipeFrame
  <2> QED
    BY <1>1, <2>2, <2>3 DEF Worker
<1>2. ASSUME NEW c \in Callers, Caller(c) PROVE PipedInv'
  BY <1>0, <1>2, CallerConserves, CallerPipe
<1>3. CASE \E t \in Threads : CompleteWrite(t)
  BY <1>0, <1>3, QuietNoWrite
<1>4. CASE UNCHANGED vars
  BY <1>4
  DEF vars, pcbVars, queueVars, busVars, loopVars, agentVars, apiVars, callerVars,
      tableVars, PipedInv, SentInv, BoxInv, Sent, Has, Queued, Holds
<1> QED
  BY <1>1, <1>2, <1>3, <1>4 DEF Next, ApiNext

\* Only results of agents that ended DONE are piped, and none twice, although
\* an agent is dispatched many times and kills race with the pipe.
THEOREM PipesCarryDone ==
    ASSUME ~PreemptInTransition
    PROVE  Spec => []PipedOnceByDone
<1> DEFINE Inv == TypeInv /\ DispatchInv /\ PipedInv
<1>1. Init => Inv
  BY TypeInit, ApiDispatchInit, PipeInit DEF Init, TypeInv, DispatchInv
<1>2. ThreadLifeInv /\ Inv /\ [Next]_vars => Inv'
  BY DispatchStep, PipeStep
<1>3. Inv => PipedOnceByDone
  BY PipedInvSuffices DEF TypeInv
<1> QED
  BY <1>1, <1>2, <1>3, LifeCorrect, PTL DEF Spec

\* When kill() has returned True everything it had collected is finished for
\* good: its second look finds every victim again, and no worker in the middle
\* of a step revives one, unless reap_terminal() runs during the kill().
THEOREM KillReachesAll ==
    ASSUME ~PreemptInTransition, NoReapAmidKill
    PROVE  Spec => []SlainAreDead
<1>1. Init => SlainInv
  BY SlainInit DEF Init
<1>2. ThreadLifeInv /\ SlainInv /\ [Next]_vars => SlainInv'
  <2> SUFFICES ASSUME ThreadLifeInv, SlainInv, [Next]_vars PROVE SlainInv'
    OBVIOUS
  <2>1. LegalStep /\ LifeInv /\ Quiet
    BY LifeStep DEF ThreadLifeInv, LifeInv
  <2>2. CASE UNCHANGED apiVars
    BY <2>1, <2>2, SlainFrame
  <2>3. CASE \E c \in Callers : Caller(c)
    BY <2>1, <2>3, CallerSlain
  <2>4. CASE \E t \in Threads : CompleteWrite(t)
    BY <2>1, <2>4, QuietNoWrite
  <2> QED
    BY <2>2, <2>3, <2>4 DEF Next, ApiNext, vars
<1>3. SlainInv => SlainAreDead
  BY DEF SlainInv
<1> QED
  BY <1>1, <1>2, <1>3, LifeCorrect, PTL DEF Spec
=============================================================================
