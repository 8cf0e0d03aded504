----------------------------- MODULE ApiProofs -----------------------------
(***************************************************************************)
(* Proofs about what the two backends share: the operators of the model,   *)
(* the worker loop and the kernel's API.  For any sets of agents, workers  *)
(* and callers, any wiring, scheduler and quota, and with thread switches  *)
(* inside transition() allowed or not.                                     *)
(***************************************************************************)
EXTENDS ApiProps, ListProofs

-----------------------------------------------------------------------------
(***************************************************************************)
(* The operators the model is built from                                   *)
(***************************************************************************)
\* transition() keeps the PCBs well-formed.
LEMMA TransitionType ==
    ASSUME PcbTypeOK, NEW t \in Threads, NEW a \in Agents,
           NEW s \in AgentState, Transition(t, a, s)
    PROVE  PcbTypeOK'
<1> DEFINE rec == [agent |-> a, to |-> s, enqueue |-> FALSE]
<1>1. rec \in PendingWrite
  BY DEF PendingWrite
<1> HIDE DEF rec
<1>2. \/ UNCHANGED pcbVars
      \/ state' = [state EXCEPT ![a] = s] /\ UNCHANGED pending
      \/ pending' = [pending EXCEPT ![t] = rec] /\ UNCHANGED state
  BY DEF Transition, rec
<1>3. state' \in [Agents -> AgentState]
  BY <1>2 DEF PcbTypeOK, pcbVars
<1>4. pending' \in [Threads -> PendingWrite \cup {NoWrite}]
  BY <1>1, <1>2 DEF PcbTypeOK, pcbVars
<1> QED
  BY <1>3, <1>4 DEF PcbTypeOK

\* put() keeps the PCBs and the queue well-formed.
LEMMA PutType ==
    ASSUME PcbTypeOK, QueueTypeOK, NEW t \in Threads, NEW a \in Agents,
           Put(t, a)
    PROVE  PcbTypeOK' /\ QueueTypeOK'
<1> DEFINE rec == [agent |-> a, to |-> "READY", enqueue |-> TRUE]
<1>1. rec \in PendingWrite /\ "READY" \in AgentState
  BY DEF PendingWrite, AgentState, LiveStates
<1> HIDE DEF rec
<1>2. /\ \/ UNCHANGED pcbVars
         \/ state' = [state EXCEPT ![a] = "READY"] /\ UNCHANGED pending
         \/ pending' = [pending EXCEPT ![t] = rec] /\ UNCHANGED state
      /\ queue' = queue \/ queue' = Append(queue, a)
      /\ UNCHANGED inFlight
  BY DEF Put, rec, pcbVars
<1>3. PcbTypeOK'
  BY <1>1, <1>2 DEF PcbTypeOK, pcbVars
<1>4. QueueTypeOK'
  BY <1>2 DEF QueueTypeOK
<1> QED
  BY <1>3, <1>4

\* The delayed assignment, and append, keep them well-formed too.
LEMMA FinishWriteType ==
    ASSUME PcbTypeOK, QueueTypeOK, NEW t \in Threads, FinishWrite(t)
    PROVE  PcbTypeOK' /\ QueueTypeOK'
<1>1. pending[t] \in PendingWrite
  BY DEF PcbTypeOK, FinishWrite, Settled
<1>2. pending[t].agent \in Agents /\ pending[t].to \in AgentState
  BY <1>1 DEF PendingWrite
<1> QED
  BY <1>2 DEF PcbTypeOK, QueueTypeOK, FinishWrite

\* Popping, by the scheduler or by kill(), and task_done() keep the queue
\* well-formed.
LEMMA QueueOpsType ==
    ASSUME QueueTypeOK
    PROVE  /\ \A i \in 1 .. Len(queue) : PopSelected(i) => QueueTypeOK'
           /\ \A a : PopAgent(a) => QueueTypeOK'
           /\ TaskDone => QueueTypeOK'
<1>1. \A i \in 1 .. Len(queue) : RemoveAt(queue, i) \in Seq(Agents)
  BY RemoveAtProperties DEF QueueTypeOK
<1> QED
  BY <1>1 DEF QueueTypeOK, PopSelected, PopAgent, TaskDone

\* Every operation on the quota keeps 0 <= remaining <= total.
LEMMA QuotaOpsType ==
    ASSUME QuotaTypeOK
    PROVE  /\ Acquire => QuotaTypeOK'
           /\ Exhausted => QuotaTypeOK'
           /\ \A n \in Nat : Refund(n) => QuotaTypeOK'
           /\ \A n \in Nat : AcquireUpTo(n) => QuotaTypeOK'
           /\ Topup => QuotaTypeOK'
  BY DEF QuotaTypeOK, Acquire, AcquireUpTo, Grant, Exhausted, Refund, Topup,
         quotaVars

\* Every operation on the bus keeps the mailboxes well-formed.
LEMMA BusOpsType ==
    ASSUME BusTypeOK, NEW a \in Agents
    PROVE  /\ Listen(a) => BusTypeOK'
           /\ Receive(a) => BusTypeOK' /\ Head(mailbox[a]) \in Agents
           /\ ReceiveNothing(a) => BusTypeOK'
           /\ \A b \in Agents : Send(a, b) => BusTypeOK'
<1>1. mailbox[a] \in Seq(Agents)
  BY DEF BusTypeOK
<1>2. Receive(a) => BusTypeOK' /\ Head(mailbox[a]) \in Agents
  <2> SUFFICES ASSUME Receive(a) PROVE BusTypeOK' /\ Head(mailbox[a]) \in Agents
    OBVIOUS
  <2>1. Tail(mailbox[a]) \in Seq(Agents) /\ Head(mailbox[a]) \in Agents
    BY <1>1 DEF Receive
  <2> QED
    BY <2>1 DEF BusTypeOK, Receive
<1>3. ASSUME NEW b \in Agents, Send(a, b) PROVE BusTypeOK'
  <2>1. Append(mailbox[b], a) \in Seq(Agents)
    BY DEF BusTypeOK
  <2> QED
    BY <1>3, <2>1 DEF BusTypeOK, Send
<1>4. Listen(a) => BusTypeOK'
  BY DEF BusTypeOK, Listen
<1>5. ReceiveNothing(a) => BusTypeOK'
  BY DEF BusTypeOK, ReceiveNothing, busVars
<1> QED
  BY <1>2, <1>3, <1>4, <1>5

\* So does dropping mailboxes.
LEMMA DropType ==
    ASSUME BusTypeOK, NEW S, Drop(S)
    PROVE  BusTypeOK'
<1>1. \A a \in Agents : (IF a \in S THEN <<>> ELSE mailbox[a]) \in Seq(Agents)
  BY DEF BusTypeOK
<1> QED
  BY <1>1 DEF BusTypeOK, Drop

-----------------------------------------------------------------------------
(***************************************************************************)
(* Type correctness                                                        *)
(***************************************************************************)
\* A worker past its pop has a PCB, and so has a caller inside an operation:
\* what the types need to be inductive, since their PCB goes into pending.
Grip ==
    /\ \A w \in Workers : pc[w] \notin {"idle", "exited"} => held[w] \in Agents
    /\ \A c \in Callers :
          cpc[c] \notin {"free", "slay", "join"} => target[c] \in Agents

ApiInv ==
    /\ PcbTypeOK /\ QueueTypeOK /\ QuotaTypeOK
    /\ BusTypeOK /\ LoopTypeOK /\ ApiTypeOK
    /\ Grip

\* The initial states are well-formed.
LEMMA ApiTypeInit ==
    ASSUME PcbInit, QueueInit, QuotaInit, BusInit, LoopInit, ApiInit
    PROVE  ApiInv
<1>1. PcbTypeOK
  BY DEF PcbInit, PcbTypeOK, AgentState, LiveStates
<1>2. QueueTypeOK /\ QuotaTypeOK
  BY QuotaAssumption DEF QueueInit, QueueTypeOK, QuotaInit, QuotaTypeOK
<1>3. BusTypeOK
  BY DEF BusInit, BusTypeOK
<1>4. LoopTypeOK
  <2>1. 0 \in 0 .. MaxPolls
    BY LoopAssumption
  <2> QED
    BY <2>1 DEF LoopInit, LoopTypeOK, PC
<1>5. ApiTypeOK /\ Grip
  BY DEF LoopInit, ApiInit, ApiTypeOK, Grip
<1> QED
  BY <1>1, <1>2, <1>3, <1>4, <1>5 DEF ApiInv

\* What an operation leaves alone keeps its type.
LEMMA FrameType ==
    ASSUME ApiInv
    PROVE  /\ UNCHANGED pcbVars => PcbTypeOK'
           /\ UNCHANGED queueVars => QueueTypeOK'
           /\ UNCHANGED quotaVars => QuotaTypeOK'
           /\ UNCHANGED busVars => BusTypeOK'
  BY DEF ApiInv, PcbTypeOK, QueueTypeOK, QuotaTypeOK, BusTypeOK,
         pcbVars, queueVars, quotaVars, busVars

\* A step of a worker inside its dispatch keeps the types when the components
\* it calls do.
LEMMA MoveType ==
    ASSUME ApiInv, NEW w \in Workers, NEW p \in PC,
           pc[w] \notin {"idle", "exited"}, Goto(w, p),
           UNCHANGED <<held, inputOf, polls, stop, apiVars>>,
           PcbTypeOK', QueueTypeOK', QuotaTypeOK', BusTypeOK',
           calls' \in [Agents -> Nat], spent' \in Nat
    PROVE  ApiInv'
  BY DEF ApiInv, LoopTypeOK, ApiTypeOK, Grip, Goto, apiVars, callerVars, tableVars

\* The steps of the loop that both pools take, and their ends, keep the types.
LEMMA LoopType ==
    ASSUME ApiInv, NEW w \in Workers, UNCHANGED apiVars, NEW keepGoing \in BOOLEAN,
           LoopStep(w) \/ Finish(w) \/ Conclude(w, keepGoing)
    PROVE  ApiInv'
<1>0. /\ w \in Threads
      /\ PcbTypeOK /\ QueueTypeOK /\ QuotaTypeOK
      /\ BusTypeOK /\ LoopTypeOK /\ ApiTypeOK /\ Grip
  BY LoopAssumption DEF ApiInv
<1>1. ApiTypeOK'
  BY <1>0 DEF ApiTypeOK, apiVars, callerVars, tableVars
<1>2. SUFFICES /\ PcbTypeOK' /\ QueueTypeOK' /\ QuotaTypeOK'
               /\ BusTypeOK' /\ LoopTypeOK'
               /\ \A v \in Workers :
                     pc'[v] \notin {"idle", "exited"} => held'[v] \in Agents
  BY <1>0, <1>1 DEF ApiInv, Grip, apiVars, callerVars
<1>s. {"WAITING", "ERROR", "BLOCKED", "RUNNING", "TIMEOUT", "DONE"}
        \subseteq AgentState
  BY DEF AgentState, LiveStates, TerminalStates
<1>t. \A s \in {"WAITING", "ERROR", "BLOCKED", "RUNNING", "TIMEOUT", "DONE"} :
         held[w] \in Agents /\ Transition(w, held[w], s) => PcbTypeOK'
  BY <1>0, <1>s, TransitionType
<1> USE DEF At, Goto, LoopTypeOK, PC, Grip, agentVars
<1>3. CASE Pick(w)
  <2>1. PICK i \in 1 .. Len(queue) :
           PopSelected(i) /\ held' = [held EXCEPT ![w] = queue[i]]
    BY <1>3 DEF Pick
  <2>2. QueueTypeOK' /\ queue[i] \in Agents
    BY <1>0, <2>1, QueueOpsType DEF QueueTypeOK
  <2> QED
    BY <1>0, <1>3, <2>1, <2>2, FrameType DEF Pick
<1>4. CASE Finish(w)
  BY <1>0, <1>4, QueueOpsType, FrameType DEF Finish
<1>5. CASE Exit(w)
  BY <1>0, <1>5, FrameType DEF Exit
<1>6. CASE Dispatch(w)
  <2>1. held[w] \in Agents
    BY <1>0, <1>6 DEF Dispatch
  <2> QED
    BY <1>0, <1>6, <2>1, BusOpsType, FrameType DEF Dispatch
<1>7. CASE ReceiveInput(w)
  <2>1. held[w] \in Agents
    BY <1>0, <1>7 DEF ReceiveInput
  <2> QED
    BY <1>0, <1>7, <2>1, BusOpsType, FrameType DEF ReceiveInput
<1>8. CASE Repark(w)
  <2>1. held[w] \in Agents
    BY <1>0, <1>8 DEF Repark
  <2>2. PcbTypeOK' /\ BusTypeOK' /\ QueueTypeOK' /\ QuotaTypeOK'
    BY <1>0, <1>8, <1>t, <2>1, BusOpsType, FrameType DEF Repark
  <2> QED
    BY <1>0, <1>8, <2>1, <2>2, LoopAssumption DEF Repark
<1>9. CASE Requeue(w)
  <2>1. held[w] \in Agents
    BY <1>0, <1>9 DEF Requeue
  <2> QED
    BY <1>0, <1>9, <2>1, PutType, FrameType DEF Requeue
<1>10. CASE Conclude(w, keepGoing)
  <2>1. held[w] \in Agents
    BY <1>0, <1>10 DEF Conclude
  <2>2. Forwards(held[w]) => PipeTo[held[w]] \in Agents
    BY <2>1, BusAssumption DEF Forwards
  <2>3. BusTypeOK'
    BY <1>0, <1>10, <2>1, <2>2, BusOpsType, FrameType DEF Conclude
  <2> QED
    BY <1>0, <1>10, <2>1, <2>3, FrameType DEF Conclude
<1> QED
  BY <1>3, <1>4, <1>5, <1>6, <1>7, <1>8, <1>9, <1>10 DEF LoopStep

\* Every step of a caller keeps the types.
LEMMA CallerType ==
    ASSUME ApiInv, NEW c \in Callers, Caller(c)
    PROVE  ApiInv'
<1>0. /\ c \in Threads
      /\ PcbTypeOK /\ QueueTypeOK /\ QuotaTypeOK
      /\ BusTypeOK /\ LoopTypeOK /\ ApiTypeOK /\ Grip
  BY ApiAssumption DEF ApiInv
<1>1. \A a : Descendants(a) \subseteq Agents
  BY DEF Descendants
<1>s. "WAITING" \in AgentState /\ "ZOMBIE" \in AgentState
  BY DEF AgentState, LiveStates, TerminalStates
<1>t. \A a \in Agents, s \in {"WAITING", "ZOMBIE"} :
         Transition(c, a, s) => PcbTypeOK'
  BY <1>0, <1>s, TransitionType
<1>p. UNCHANGED loopVars =>
         /\ LoopTypeOK'
         /\ \A v \in Workers :
               pc'[v] \notin {"idle", "exited"} => held'[v] \in Agents
  BY <1>0 DEF LoopTypeOK, Grip, loopVars, agentVars
<1> USE DEF ApiInv, CallerAt, Open, CallerGoto, ApiTypeOK, Grip,
            callerVars, tableVars, apiVars
<1>2. ASSUME NEW a \in Agents, SpawnRegister(c, a) PROVE ApiInv'
  <2>1. PcbTypeOK'
    BY <1>0, <1>2, <1>t, FrameType DEF SpawnRegister
  <2> QED
    BY <1>0, <1>2, <1>p, <2>1, FrameType DEF SpawnRegister
<1>3. ASSUME NEW a \in Agents, KillCollect(c, a) PROVE ApiInv'
  BY <1>0, <1>1, <1>3, <1>p, FrameType DEF KillCollect
<1>4. CASE SpawnEnqueue(c)
  <2>1. target[c] \in Agents
    BY <1>0, <1>4 DEF SpawnEnqueue
  <2>2. PcbTypeOK' /\ QueueTypeOK'
    BY <1>0, <1>4, <2>1, PutType DEF SpawnEnqueue
  <2> QED
    BY <1>0, <1>4, <1>p, <2>2, FrameType DEF SpawnEnqueue
<1>5. CASE KillMark(c)
  <2>1. target[c] \in Agents
    BY <1>0, <1>5 DEF KillMark
  <2>2. PcbTypeOK'
    BY <1>5, <1>t, <2>1 DEF KillMark
  <2> QED
    BY <1>0, <1>5, <1>p, <2>1, <2>2, FrameType DEF KillMark
<1>6. CASE KillDequeue(c)
  BY <1>0, <1>1, <1>6, <1>p, QueueOpsType, FrameType DEF KillDequeue
<1>7. CASE KillReap(c)
  <2>1. PICK d \in todo[c] : /\ Transition(c, d, "ZOMBIE")
                             /\ todo' = [todo EXCEPT ![c] = @ \ {d}]
    BY <1>7 DEF KillReap
  <2>2. d \in Agents
    BY <1>0
  <2>3. PcbTypeOK'
    BY <1>t, <2>1, <2>2
  <2> QED
    BY <1>0, <1>7, <1>p, <2>1, <2>3, FrameType DEF KillReap
<1>8. CASE KillReturn(c)
  <2>1. BusTypeOK'
    BY <1>0, <1>8, DropType DEF KillReturn
  <2> QED
    BY <1>0, <1>8, <1>p, <2>1, FrameType DEF KillReturn
<1>9. CASE ReapTerminal(c)
  <2>1. BusTypeOK'
    BY <1>0, <1>9, DropType DEF ReapTerminal
  <2> QED
    BY <1>0, <1>9, <1>p, <2>1, FrameType DEF ReapTerminal
<1>10. CASE TopupQuota(c)
  BY <1>0, <1>10, <1>p, QuotaOpsType, FrameType DEF TopupQuota
<1>11. CASE Shutdown(c)
  <2>1. LoopTypeOK' /\ UNCHANGED <<pc, held>>
    BY <1>0, <1>11 DEF Shutdown, LoopTypeOK, agentVars
  <2> QED
    BY <1>0, <1>11, <2>1, FrameType DEF Shutdown
<1>12. CASE ShutdownReturn(c)
  <2>1. BusTypeOK'
    BY <1>0, <1>12, DropType DEF ShutdownReturn
  <2> QED
    BY <1>0, <1>12, <1>p, <2>1, FrameType DEF ShutdownReturn
<1> QED
  BY <1>2, <1>3, <1>4, <1>5, <1>6, <1>7, <1>8, <1>9, <1>10, <1>11, <1>12
  DEF Caller

\* The delayed assignment of a transition() keeps the types.
LEMMA WriteType ==
    ASSUME ApiInv, NEW t \in Threads, CompleteWrite(t)
    PROVE  ApiInv'
<1>1. PcbTypeOK' /\ QueueTypeOK'
  BY FinishWriteType DEF ApiInv, CompleteWrite
<1> QED
  BY <1>1, FrameType
  DEF CompleteWrite, ApiInv, Grip, LoopTypeOK, ApiTypeOK, loopVars, agentVars,
      apiVars, callerVars, tableVars

-----------------------------------------------------------------------------
(***************************************************************************)
(* Single dispatch                                                         *)
(***************************************************************************)
\* What a thread holds outside put().
Grasps(t, a) ==
    \/ t \in Workers /\ held[t] = a /\ pc[t] \notin LetGo
    \/ t \in Callers /\ target[t] = a /\ cpc[t] = "spawn"

Distinct == \A i, j \in 1 .. Len(queue) : queue[i] = queue[j] => i = j

\* A thread inside put() has already let go of its PCB otherwise: its next
\* step after the append is task_done(), or the return from spawn().
PutInv ==
    \A t \in Threads :
        pending[t].enqueue => /\ t \in Workers => pc[t] \in {"finish", "late"}
                              /\ t \in Callers => cpc[t] = "free"

\* What is queued or held was spawned, so a new PID is neither.
BornInv ==
    /\ \A a \in Agents : Queued(a) => a \in born
    /\ \A t \in Threads, a \in Agents : Holds(t, a) => a \in born

DispatchInv == ApiInv /\ SingleDispatch /\ PutInv /\ BornInv

-----------------------------------------------------------------------------
\* Holding is grasping, or being inside put().
LEMMA HoldsDef ==
    \A t, a : Holds(t, a)
                <=> Grasps(t, a) \/ (pending[t].enqueue /\ pending[t].agent = a)
  BY DEF Holds, Grasps

\* A thread that is free to go on is not inside put().
LEMMA SettledDef ==
    ASSUME NEW t \in Threads, Settled(t)
    PROVE  ~pending[t].enqueue
  BY DEF Settled, NoWrite

\* transition() never leaves the caller inside put(), nor touches another
\* thread.
LEMMA TransitionPending ==
    ASSUME ApiInv, NEW t \in Threads, NEW a, NEW s, Transition(t, a, s)
    PROVE  \A u \in Threads :
              pending'[u] = pending[u] \/ (u = t /\ ~pending'[u].enqueue)
<1> DEFINE rec == [agent |-> a, to |-> s, enqueue |-> FALSE]
<1>1. ~rec.enqueue
  OBVIOUS
<1>2. pending' = pending \/ pending' = [pending EXCEPT ![t] = rec]
  BY DEF Transition, pcbVars
<1> HIDE DEF rec
<1>3. DOMAIN pending = Threads
  BY DEF ApiInv, PcbTypeOK
<1> QED
  BY <1>1, <1>2, <1>3

\* put() has three outcomes.
LEMMA PutOutcomes ==
    ASSUME ApiInv, NEW t \in Threads, NEW a \in Agents, Put(t, a)
    PROVE  \/ UNCHANGED <<queue, pending>>
           \/ queue' = Append(queue, a) /\ UNCHANGED pending
           \/ /\ UNCHANGED queue
              /\ \A u \in Threads : u # t => pending'[u] = pending[u]
              /\ pending'[t].enqueue /\ pending'[t].agent = a
<1> DEFINE rec == [agent |-> a, to |-> "READY", enqueue |-> TRUE]
<1>1. rec.enqueue /\ rec.agent = a
  OBVIOUS
<1>2. \/ UNCHANGED <<queue, pending>>
      \/ queue' = Append(queue, a) /\ UNCHANGED pending
      \/ UNCHANGED queue /\ pending' = [pending EXCEPT ![t] = rec]
  BY DEF Put, pcbVars
<1> HIDE DEF rec
<1>3. DOMAIN pending = Threads
  BY DEF ApiInv, PcbTypeOK
<1> QED
  BY <1>1, <1>2, <1>3

\* A step that only lets go of PCBs keeps every PCB with one holder.
LEMMA ReleaseDispatch ==
    ASSUME SingleDispatch, BornInv, UNCHANGED <<queue, born>>,
           \A t \in Threads, a \in Agents : Holds(t, a)' => Holds(t, a)
    PROVE  SingleDispatch' /\ BornInv'
  BY DEF SingleDispatch, BornInv, Queued

\* So does the append of a PCB by the thread that held it, when it lets go.
LEMMA AppendDispatch ==
    ASSUME ApiInv, SingleDispatch, BornInv, UNCHANGED born,
           NEW t \in Threads, NEW a \in Agents, Holds(t, a),
           queue' = Append(queue, a),
           \A u \in Threads, b \in Agents : Holds(u, b)' => Holds(u, b) /\ u # t
    PROVE  SingleDispatch' /\ BornInv'
<1>0. queue \in Seq(Agents) /\ ~Queued(a) /\ a \in born
  BY DEF ApiInv, QueueTypeOK, SingleDispatch, BornInv
<1>1. /\ Len(queue') = Len(queue) + 1
      /\ queue'[Len(queue) + 1] = a
      /\ \A i \in 1 .. Len(queue) : queue'[i] = queue[i]
  BY <1>0, AppendProperties
<1>2. \A b \in Agents : Queued(b)' => Queued(b) \/ b = a
  BY <1>0, <1>1 DEF Queued
<1>3. Distinct'
  BY <1>0, <1>1 DEF Distinct, SingleDispatch, Queued
<1>4. \A u \in Threads, b \in Agents : Holds(u, b)' => ~Queued(b)'
  BY <1>2 DEF SingleDispatch
<1>5. \A u, v \in Threads, b \in Agents : Holds(u, b)' /\ Holds(v, b)' => u = v
  BY DEF SingleDispatch
<1>6. BornInv'
  BY <1>0, <1>2 DEF BornInv
<1> QED
  BY <1>3, <1>4, <1>5, <1>6 DEF SingleDispatch, Distinct

\* Removing one entry of the queue leaves the others, and only those.
LEMMA RemoveQueued ==
    ASSUME ApiInv, SingleDispatch, NEW i \in 1 .. Len(queue),
           queue' = RemoveAt(queue, i)
    PROVE  /\ Distinct'
           /\ \A b \in Agents : Queued(b)' => Queued(b) /\ b # queue[i]
<1>0. queue \in Seq(Agents) /\ Len(queue) \in Nat
  BY DEF ApiInv, QueueTypeOK
<1>1. /\ Len(queue') = Len(queue) - 1
      /\ \A j \in 1 .. Len(queue) - 1 :
            queue'[j] = IF j < i THEN queue[j] ELSE queue[j + 1]
  BY <1>0, RemoveAtProperties
<1> DEFINE from(j) == IF j < i THEN j ELSE j + 1
<1>2. \A j \in 1 .. Len(queue') :
         from(j) \in 1 .. Len(queue) /\ from(j) # i /\ queue'[j] = queue[from(j)]
  BY <1>0, <1>1
<1>3. \A j, k \in 1 .. Len(queue') : from(j) = from(k) => j = k
  BY <1>0, <1>1
<1>4. \A j, k \in 1 .. Len(queue) : queue[j] = queue[k] => j = k
  BY DEF SingleDispatch
<1> HIDE DEF from
<1>5. Distinct'
  BY <1>2, <1>3, <1>4 DEF Distinct
<1>6. ASSUME NEW b \in Agents, Queued(b)' PROVE Queued(b) /\ b # queue[i]
  <2>1. PICK j \in 1 .. Len(queue') : queue'[j] = b
    BY <1>6 DEF Queued
  <2> QED
    BY <1>2, <1>4, <2>1 DEF Queued
<1> QED
  BY <1>5, <1>6
-----------------------------------------------------------------------------
\* What a worker does away from the queue: it keeps its PCB or lets it go.
LEMMA WorkerFrame ==
    ASSUME DispatchInv, NEW w \in Workers, Settled(w),
           \A v \in Workers : v # w => pc'[v] = pc[v] /\ held'[v] = held[v],
           pc'[w] \in LetGo \/ (held'[w] = held[w] /\ pc[w] \notin LetGo),
           UNCHANGED <<queue, apiVars>>,
           \A u \in Threads :
              pending'[u] = pending[u] \/ (u = w /\ ~pending'[u].enqueue)
    PROVE  SingleDispatch' /\ PutInv' /\ BornInv'
<1>0. w \in Threads /\ ~pending[w].enqueue /\ w \notin Callers
  BY LoopAssumption, ApiAssumption, SettledDef
<1>1. UNCHANGED <<queue, born, cpc, target>>
  BY DEF apiVars, callerVars, tableVars
<1>2. \A u \in Threads : pending'[u].enqueue => pending'[u] = pending[u] /\ u # w
  BY <1>0
<1>3. ASSUME NEW t \in Threads, NEW a \in Agents, Holds(t, a)'
      PROVE  Holds(t, a)
  <2>1. CASE pending'[t].enqueue /\ pending'[t].agent = a
    BY <1>2, <2>1 DEF Holds
  <2>2. CASE t \in Workers /\ held'[t] = a /\ pc'[t] \notin LetGo
    BY <2>2 DEF Holds, LetGo
  <2>3. CASE t \in Callers /\ target'[t] = a /\ cpc'[t] = "spawn"
    BY <1>1, <2>3 DEF Holds
  <2> QED
    BY <1>3, <2>1, <2>2, <2>3 DEF Holds, LetGo
<1>4. SingleDispatch' /\ BornInv'
  BY <1>1, <1>3, ReleaseDispatch DEF DispatchInv
<1>5. PutInv'
  BY <1>1, <1>2 DEF DispatchInv, PutInv
<1> QED
  BY <1>4, <1>5

\* A pop hands a PCB that nobody held to one worker.
LEMMA PickDispatch ==
    ASSUME DispatchInv, NEW w \in Workers, Pick(w), UNCHANGED apiVars
    PROVE  SingleDispatch' /\ PutInv' /\ BornInv'
<1>0. /\ w \in Threads /\ w \notin Callers
      /\ ApiInv /\ SingleDispatch /\ PutInv /\ BornInv
      /\ UNCHANGED <<born, cpc, target, pending>>
  BY LoopAssumption, ApiAssumption
  DEF DispatchInv, Pick, apiVars, callerVars, tableVars, pcbVars
<1>1. PICK i \in 1 .. Len(queue) : /\ queue' = RemoveAt(queue, i)
                                   /\ held' = [held EXCEPT ![w] = queue[i]]
  BY DEF Pick, PopSelected
<1>2. queue[i] \in Agents
  BY <1>0 DEF ApiInv, QueueTypeOK
<1>3. /\ Distinct'
      /\ \A b \in Agents : Queued(b)' => Queued(b) /\ b # queue[i]
  BY <1>0, <1>1, RemoveQueued
<1>4. /\ pc[w] = "idle" /\ ~pending[w].enqueue
      /\ pc' = [pc EXCEPT ![w] = "dispatch"]
  BY <1>0, SettledDef DEF Pick, At, Goto
<1>5. DOMAIN pc = Workers /\ DOMAIN held = Workers
  BY <1>0 DEF ApiInv, LoopTypeOK
<1>6. \A t \in Threads, a \in Agents :
         Holds(t, a)' => Holds(t, a) \/ (t = w /\ a = queue[i])
  BY <1>0, <1>1, <1>4, <1>5 DEF Holds
<1>7. Queued(queue[i]) /\ queue[i] \in born
  BY <1>0, <1>2 DEF Queued, BornInv
<1>8. \A t \in Threads : ~Holds(t, queue[i])
  BY <1>0, <1>2, <1>7 DEF SingleDispatch
<1>9. \A t \in Threads, a \in Agents : Holds(t, a)' => ~Queued(a)'
  BY <1>0, <1>3, <1>6 DEF SingleDispatch
<1>10. \A t, u \in Threads, a \in Agents : Holds(t, a)' /\ Holds(u, a)' => t = u
  BY <1>0, <1>6, <1>8 DEF SingleDispatch
<1>11. SingleDispatch'
  BY <1>3, <1>9, <1>10 DEF SingleDispatch, Distinct
<1>12. BornInv'
  BY <1>0, <1>3, <1>6, <1>7 DEF BornInv
<1>13. PutInv'
  BY <1>0, <1>4, <1>5 DEF PutInv
<1> QED
  BY <1>11, <1>12, <1>13

\* put() by a thread that held the PCB and moves to where it holds nothing.
LEMMA PutDispatch ==
    ASSUME DispatchInv, NEW t \in Threads, NEW a \in Agents, Grasps(t, a),
           Settled(t), Put(t, a), UNCHANGED born,
           \A u \in Threads, b \in Agents :
              Grasps(u, b)' => Grasps(u, b) /\ u # t
    PROVE  SingleDispatch' /\ BornInv'
<1>0. ApiInv /\ SingleDispatch /\ BornInv /\ ~pending[t].enqueue /\ Holds(t, a)
  BY SettledDef, HoldsDef DEF DispatchInv
<1>h. \A u \in Threads, b \in Agents :
         Holds(u, b)' <=> \/ Grasps(u, b)'
                          \/ pending'[u].enqueue /\ pending'[u].agent = b
  BY DEF Holds, Grasps
<1>1. CASE UNCHANGED <<queue, pending>>
  <2>1. \A u \in Threads, b \in Agents : Holds(u, b)' => Holds(u, b)
    BY <1>1, <1>h, HoldsDef
  <2> QED
    BY <1>0, <1>1, <2>1, ReleaseDispatch
<1>2. CASE queue' = Append(queue, a) /\ UNCHANGED pending
  <2>1. \A u \in Threads, b \in Agents : Holds(u, b)' => Holds(u, b) /\ u # t
    BY <1>0, <1>2, <1>h, HoldsDef
  <2> QED
    BY <1>0, <1>2, <2>1, AppendDispatch
<1>3. CASE /\ UNCHANGED queue
           /\ \A u \in Threads : u # t => pending'[u] = pending[u]
           /\ pending'[t].enqueue /\ pending'[t].agent = a
  <2>1. \A u \in Threads, b \in Agents : Holds(u, b)' => Holds(u, b)
    BY <1>0, <1>3, <1>h, HoldsDef
  <2> QED
    BY <1>0, <1>3, <2>1, ReleaseDispatch
<1> QED
  BY <1>0, <1>1, <1>2, <1>3, PutOutcomes

\* The steps of the loop that both pools take keep each PCB in one place.
LEMMA LoopDispatch ==
    ASSUME DispatchInv, NEW w \in Workers, UNCHANGED apiVars, NEW keepGoing,
           LoopStep(w) \/ Finish(w) \/ Conclude(w, keepGoing)
    PROVE  SingleDispatch' /\ PutInv' /\ BornInv'
<1>0. /\ w \in Threads /\ w \notin Callers
      /\ ApiInv /\ SingleDispatch /\ PutInv /\ BornInv
      /\ DOMAIN pc = Workers /\ DOMAIN held = Workers /\ DOMAIN pending = Threads
  BY LoopAssumption, ApiAssumption
  DEF DispatchInv, ApiInv, LoopTypeOK, PcbTypeOK
<1>1. CASE Pick(w)
  BY <1>1, PickDispatch
<1>2. CASE Requeue(w)
  <2>1. /\ pc[w] = "requeue" /\ Settled(w) /\ Put(w, held[w])
        /\ pc' = [pc EXCEPT ![w] = "finish"]
        /\ UNCHANGED <<held, born, cpc, target>>
    BY <1>2 DEF Requeue, At, Goto, apiVars, callerVars, tableVars
  <2>2. held[w] \in Agents
    BY <1>0, <2>1 DEF ApiInv, Grip
  <2>3. Grasps(w, held[w])
    BY <2>1 DEF Grasps, LetGo
  <2>4. \A u \in Threads, b \in Agents : Grasps(u, b)' => Grasps(u, b) /\ u # w
    BY <1>0, <2>1 DEF Grasps, LetGo
  <2>5. SingleDispatch' /\ BornInv'
    BY <1>0, <2>1, <2>2, <2>3, <2>4, PutDispatch
  <2>6. \A u \in Threads : u # w => pending'[u] = pending[u]
    BY <1>0, <2>1, <2>2, PutOutcomes
  <2>7. PutInv'
    BY <1>0, <2>1, <2>6 DEF PutInv
  <2> QED
    BY <2>5, <2>7
<1>3. SUFFICES ASSUME ~Pick(w), ~Requeue(w) PROVE
         /\ Settled(w)
         /\ \A v \in Workers : v # w => pc'[v] = pc[v] /\ held'[v] = held[v]
         /\ pc'[w] \in LetGo \/ (held'[w] = held[w] /\ pc[w] \notin LetGo)
         /\ UNCHANGED queue
         /\ \A u \in Threads :
               pending'[u] = pending[u] \/ (u = w /\ ~pending'[u].enqueue)
  BY <1>0, <1>1, <1>2, WorkerFrame
<1>t. ASSUME NEW s, Transition(w, held[w], s)
      PROVE  \A u \in Threads :
                pending'[u] = pending[u] \/ (u = w /\ ~pending'[u].enqueue)
  BY <1>0, <1>t, TransitionPending
<1> USE <1>0 DEF At, Goto, LetGo, queueVars, pcbVars
<1>4. CASE Finish(w)
  BY <1>4 DEF Finish, TaskDone
<1>5. CASE Exit(w)
  BY <1>5 DEF Exit
<1>6. CASE Dispatch(w)
  BY <1>6 DEF Dispatch
<1>7. CASE ReceiveInput(w)
  BY <1>7 DEF ReceiveInput
<1>8. CASE Repark(w)
  BY <1>8, <1>t DEF Repark
<1>9. CASE Conclude(w, keepGoing)
  BY <1>9 DEF Conclude
<1> QED
  BY <1>3, <1>4, <1>5, <1>6, <1>7, <1>8, <1>9 DEF LoopStep

\* What a caller does away from the queue, when it takes no PCB in hand.
LEMMA CallerFrame ==
    ASSUME DispatchInv, NEW c \in Callers, Settled(c),
           UNCHANGED <<queue, born, pc, held>>,
           \A d \in Callers : d # c => cpc'[d] = cpc[d] /\ target'[d] = target[d],
           cpc'[c] # "spawn",
           \A u \in Threads :
              pending'[u] = pending[u] \/ (u = c /\ ~pending'[u].enqueue)
    PROVE  SingleDispatch' /\ PutInv' /\ BornInv'
<1>0. c \in Threads /\ ~pending[c].enqueue /\ c \notin Workers
  BY ApiAssumption, SettledDef
<1>1. \A u \in Threads : pending'[u].enqueue => pending'[u] = pending[u] /\ u # c
  BY <1>0
<1>2. ASSUME NEW t \in Threads, NEW a \in Agents, Holds(t, a)'
      PROVE  Holds(t, a)
  <2>1. CASE pending'[t].enqueue /\ pending'[t].agent = a
    BY <1>1, <2>1 DEF Holds
  <2>2. CASE ~(pending'[t].enqueue /\ pending'[t].agent = a)
    BY <1>2, <2>2 DEF Holds
  <2> QED
    BY <2>1, <2>2
<1>3. SingleDispatch' /\ BornInv'
  BY <1>2, ReleaseDispatch DEF DispatchInv
<1>4. PutInv'
  BY <1>0, <1>1 DEF DispatchInv, PutInv
<1> QED
  BY <1>3, <1>4

\* spawn() takes in hand a PID that nobody else can have.
LEMMA SpawnDispatch ==
    ASSUME DispatchInv, NEW c \in Callers, NEW a \in Agents, SpawnRegister(c, a)
    PROVE  SingleDispatch' /\ PutInv' /\ BornInv'
<1>0. /\ c \in Threads /\ c \notin Workers
      /\ ApiInv /\ SingleDispatch /\ PutInv /\ BornInv
      /\ DOMAIN cpc = Callers /\ DOMAIN target = Callers
  BY ApiAssumption DEF DispatchInv, ApiInv, ApiTypeOK
<1>1. /\ Settled(c) /\ a \notin born /\ born' = born \cup {a}
      /\ cpc[c] = "free"
      /\ cpc' = [cpc EXCEPT ![c] = "spawn"]
      /\ target' = [target EXCEPT ![c] = a]
      /\ UNCHANGED <<queue, pc, held>>
  BY DEF SpawnRegister, CallerAt, Open, CallerGoto, queueVars, loopVars
<1>2. \A u \in Threads :
         pending'[u] = pending[u] \/ (u = c /\ ~pending'[u].enqueue)
  BY <1>0, TransitionPending DEF SpawnRegister, pcbVars
<1>3. ~pending[c].enqueue
  BY <1>0, <1>1, SettledDef
<1>4. \A u \in Threads : pending'[u].enqueue => pending'[u] = pending[u] /\ u # c
  BY <1>2, <1>3
<1>5. ASSUME NEW t \in Threads, NEW b \in Agents, Holds(t, b)'
      PROVE  Holds(t, b) \/ (t = c /\ b = a)
  <2>1. CASE pending'[t].enqueue /\ pending'[t].agent = b
    BY <1>4, <2>1 DEF Holds
  <2>2. CASE ~(pending'[t].enqueue /\ pending'[t].agent = b)
    BY <1>0, <1>1, <1>5, <2>2 DEF Holds
  <2> QED
    BY <2>1, <2>2
<1>6. ~Queued(a) /\ \A t \in Threads : ~Holds(t, a)
  BY <1>0, <1>1 DEF BornInv
<1>7. \A b \in Agents : Queued(b)' <=> Queued(b)
  BY <1>1 DEF Queued
<1>8. Distinct'
  BY <1>0, <1>1 DEF SingleDispatch, Distinct
<1>9. \A t \in Threads, b \in Agents : Holds(t, b)' => ~Queued(b)'
  BY <1>0, <1>5, <1>6, <1>7 DEF SingleDispatch
<1>10. \A t, u \in Threads, b \in Agents : Holds(t, b)' /\ Holds(u, b)' => t = u
  BY <1>0, <1>5, <1>6 DEF SingleDispatch
<1>11. SingleDispatch'
  BY <1>8, <1>9, <1>10 DEF SingleDispatch, Distinct
<1>12. BornInv'
  BY <1>0, <1>1, <1>5, <1>7 DEF BornInv
<1>13. PutInv'
  BY <1>0, <1>1, <1>4 DEF PutInv
<1> QED
  BY <1>11, <1>12, <1>13

\* kill() takes its target off the queue and gives it to nobody.
LEMMA DequeueDispatch ==
    ASSUME DispatchInv, NEW c \in Callers, KillDequeue(c)
    PROVE  SingleDispatch' /\ PutInv' /\ BornInv'
<1>0. /\ ApiInv /\ SingleDispatch /\ PutInv /\ BornInv
      /\ DOMAIN cpc = Callers
  BY DEF DispatchInv, ApiInv, ApiTypeOK
<1>1. /\ Settled(c) /\ cpc[c] = "pop"
      /\ cpc' = [cpc EXCEPT ![c] = "reap"]
      /\ UNCHANGED <<pending, pc, held, target, born>>
      /\ PopAgent(target[c])
  BY DEF KillDequeue, CallerAt, CallerGoto, pcbVars, loopVars,
         tableVars
<1>2. Distinct' /\ \A b \in Agents : Queued(b)' => Queued(b)
  <2>1. CASE UNCHANGED queue
    BY <1>0, <2>1 DEF Distinct, SingleDispatch, Queued
  <2>2. CASE \E i \in 1 .. Len(queue) : queue' = RemoveAt(queue, i)
    BY <1>0, <2>2, RemoveQueued
  <2> QED
    BY <1>1, <2>1, <2>2 DEF PopAgent
<1>3. \A t \in Threads, a \in Agents : Holds(t, a)' => Holds(t, a)
  BY <1>0, <1>1 DEF Holds
<1>4. SingleDispatch'
  BY <1>0, <1>2, <1>3 DEF SingleDispatch, Distinct
<1>5. BornInv'
  BY <1>0, <1>1, <1>2, <1>3 DEF BornInv
<1>6. PutInv'
  BY <1>0, <1>1 DEF PutInv
<1> QED
  BY <1>4, <1>5, <1>6

\* Every step of a caller keeps each PCB in one place.
LEMMA CallerDispatch ==
    ASSUME DispatchInv, NEW c \in Callers, Caller(c)
    PROVE  SingleDispatch' /\ PutInv' /\ BornInv'
<1>0. /\ c \in Threads /\ c \notin Workers
      /\ ApiInv /\ SingleDispatch /\ PutInv /\ BornInv
      /\ DOMAIN cpc = Callers /\ DOMAIN target = Callers
  BY ApiAssumption DEF DispatchInv, ApiInv, ApiTypeOK
<1>1. ASSUME NEW a \in Agents, SpawnRegister(c, a)
      PROVE  SingleDispatch' /\ PutInv' /\ BornInv'
  BY <1>1, SpawnDispatch
<1>2. CASE KillDequeue(c)
  BY <1>2, DequeueDispatch
<1>3. CASE SpawnEnqueue(c)
  <2>1. /\ cpc[c] = "spawn" /\ Settled(c) /\ Put(c, target[c])
        /\ cpc' = [cpc EXCEPT ![c] = "free"]
        /\ target' = [target EXCEPT ![c] = NoAgent]
        /\ UNCHANGED <<pc, held, born>>
    BY <1>3 DEF SpawnEnqueue, CallerAt, CallerGoto, loopVars,
                tableVars
  <2>2. target[c] \in Agents
    BY <1>0, <2>1 DEF ApiInv, Grip
  <2>3. Grasps(c, target[c])
    BY <2>1 DEF Grasps
  <2>4. \A u \in Threads, b \in Agents : Grasps(u, b)' => Grasps(u, b) /\ u # c
    BY <1>0, <2>1 DEF Grasps
  <2>5. SingleDispatch' /\ BornInv'
    BY <1>0, <2>1, <2>2, <2>3, <2>4, PutDispatch
  <2>6. \A u \in Threads : u # c => pending'[u] = pending[u]
    BY <1>0, <2>1, <2>2, PutOutcomes
  <2>7. PutInv'
    BY <1>0, <2>1, <2>6 DEF PutInv
  <2> QED
    BY <2>5, <2>7
<1>t. ASSUME NEW a, NEW s, Transition(c, a, s)
      PROVE  \A u \in Threads :
                pending'[u] = pending[u] \/ (u = c /\ ~pending'[u].enqueue)
  BY <1>0, <1>t, TransitionPending
<1> DEFINE Quiet ==
       /\ Settled(c)
       /\ UNCHANGED <<queue, born, pc, held>>
       /\ \A d \in Callers : d # c => cpc'[d] = cpc[d] /\ target'[d] = target[d]
       /\ cpc'[c] # "spawn"
       /\ \A u \in Threads :
             pending'[u] = pending[u] \/ (u = c /\ ~pending'[u].enqueue)
<1>q. Quiet => SingleDispatch' /\ PutInv' /\ BornInv'
  BY CallerFrame
<1> USE <1>0 DEF CallerAt, Open, CallerGoto, pcbVars, queueVars, loopVars,
                 tableVars, callerVars, apiVars
<1>4. ASSUME NEW a \in Agents, KillCollect(c, a) PROVE Quiet
  BY <1>4 DEF KillCollect
<1>5. KillMark(c) => Quiet
  BY <1>t DEF KillMark
<1>6. KillReap(c) => Quiet
  BY <1>t DEF KillReap
<1>7. KillReturn(c) => Quiet
  BY DEF KillReturn
<1>8. ReapTerminal(c) => Quiet
  BY DEF ReapTerminal
<1>9. TopupQuota(c) => Quiet
  BY DEF TopupQuota
<1>10. Shutdown(c) => Quiet
  BY DEF Shutdown
<1>11. ShutdownReturn(c) => Quiet
  BY DEF ShutdownReturn
<1> HIDE DEF Quiet
<1> QED
  BY <1>1, <1>2, <1>3, <1>q, <1>4, <1>5, <1>6, <1>7, <1>8, <1>9, <1>10,
     <1>11
  DEF Caller

\* The delayed assignment, with the append that ends put().
LEMMA WriteDispatch ==
    ASSUME DispatchInv, NEW t \in Threads, CompleteWrite(t)
    PROVE  SingleDispatch' /\ PutInv' /\ BornInv'
<1>0. /\ ApiInv /\ SingleDispatch /\ PutInv /\ BornInv
      /\ DOMAIN pending = Threads /\ pending[t] \in PendingWrite
  BY DEF DispatchInv, ApiInv, PcbTypeOK, CompleteWrite, FinishWrite,
         Settled
<1>1. /\ pending' = [pending EXCEPT ![t] = NoWrite]
      /\ UNCHANGED <<pc, held, cpc, target, born>>
      /\ queue' = IF pending[t].enqueue
                  THEN Append(queue, pending[t].agent) ELSE queue
  BY DEF CompleteWrite, FinishWrite, loopVars, apiVars, callerVars,
         tableVars
<1>2. /\ \A u \in Threads : pending'[u].enqueue => pending'[u] = pending[u] /\ u # t
      /\ pending[t].agent \in Agents
  BY <1>0, <1>1 DEF NoWrite, PendingWrite
<1>3. \A u \in Threads, b \in Agents : Holds(u, b)' => Holds(u, b)
  BY <1>1, <1>2 DEF Holds
<1>4. PutInv'
  BY <1>0, <1>1, <1>2 DEF PutInv
<1>5. CASE ~pending[t].enqueue
  BY <1>0, <1>1, <1>3, <1>4, <1>5, ReleaseDispatch
<1>6. CASE pending[t].enqueue
  <2>1. Holds(t, pending[t].agent)
    BY <1>6 DEF Holds
  <2>2. \A b \in Agents : ~Grasps(t, b)
    BY <1>0, <1>6, ApiAssumption DEF PutInv, Grasps, LetGo
  <2>3. ASSUME NEW u \in Threads, NEW b \in Agents, Holds(u, b)'
        PROVE  u # t
    BY <1>1, <1>2, <2>2, <2>3 DEF Holds, Grasps
  <2> QED
    BY <1>0, <1>1, <1>2, <1>3, <1>4, <1>6, <2>1, <2>3, AppendDispatch
<1> QED
  BY <1>5, <1>6

\* Nothing is queued or held when the kernel boots.
LEMMA ApiDispatchInit ==
    ASSUME PcbInit, QueueInit, LoopInit, ApiInit
    PROVE  SingleDispatch /\ PutInv /\ BornInv
<1>1. queue = <<>> /\ \A t \in Threads : ~pending[t].enqueue
  BY DEF QueueInit, PcbInit, NoWrite
<1>2. \A t \in Threads, a \in Agents : ~Holds(t, a)
  BY <1>1 DEF LoopInit, ApiInit, Holds, LetGo
<1>3. 1 .. Len(queue) = {}
  BY <1>1
<1>4. \A a \in Agents : ~Queued(a)
  BY <1>3 DEF Queued
<1>5. SingleDispatch
  BY <1>2, <1>3 DEF SingleDispatch
<1> QED
  BY <1>1, <1>2, <1>4, <1>5 DEF PutInv, BornInv

-----------------------------------------------------------------------------
(***************************************************************************)
(* The in-flight count                                                     *)
(***************************************************************************)
\* The workers that have a PCB in hand are finitely many.
LEMMA DispatchersFinite ==
    IsFiniteSet(Dispatching) /\ Cardinality(Dispatching) \in Nat
<1>1. Dispatching \subseteq Workers
  BY DEF Dispatching
<1> QED
  BY <1>1, ApiAssumption, FS_Subset, FS_CardinalityType

\* A worker's move inside its dispatch leaves the set of dispatchers alone.
LEMMA InFlightFrame ==
    ASSUME ApiInv, InFlightExact, NEW w \in Workers, NEW p \in PC,
           pc[w] \notin {"idle", "exited"}, p \notin {"idle", "exited"},
           pc' = [pc EXCEPT ![w] = p], UNCHANGED inFlight
    PROVE  InFlightExact'
<1>1. Dispatching' = Dispatching
  BY DEF Dispatching, ApiInv, LoopTypeOK
<1> QED
  BY <1>1 DEF InFlightExact

\* So do the other steps of the loop that both pools take, and a pop and a
\* task_done() move it by one.
LEMMA LoopInFlight ==
    ASSUME ApiInv, InFlightExact, NEW w \in Workers, NEW keepGoing,
           LoopStep(w) \/ Finish(w) \/ Conclude(w, keepGoing)
    PROVE  InFlightExact'
<1>0. pc \in [Workers -> PC] /\ inFlight \in Nat
  BY DEF ApiInv, LoopTypeOK, QueueTypeOK
<1>1. CASE Pick(w)
  <2>1. Dispatching' = Dispatching \cup {w} /\ w \notin Dispatching
    BY <1>0, <1>1 DEF Pick, At, Goto, Dispatching
  <2>2. inFlight' = inFlight + 1
    BY <1>1 DEF Pick, PopSelected
  <2> QED
    BY <2>1, <2>2, DispatchersFinite, FS_AddElement DEF InFlightExact
<1>2. CASE Finish(w)
  <2>1. Dispatching' = Dispatching \ {w} /\ w \in Dispatching
    BY <1>0, <1>2 DEF Finish, At, Goto, Dispatching
  <2>2. Cardinality(Dispatching') = Cardinality(Dispatching) - 1
    BY <2>1, DispatchersFinite, FS_RemoveElement
  <2>3. Cardinality(Dispatching') \in Nat
    BY <2>1, DispatchersFinite, FS_Subset, FS_CardinalityType
  <2> QED
    BY <1>0, <1>2, <2>2, <2>3 DEF Finish, TaskDone, InFlightExact
<1>3. CASE Exit(w)
  <2>1. Dispatching' = Dispatching
    BY <1>0, <1>3 DEF Exit, At, Goto, Dispatching
  <2> QED
    BY <1>3, <2>1 DEF Exit, InFlightExact, queueVars
<1>4. CASE \/ Dispatch(w) \/ ReceiveInput(w) \/ Repark(w) \/ Requeue(w)
           \/ Conclude(w, keepGoing)
  <2>1. pc[w] \notin {"idle", "exited"} /\ UNCHANGED inFlight
    BY <1>4
    DEF Dispatch, ReceiveInput, Repark, Requeue, Conclude, At, Put, queueVars
  <2>2. PICK p \in PC \ {"idle", "exited"} : Goto(w, p)
    BY <1>4 DEF Dispatch, ReceiveInput, Repark, Requeue, Conclude, PC
  <2> QED
    BY <2>1, <2>2, InFlightFrame DEF Goto
<1> QED
  BY <1>1, <1>2, <1>3, <1>4 DEF LoopStep

\* Callers and delayed assignments leave the count alone.
LEMMA ApiInFlight ==
    ASSUME InFlightExact,
           (\E c \in Callers : Caller(c)) \/ (\E t \in Threads : CompleteWrite(t))
    PROVE  InFlightExact'
<1>1. UNCHANGED <<pc, inFlight>>
  BY DEF Caller, SpawnRegister, KillCollect, SpawnEnqueue, KillMark, KillDequeue,
         KillReap, KillReturn, ReapTerminal, TopupQuota, Shutdown, ShutdownReturn,
         CompleteWrite, FinishWrite, Put, PopAgent, queueVars, loopVars
<1> QED
  BY <1>1 DEF InFlightExact, Dispatching

-----------------------------------------------------------------------------
(***************************************************************************)
(* The life of an agent with either backend, when no thread switch falls   *)
(* inside transition(): states move along the documented edges only, an    *)
(* agent that is not finished is always in somebody's hands or on the      *)
(* queue, and what kill() collected is dead when it returns.               *)
(***************************************************************************)
Quiet == \A t \in Threads : Settled(t)

\* A PCB that was put on the queue, or popped from it, has left NEW.
Known ==
    /\ \A a \in Agents : Queued(a) => state[a] # "NEW"
    /\ \A w \in Workers : pc[w] \notin {"idle", "exited"} => state[held[w]] # "NEW"

\* The target of a kill() is finished as soon as it was marked.
Marked ==
    \A c \in Callers :
        cpc[c] \in {"signal", "strike", "pop", "reap"} => IsTerminal(target[c])

\* Somebody will look at a again.
Has(a) == Queued(a) \/ \E t \in Threads : Holds(t, a)

LifeInv == ApiInv /\ Quiet /\ Known /\ Marked

-----------------------------------------------------------------------------
(***************************************************************************)
(* What every step does to the agents                                      *)
(***************************************************************************)
LegalStep ==
    \A a \in Agents :
        state'[a] # state[a] => state'[a] \in LegalTransitions(state[a])

\* No agent is taken up that nobody had, unless it is new, and none is let go
\* of that is not finished, unless the pool stops or its worker dies.
Conserves ==
    /\ LegalStep
    /\ born \subseteq born' /\ (stop => stop') /\ Abandoned \subseteq Abandoned'
    /\ \A a \in Agents : Has(a)' => Has(a) \/ a \notin born
    /\ \A a \in born' \ Abandoned' :
          Has(a) \/ a \notin born => Has(a)' \/ IsTerminal(a)' \/ stop'

\* Along the documented edges a finished agent stays as it is, and none
\* becomes NEW again.
LEMMA LegalKeeps ==
    ASSUME LegalStep, NEW a \in Agents
    PROVE  /\ IsTerminal(a) => state'[a] = state[a] /\ IsTerminal(a)'
           /\ state[a] # "NEW" => state'[a] # "NEW"
<1>1. state[a] \in TerminalStates => LegalTransitions(state[a]) = {}
  BY DEF LegalTransitions, TerminalStates
<1>2. "NEW" \notin LegalTransitions(state[a])
  BY DEF LegalTransitions
<1> QED
  BY <1>1, <1>2 DEF LegalStep, IsTerminal

\* Steps that conserve the agents lose none of them.
LEMMA ConservedNotLost ==
    ASSUME ApiInv, NoAgentLost, Conserves, born' \subseteq Agents
    PROVE  NoAgentLost'
<1> SUFFICES ASSUME ~stop', NEW a \in born' \ Abandoned'
             PROVE  IsTerminal(a)' \/ Has(a)'
  BY DEF NoAgentLost, Has
<1>1. ~stop /\ a \notin Abandoned /\ a \in Agents
  BY DEF Conserves
<1>2. CASE a \in born /\ IsTerminal(a)
  BY <1>1, <1>2, LegalKeeps DEF Conserves
<1>3. CASE a \in born /\ ~IsTerminal(a)
  BY <1>1, <1>3 DEF NoAgentLost, Has, Conserves
<1>4. CASE a \notin born
  BY <1>4 DEF Conserves
<1> QED
  BY <1>2, <1>3, <1>4

\* What transition() does when nothing comes between its test and its write.
LEMMA TransitionAtomic ==
    ASSUME PcbTypeOK, ~PreemptInTransition, NEW t, NEW a \in Agents, NEW s,
           Transition(t, a, s)
    PROVE  /\ UNCHANGED pending
           /\ \A b \in Agents : b # a => state'[b] = state[b]
           /\ IsTerminal(a) => state'[a] = state[a]
           /\ ~IsTerminal(a) => state'[a] = s
  BY DEF Transition, Accepts, IsTerminal, PcbTypeOK, pcbVars

\* Hence it takes a documented edge, unless it takes a new PCB elsewhere than
\* spawn() and kill() do.
LEMMA TransitionLegal ==
    ASSUME PcbTypeOK, ~PreemptInTransition, NEW t, NEW a \in Agents,
           NEW s \in AgentState \ {"NEW"}, Transition(t, a, s),
           state[a] # "NEW" \/ s \in {"WAITING", "RUNNING", "ZOMBIE"}
    PROVE  LegalStep
<1>1. \A b \in Agents : b # a => state'[b] = state[b]
  BY TransitionAtomic
<1>2. state'[a] # state[a] => state'[a] = s /\ s # state[a] /\ ~IsTerminal(a)
  BY TransitionAtomic
<1>3. s # state[a] /\ ~IsTerminal(a) => s \in LegalTransitions(state[a])
  BY DEF LegalTransitions, IsTerminal
<1> QED
  BY <1>1, <1>2, <1>3 DEF LegalStep

\* What put() does then.
LEMMA PutAtomic ==
    ASSUME PcbTypeOK, QueueTypeOK, ~PreemptInTransition, NEW t, NEW a \in Agents,
           Put(t, a)
    PROVE  /\ UNCHANGED pending /\ LegalStep
           /\ \A b \in Agents : Queued(b) => Queued(b)'
           /\ \A b \in Agents : Queued(b)' => Queued(b) \/ (b = a /\ state'[a] = "READY")
           /\ Queued(a)' \/ IsTerminal(a)'
<1>1. CASE IsTerminal(a)
  BY <1>1 DEF Put, LegalStep, Queued, IsTerminal, pcbVars
<1>2. CASE ~IsTerminal(a)
  <2>1. /\ state' = [state EXCEPT ![a] = "READY"]
        /\ queue' = Append(queue, a) /\ UNCHANGED pending
    BY <1>2 DEF Put
  <2>2. /\ Len(queue') = Len(queue) + 1 /\ Len(queue) \in Nat
        /\ queue'[Len(queue) + 1] = a
        /\ \A i \in 1 .. Len(queue) : queue'[i] = queue[i]
    BY <2>1, AppendProperties DEF QueueTypeOK
  <2>3. \A b \in Agents : Queued(b) => Queued(b)'
    BY <2>2 DEF Queued
  <2>4. Queued(a)'
    BY <2>2 DEF Queued
  <2>5. \A b \in Agents : Queued(b)' => Queued(b) \/ b = a
    BY <2>2 DEF Queued
  <2>6. state[a] \in AgentState /\ state'[a] = "READY"
    BY <2>1 DEF PcbTypeOK
  <2>7. "READY" # state[a] => "READY" \in LegalTransitions(state[a])
    BY <1>2, <2>6 DEF LegalTransitions, IsTerminal, AgentState, LiveStates
  <2>8. LegalStep
    BY <2>1, <2>6, <2>7 DEF LegalStep, PcbTypeOK
  <2> QED
    BY <2>1, <2>3, <2>4, <2>5, <2>6, <2>8
<1> QED
  BY <1>1, <1>2

\* What removing one entry does: the others stay queued.
LEMMA RemoveKeeps ==
    ASSUME QueueTypeOK, NEW i \in 1 .. Len(queue), queue' = RemoveAt(queue, i)
    PROVE  \A b \in Agents : /\ Queued(b)' => Queued(b)
                             /\ Queued(b) => Queued(b)' \/ b = queue[i]
<1>0. queue \in Seq(Agents) /\ Len(queue) \in Nat
  BY DEF QueueTypeOK
<1>1. /\ Len(queue') = Len(queue) - 1
      /\ \A j \in 1 .. Len(queue) - 1 :
            queue'[j] = IF j < i THEN queue[j] ELSE queue[j + 1]
  BY <1>0, RemoveAtProperties
<1>2. ASSUME NEW b \in Agents, Queued(b)' PROVE Queued(b)
  <2>1. PICK j \in 1 .. Len(queue) - 1 : queue'[j] = b
    BY <1>1, <1>2 DEF Queued
  <2>2. j \in 1 .. Len(queue) /\ j + 1 \in 1 .. Len(queue)
    BY <1>0
  <2> QED
    BY <1>1, <2>1, <2>2 DEF Queued
<1>3. ASSUME NEW b \in Agents, Queued(b), b # queue[i] PROVE Queued(b)'
  <2>1. PICK j \in 1 .. Len(queue) : queue[j] = b /\ j # i
    BY <1>3 DEF Queued
  <2>2. CASE j < i
    BY <1>0, <1>1, <2>1, <2>2 DEF Queued
  <2>3. CASE j > i
    <3>1. j - 1 \in 1 .. Len(queue) - 1 /\ ~(j - 1 < i) /\ (j - 1) + 1 = j
      BY <1>0, <2>3
    <3>2. queue'[j - 1] = b
      BY <1>1, <2>1, <3>1
    <3> QED
      BY <1>1, <3>1, <3>2 DEF Queued
  <2> QED
    BY <1>0, <2>1, <2>2, <2>3
<1> QED
  BY <1>2, <1>3

-----------------------------------------------------------------------------
(***************************************************************************)
(* The steps of the worker loop                                            *)
(***************************************************************************)
\* With no thread inside put(), to hold a PCB is to have it in a local.
LEMMA QuietHolds ==
    /\ Quiet => \A t \in Threads, a \in Agents : Holds(t, a) <=> Grasps(t, a)
    /\ Quiet' => \A t \in Threads, a \in Agents : Holds(t, a)' <=> Grasps(t, a)'
<1>1. ASSUME NEW t \in Threads, NEW a \in Agents
      PROVE  /\ Settled(t) => (Holds(t, a) <=> Grasps(t, a))
             /\ Settled(t)' => (Holds(t, a)' <=> Grasps(t, a)')
  BY DEF Holds, Grasps, Settled, NoWrite
<1> QED
  BY <1>1 DEF Quiet

\* What is queued or popped and not NEW stays so.
LEMMA KnownFrame ==
    ASSUME LifeInv, LegalStep,
           \A b \in Agents : Queued(b)' => Queued(b) \/ state'[b] # "NEW",
           \A v \in Workers :
              pc'[v] \notin {"idle", "exited"} =>
                 \/ pc[v] \notin {"idle", "exited"} /\ held'[v] = held[v]
                 \/ held'[v] \in Agents /\ state[held'[v]] # "NEW"
    PROVE  Known'
<1>1. \A a \in Agents : state[a] # "NEW" => state'[a] # "NEW"
  BY LegalKeeps
<1>2. \A v \in Workers :
         pc[v] \notin {"idle", "exited"} => held[v] \in Agents /\ state[held[v]] # "NEW"
  BY DEF LifeInv, ApiInv, Grip, Known
<1> QED
  BY <1>1, <1>2 DEF LifeInv, Known

\* A step of a worker inside its dispatch, away from the queue: it keeps its
\* PCB, or lets go of a finished one.
LEMMA WorkerConserves ==
    ASSUME LifeInv, LegalStep, NEW w \in Workers, NEW p \in PC \ {"idle", "exited"},
           pc[w] \notin LetGo, pc' = [pc EXCEPT ![w] = p],
           p \notin LetGo \/ IsTerminal(held[w])' \/ stop,
           UNCHANGED <<queue, pending, held, stop, apiVars>>
    PROVE  Conserves /\ Quiet' /\ Known' /\ Marked'
<1>0. /\ pc \in [Workers -> PC] /\ w \in Threads
      /\ UNCHANGED <<born, cpc, target>> /\ Quiet
  BY LoopAssumption
  DEF LifeInv, ApiInv, LoopTypeOK, apiVars, callerVars, tableVars
<1>1. Quiet'
  BY <1>0 DEF Quiet, Settled
<1>2. \A a \in Agents : Queued(a)' <=> Queued(a)
  BY DEF Queued
<1>3. \A t \in Threads, a \in Agents :
         /\ Grasps(t, a)' => Grasps(t, a)
         /\ Grasps(t, a) => Grasps(t, a)' \/ (a = held[w] /\ p \in LetGo)
  BY <1>0 DEF Grasps
<1>4. \A a \in Agents : Has(a)' => Has(a)
  BY <1>0, <1>1, <1>2, <1>3, QuietHolds DEF Has
<1>5. \A a \in Agents : Has(a) => Has(a)' \/ IsTerminal(a)' \/ stop'
  BY <1>0, <1>1, <1>2, <1>3, QuietHolds DEF Has
<1>6. Abandoned' = Abandoned
  BY <1>0 DEF Abandoned, LetGo
<1>7. Conserves
  BY <1>0, <1>4, <1>5, <1>6 DEF Conserves, LifeInv, ApiInv, ApiTypeOK
<1>8. Known'
  BY <1>0, <1>2, KnownFrame DEF LetGo
<1>9. Marked'
  BY <1>0, LegalKeeps DEF LifeInv, ApiInv, Marked, Grip
<1> QED
  BY <1>1, <1>7, <1>8, <1>9

\* put() by a worker that then holds the PCB no longer.
LEMMA PutConserves ==
    ASSUME LifeInv, ~PreemptInTransition, NEW w \in Workers, pc[w] \notin LetGo,
           NEW p \in LetGo \ {"idle", "exited"}, pc' = [pc EXCEPT ![w] = p],
           Put(w, held[w]), UNCHANGED <<held, stop, apiVars>>
    PROVE  Conserves /\ Quiet' /\ Known' /\ Marked'
<1>0. /\ pc \in [Workers -> PC] /\ w \in Threads /\ held[w] \in Agents
      /\ UNCHANGED <<born, cpc, target>> /\ Quiet /\ PcbTypeOK /\ QueueTypeOK
  BY LoopAssumption
  DEF LifeInv, ApiInv, Grip, LoopTypeOK, LetGo, apiVars, callerVars, tableVars
<1>p. /\ UNCHANGED pending /\ LegalStep
      /\ \A b \in Agents : Queued(b) => Queued(b)'
      /\ \A b \in Agents :
            Queued(b)' => Queued(b) \/ (b = held[w] /\ state'[b] = "READY")
      /\ Queued(held[w])' \/ IsTerminal(held[w])'
  BY <1>0, PutAtomic
<1>1. Quiet'
  BY <1>0, <1>p DEF Quiet, Settled
<1>2. \A t \in Threads, a \in Agents :
         /\ Grasps(t, a)' => Grasps(t, a)
         /\ Grasps(t, a) => Grasps(t, a)' \/ a = held[w]
  BY <1>0 DEF Grasps
<1>3. Grasps(w, held[w])
  BY DEF Grasps
<1>4. \A a \in Agents : Has(a)' => Has(a)
  BY <1>0, <1>p, <1>1, <1>2, <1>3, QuietHolds DEF Has
<1>5. \A a \in Agents : Has(a) => Has(a)' \/ IsTerminal(a)'
  BY <1>0, <1>p, <1>1, <1>2, QuietHolds DEF Has
<1>6. Abandoned' = Abandoned
  BY <1>0 DEF Abandoned, LetGo
<1>7. Conserves
  BY <1>0, <1>p, <1>4, <1>5, <1>6 DEF Conserves, LifeInv, ApiInv, ApiTypeOK
<1>8. Known'
  BY <1>0, <1>p, KnownFrame DEF LetGo
<1>9. Marked'
  BY <1>0, <1>p, LegalKeeps DEF LifeInv, ApiInv, Marked, Grip
<1> QED
  BY <1>1, <1>7, <1>8, <1>9

\* The steps of the loop that both pools take conserve the agents, given that
\* an agent a worker does not carry on with is finished.
LEMMA LoopConserves ==
    ASSUME LifeInv, ~PreemptInTransition, NEW w \in Workers, UNCHANGED apiVars,
           NEW keepGoing,
           LoopStep(w) \/ Finish(w) \/ Conclude(w, keepGoing),
           pc[w] = "pipe" => keepGoing \/ IsTerminal(held[w]) \/ stop
    PROVE  Conserves /\ Quiet' /\ Known' /\ Marked'
<1>0. /\ pc \in [Workers -> PC] /\ w \in Threads /\ DOMAIN held = Workers
      /\ PcbTypeOK /\ QueueTypeOK /\ Quiet
      /\ pc[w] \notin {"idle", "exited"} => held[w] \in Agents
      /\ pc[w] \notin {"idle", "exited"} => state[held[w]] # "NEW"
      /\ UNCHANGED <<born, cpc, target>> /\ born \subseteq Agents
  BY LoopAssumption
  DEF LifeInv, ApiInv, ApiTypeOK, Grip, Known, LoopTypeOK, apiVars, callerVars,
      tableVars
<1>l. UNCHANGED state => LegalStep
  BY DEF LegalStep
<1>t. ASSUME NEW s \in {"WAITING", "ERROR"}, pc[w] \notin {"idle", "exited"},
             Transition(w, held[w], s), UNCHANGED held
      PROVE  /\ UNCHANGED pending /\ LegalStep
             /\ s = "ERROR" => IsTerminal(held[w])'
  <2>1. s \in AgentState \ {"NEW"}
    BY DEF AgentState, LiveStates, TerminalStates
  <2>2. UNCHANGED pending /\ LegalStep
    BY <1>0, <1>t, <2>1, TransitionAtomic, TransitionLegal
  <2>3. s = "ERROR" => IsTerminal(held[w])'
    BY <1>0, <1>t, TransitionAtomic DEF IsTerminal, TerminalStates
  <2> QED
    BY <2>2, <2>3
<1>m. UNCHANGED state => (IsTerminal(held[w]) /\ UNCHANGED held => IsTerminal(held[w])')
  BY DEF IsTerminal
<1> USE DEF At, Goto, queueVars, pcbVars, PC, LetGo
<1>1. CASE Pick(w)
  <2>1. PICK i \in 1 .. Len(queue) : /\ queue' = RemoveAt(queue, i)
                                     /\ held' = [held EXCEPT ![w] = queue[i]]
    BY <1>1 DEF Pick, PopSelected
  <2>2. /\ pc[w] = "idle" /\ pc' = [pc EXCEPT ![w] = "dispatch"]
        /\ UNCHANGED <<state, pending, stop>>
    BY <1>1 DEF Pick
  <2>3. queue[i] \in Agents /\ Queued(queue[i])
    BY <1>0 DEF QueueTypeOK, Queued
  <2>4. \A b \in Agents : /\ Queued(b)' => Queued(b)
                          /\ Queued(b) => Queued(b)' \/ b = queue[i]
    BY <1>0, <2>1, RemoveKeeps
  <2>5. Quiet'
    BY <1>0, <2>2 DEF Quiet, Settled
  <2>6. \A t \in Threads, a \in Agents :
           /\ Grasps(t, a)' => Grasps(t, a) \/ a = queue[i]
           /\ Grasps(t, a) => Grasps(t, a)'
    BY <1>0, <2>1, <2>2 DEF Grasps
  <2>7. \A a \in Agents : a = queue[i] => Grasps(w, a)'
    BY <1>0, <2>1, <2>2 DEF Grasps
  <2>8. \A a \in Agents : Has(a)' => Has(a)
    BY <1>0, <2>3, <2>4, <2>5, <2>6, QuietHolds DEF Has
  <2>9. \A a \in Agents : Has(a) => Has(a)'
    BY <1>0, <2>3, <2>4, <2>5, <2>6, <2>7, QuietHolds DEF Has
  <2>10. Abandoned' = Abandoned
    BY <1>0, <2>1, <2>2 DEF Abandoned
  <2>11. Conserves
    BY <1>0, <1>l, <2>2, <2>8, <2>9, <2>10 DEF Conserves
  <2>12. state[queue[i]] # "NEW"
    BY <2>3 DEF LifeInv, Known
  <2>13. Known'
    BY <1>0, <1>l, <2>1, <2>2, <2>3, <2>4, <2>12, KnownFrame
  <2>14. Marked'
    BY <1>0, <2>2 DEF LifeInv, Marked, IsTerminal
  <2> QED
    BY <2>5, <2>11, <2>13, <2>14
<1>2. CASE Requeue(w)
  BY <1>2, PutConserves DEF Requeue
<1>3. CASE Finish(w) \/ Exit(w)
  <2>1. /\ pc[w] \in {"finish", "idle"} /\ UNCHANGED <<state, pending, queue, stop>>
        /\ \A v \in Workers : v # w => pc'[v] = pc[v] /\ held'[v] = held[v]
        /\ \/ pc'[w] = "idle"
           \/ pc'[w] = "exited" /\ UNCHANGED held
    BY <1>0, <1>3 DEF Finish, Exit, TaskDone
  <2>2. Quiet'
    BY <1>0, <2>1 DEF Quiet, Settled
  <2>3. \A a \in Agents : Queued(a)' <=> Queued(a)
    BY <2>1 DEF Queued
  <2>4. \A t \in Threads, a \in Agents : Grasps(t, a)' <=> Grasps(t, a)
    BY <1>0, <2>1 DEF Grasps
  <2>5. \A a \in Agents : Has(a)' <=> Has(a)
    BY <1>0, <2>2, <2>3, <2>4, QuietHolds DEF Has
  <2>6. Abandoned \subseteq Abandoned'
    BY <1>0, <2>1 DEF Abandoned
  <2>7. Conserves
    BY <1>0, <1>l, <2>1, <2>5, <2>6 DEF Conserves
  <2>8. Known'
    BY <1>0, <1>l, <2>1, <2>3, KnownFrame
  <2>9. Marked'
    BY <1>0, <2>1 DEF LifeInv, Marked, IsTerminal
  <2> QED
    BY <2>2, <2>7, <2>8, <2>9
<1>4. CASE Dispatch(w)
  BY <1>0, <1>4, <1>l, <1>m, WorkerConserves DEF Dispatch
<1>5. CASE ReceiveInput(w)
  BY <1>0, <1>5, <1>l, WorkerConserves DEF ReceiveInput
<1>6. CASE Repark(w)
  BY <1>0, <1>6, <1>t, WorkerConserves DEF Repark
<1>7. CASE Conclude(w, keepGoing)
  <2>1. Forwards(held[w]) => IsTerminal(held[w])
    BY DEF Forwards, IsTerminal, TerminalStates
  <2> QED
    BY <1>0, <1>7, <1>l, <1>m, <2>1, WorkerConserves DEF Conclude
<1> QED
  BY <1>1, <1>2, <1>3, <1>4, <1>5, <1>6, <1>7 DEF LoopStep

-----------------------------------------------------------------------------
(***************************************************************************)
(* The steps of the callers                                                *)
(***************************************************************************)
\* A step of a caller that neither takes a PCB in hand nor lets go of one, and
\* takes off the queue at most a finished one.
LEMMA CallerFrameConserves ==
    ASSUME LifeInv, LegalStep, NEW c \in Callers, NEW p, NEW x,
           UNCHANGED <<pending, pc, held, born>>, stop => stop',
           cpc[c] # "spawn", p # "spawn",
           cpc' = [cpc EXCEPT ![c] = p], target' = [target EXCEPT ![c] = x],
           p \in {"signal", "strike", "pop", "reap"} =>
              x \in Agents /\ IsTerminal(x)',
           \A b \in Agents : /\ Queued(b)' => Queued(b)
                             /\ Queued(b) => Queued(b)' \/ IsTerminal(b)'
    PROVE  Conserves /\ Quiet' /\ Known' /\ Marked'
<1>0. /\ DOMAIN cpc = Callers /\ DOMAIN target = Callers
      /\ Quiet /\ born \subseteq Agents
  BY DEF LifeInv, ApiInv, ApiTypeOK
<1>1. Quiet'
  BY <1>0 DEF Quiet, Settled
<1>2. \A t \in Threads, a \in Agents : Grasps(t, a)' <=> Grasps(t, a)
  BY <1>0 DEF Grasps
<1>3. \A a \in Agents : Has(a)' => Has(a)
  BY <1>0, <1>1, <1>2, QuietHolds DEF Has
<1>4. \A a \in Agents : Has(a) => Has(a)' \/ IsTerminal(a)'
  BY <1>0, <1>1, <1>2, QuietHolds DEF Has
<1>5. Abandoned' = Abandoned
  BY DEF Abandoned
<1>6. Conserves
  BY <1>0, <1>3, <1>4, <1>5 DEF Conserves
<1>7. Known'
  BY KnownFrame
<1>8. ASSUME NEW d \in Callers, cpc'[d] \in {"signal", "strike", "pop", "reap"}
      PROVE  state'[target'[d]] \in TerminalStates
  <2>1. CASE d = c
    BY <1>0, <1>8, <2>1 DEF IsTerminal
  <2>2. CASE d # c
    <3>1. cpc'[d] = cpc[d] /\ target'[d] = target[d]
      BY <1>0, <2>2
    <3>2. IsTerminal(target[d]) /\ target[d] \in Agents
      BY <1>8, <3>1 DEF LifeInv, Marked, ApiInv, Grip
    <3>3. state'[target[d]] = state[target[d]]
      BY <3>2, LegalKeeps
    <3> QED
      BY <3>1, <3>2, <3>3 DEF IsTerminal
  <2> QED
    BY <2>1, <2>2
<1>9. Marked'
  BY <1>8 DEF Marked, IsTerminal
<1> QED
  BY <1>1, <1>6, <1>7, <1>9

\* spawn() takes up a new agent.
LEMMA SpawnConserves ==
    ASSUME LifeInv, ~PreemptInTransition, NEW c \in Callers, NEW a \in Agents,
           SpawnRegister(c, a)
    PROVE  Conserves /\ Quiet' /\ Known' /\ Marked'
<1>0. /\ DOMAIN cpc = Callers /\ DOMAIN target = Callers /\ c \in Threads
      /\ Quiet /\ born \subseteq Agents /\ PcbTypeOK
  BY ApiAssumption DEF LifeInv, ApiInv, ApiTypeOK
<1>1. /\ a \notin born /\ born' = born \cup {a} /\ cpc[c] = "free"
      /\ cpc' = [cpc EXCEPT ![c] = "spawn"]
      /\ target' = [target EXCEPT ![c] = a]
      /\ UNCHANGED <<queue, pc, held, stop>>
  BY DEF SpawnRegister, CallerAt, Open, CallerGoto, queueVars, loopVars
<1>2. UNCHANGED pending /\ LegalStep
  <2>1. CASE Transition(c, a, "WAITING")
    <3>1. "WAITING" \in AgentState \ {"NEW"}
      BY DEF AgentState, LiveStates
    <3> QED
      BY <1>0, <2>1, <3>1, TransitionAtomic, TransitionLegal
  <2>2. CASE UNCHANGED pcbVars
    BY <2>2 DEF LegalStep, pcbVars
  <2> QED
    BY <2>1, <2>2 DEF SpawnRegister
<1>3. Quiet'
  BY <1>0, <1>2 DEF Quiet, Settled
<1>4. \A b \in Agents : Queued(b)' <=> Queued(b)
  BY <1>1 DEF Queued
<1>5. \A t \in Threads, b \in Agents :
         /\ Grasps(t, b)' => Grasps(t, b) \/ b = a
         /\ Grasps(t, b) => Grasps(t, b)'
  BY <1>0, <1>1 DEF Grasps
<1>6. Grasps(c, a)'
  BY <1>0, <1>1 DEF Grasps
<1>7. \A b \in Agents : Has(b)' => Has(b) \/ b \notin born
  BY <1>0, <1>1, <1>3, <1>4, <1>5, QuietHolds DEF Has
<1>8. \A b \in Agents : Has(b) \/ b = a => Has(b)'
  BY <1>0, <1>3, <1>4, <1>5, <1>6, QuietHolds DEF Has
<1>9. Abandoned' = Abandoned
  BY <1>1 DEF Abandoned
<1>10. Conserves
  BY <1>0, <1>1, <1>2, <1>7, <1>8, <1>9 DEF Conserves
<1>11. Known'
  BY <1>1, <1>2, <1>4, KnownFrame
<1>12. ASSUME NEW d \in Callers, cpc'[d] \in {"signal", "strike", "pop", "reap"}
       PROVE  state'[target'[d]] \in TerminalStates
  <2>1. cpc'[d] = cpc[d] /\ target'[d] = target[d]
    BY <1>0, <1>1, <1>12
  <2>2. IsTerminal(target[d]) /\ target[d] \in Agents
    BY <1>12, <2>1 DEF LifeInv, Marked, ApiInv, Grip
  <2>3. state'[target[d]] = state[target[d]]
    BY <1>2, <2>2, LegalKeeps
  <2> QED
    BY <2>1, <2>2, <2>3 DEF IsTerminal
<1>13. Marked'
  BY <1>12 DEF Marked, IsTerminal
<1> QED
  BY <1>3, <1>10, <1>11, <1>13

\* The put() that ends spawn().
LEMMA EnqueueConserves ==
    ASSUME LifeInv, ~PreemptInTransition, NEW c \in Callers, SpawnEnqueue(c)
    PROVE  Conserves /\ Quiet' /\ Known' /\ Marked'
<1>0. /\ DOMAIN cpc = Callers /\ DOMAIN target = Callers /\ c \in Threads
      /\ Quiet /\ born \subseteq Agents /\ PcbTypeOK /\ QueueTypeOK
  BY ApiAssumption DEF LifeInv, ApiInv, ApiTypeOK
<1>1. /\ cpc[c] = "spawn" /\ Put(c, target[c]) /\ cpc' = [cpc EXCEPT ![c] = "free"]
      /\ target' = [target EXCEPT ![c] = NoAgent]
      /\ UNCHANGED <<pc, held, stop, born>>
  BY DEF SpawnEnqueue, CallerAt, CallerGoto, loopVars, tableVars
<1>2. target[c] \in Agents
  BY <1>1 DEF LifeInv, ApiInv, Grip
<1>p. /\ UNCHANGED pending /\ LegalStep
      /\ \A b \in Agents : Queued(b) => Queued(b)'
      /\ \A b \in Agents :
            Queued(b)' => Queued(b) \/ (b = target[c] /\ state'[b] = "READY")
      /\ \A b \in Agents : b = target[c] => Queued(b)' \/ IsTerminal(b)'
  BY <1>0, <1>1, <1>2, PutAtomic
<1>3. Quiet'
  BY <1>0, <1>p DEF Quiet, Settled
<1>4. \A t \in Threads, a \in Agents :
         /\ Grasps(t, a)' => Grasps(t, a)
         /\ Grasps(t, a) => Grasps(t, a)' \/ a = target[c]
  BY <1>0, <1>1 DEF Grasps
<1>5. Grasps(c, target[c])
  BY <1>1 DEF Grasps
<1>6. \A a \in Agents : Has(a)' => Has(a)
  BY <1>0, <1>p, <1>3, <1>4, <1>5, QuietHolds DEF Has
<1>7. \A a \in Agents : Has(a) => Has(a)' \/ IsTerminal(a)'
  BY <1>0, <1>p, <1>3, <1>4, QuietHolds DEF Has
<1>8. Abandoned' = Abandoned
  BY <1>1 DEF Abandoned
<1>9. Conserves
  BY <1>0, <1>1, <1>p, <1>6, <1>7, <1>8 DEF Conserves
<1>10. Known'
  BY <1>1, <1>p, KnownFrame
<1>11. Marked'
  BY <1>0, <1>1, <1>p, LegalKeeps DEF LifeInv, ApiInv, Marked, Grip
<1> QED
  BY <1>3, <1>9, <1>10, <1>11

\* Every step of a caller conserves the agents.
LEMMA CallerConserves ==
    ASSUME LifeInv, ~PreemptInTransition, NEW c \in Callers, Caller(c)
    PROVE  Conserves /\ Quiet' /\ Known' /\ Marked'
<1>0. /\ DOMAIN cpc = Callers /\ DOMAIN target = Callers
      /\ todo \in [Callers -> SUBSET Agents]
      /\ PcbTypeOK /\ QueueTypeOK
      /\ cpc[c] \notin {"free", "slay", "join"} => target[c] \in Agents
      /\ cpc[c] \in {"pop", "reap"} => IsTerminal(target[c])
  BY DEF LifeInv, ApiInv, ApiTypeOK, Grip, Marked
<1>1. ASSUME NEW a \in Agents, SpawnRegister(c, a)
      PROVE  Conserves /\ Quiet' /\ Known' /\ Marked'
  BY <1>1, SpawnConserves
<1>2. CASE SpawnEnqueue(c)
  BY <1>2, EnqueueConserves
<1>f. /\ UNCHANGED queue => \A b \in Agents : Queued(b)' <=> Queued(b)
      /\ UNCHANGED state => LegalStep
      /\ UNCHANGED state => \A b : IsTerminal(b) => IsTerminal(b)'
      /\ UNCHANGED cpc => cpc' = [cpc EXCEPT ![c] = cpc[c]]
      /\ UNCHANGED target => target' = [target EXCEPT ![c] = target[c]]
  <2>1. cpc = [cpc EXCEPT ![c] = cpc[c]] /\ target = [target EXCEPT ![c] = target[c]]
    BY <1>0 DEF LifeInv, ApiInv, ApiTypeOK
  <2> QED
    BY <2>1 DEF Queued, LegalStep, IsTerminal
<1>z. ASSUME NEW a \in Agents, Transition(c, a, "ZOMBIE")
      PROVE  UNCHANGED pending /\ LegalStep /\ IsTerminal(a)'
  <2>1. "ZOMBIE" \in AgentState \ {"NEW"}
    BY DEF AgentState, TerminalStates
  <2> QED
    BY <1>0, <1>z, <2>1, TransitionAtomic, TransitionLegal
    DEF IsTerminal, TerminalStates
<1> USE DEF CallerAt, Open, CallerGoto, pcbVars, queueVars, loopVars, tableVars,
            callerVars, apiVars
<1>3. ASSUME NEW a \in Agents, KillCollect(c, a)
      PROVE  Conserves /\ Quiet' /\ Known' /\ Marked'
  BY <1>3, <1>f, CallerFrameConserves DEF KillCollect
<1>4. CASE KillMark(c)
  <2>1. PICK p \in {"signal", "pop"} : cpc' = [cpc EXCEPT ![c] = p]
    BY <1>4 DEF KillMark
  <2>2. /\ cpc[c] = "kill" /\ Transition(c, target[c], "ZOMBIE")
        /\ UNCHANGED <<queue, pc, held, stop, born, target>>
    BY <1>4 DEF KillMark
  <2>3. target[c] \in Agents
    BY <1>0, <2>2
  <2>4. /\ UNCHANGED pending /\ LegalStep
        /\ \A b \in Agents : b = target[c] => IsTerminal(b)'
    BY <1>z, <2>2, <2>3
  <2> QED
    BY <1>f, <2>1, <2>2, <2>3, <2>4, CallerFrameConserves
<1>5. CASE KillDequeue(c)
  <2>1. /\ cpc[c] = "pop" /\ PopAgent(target[c]) /\ cpc' = [cpc EXCEPT ![c] = "reap"]
        /\ UNCHANGED <<state, pending, pc, held, stop, born, target>>
    BY <1>5 DEF KillDequeue
  <2>2. target[c] \in Agents /\ IsTerminal(target[c])
    BY <1>0, <2>1
  <2>3. \A b \in Agents : /\ Queued(b)' => Queued(b)
                          /\ Queued(b) => Queued(b)' \/ b = target[c]
    <3>1. CASE UNCHANGED queue
      BY <1>f, <3>1
    <3>2. ASSUME NEW i \in 1 .. Len(queue), queue[i] = target[c],
                 queue' = RemoveAt(queue, i)
          PROVE  \A b \in Agents : /\ Queued(b)' => Queued(b)
                                   /\ Queued(b) => Queued(b)' \/ b = target[c]
      BY <1>0, <3>2, RemoveKeeps
    <3> QED
      BY <2>1, <3>1, <3>2 DEF PopAgent
  <2>4. \A b \in Agents : b = target[c] => IsTerminal(b)'
    BY <2>1, <2>2 DEF IsTerminal
  <2> QED
    BY <1>f, <2>1, <2>2, <2>3, <2>4, CallerFrameConserves
<1>6. CASE KillReap(c)
  <2>1. PICK d \in todo[c] : Transition(c, d, "ZOMBIE")
    BY <1>6 DEF KillReap
  <2>2. /\ cpc[c] = "reap"
        /\ UNCHANGED <<queue, pc, held, stop, born, target, cpc>>
    BY <1>6 DEF KillReap
  <2>3. UNCHANGED pending /\ LegalStep
    BY <1>0, <1>z, <2>1
  <2>4. target[c] \in Agents /\ \A b \in Agents : b = target[c] => IsTerminal(b)'
    BY <1>0, <2>2, <2>3, LegalKeeps
  <2> QED
    BY <1>f, <2>2, <2>3, <2>4, CallerFrameConserves
<1>7. CASE KillReturn(c)
  BY <1>7, <1>f, CallerFrameConserves DEF KillReturn
<1>8. CASE ReapTerminal(c)
  BY <1>8, <1>f, CallerFrameConserves DEF ReapTerminal
<1>9. CASE TopupQuota(c)
  BY <1>9, <1>f, CallerFrameConserves DEF TopupQuota
<1>10. CASE Shutdown(c)
  <2>1. PICK p \in {"slay", "join"} : cpc' = [cpc EXCEPT ![c] = p]
    BY <1>10 DEF Shutdown
  <2> QED
    BY <1>10, <1>f, <2>1, CallerFrameConserves, ZenonT(60) DEF Shutdown
<1>11. CASE ShutdownReturn(c)
  BY <1>11, <1>f, CallerFrameConserves DEF ShutdownReturn
<1> QED
  BY <1>1, <1>2, <1>3, <1>4, <1>5, <1>6, <1>7, <1>8, <1>9, <1>10, <1>11
  DEF Caller

\* With no thread inside transition() there is no write to complete.
LEMMA QuietNoWrite ==
    ASSUME Quiet, NEW t \in Threads, CompleteWrite(t)
    PROVE  FALSE
  BY DEF Quiet, CompleteWrite, FinishWrite

\* The kernel boots with nobody inside transition() and nothing queued.
LEMMA LifeInit ==
    ASSUME PcbInit, QueueInit, LoopInit, ApiInit
    PROVE  Quiet /\ Known /\ Marked /\ NoAgentLost
<1>1. 1 .. Len(queue) = {}
  BY DEF QueueInit
<1> QED
  BY <1>1
  DEF PcbInit, LoopInit, ApiInit, Quiet, Settled, Known, Queued, Marked, NoAgentLost

-----------------------------------------------------------------------------
(***************************************************************************)
(* Pipes                                                                   *)
(***************************************************************************)
\* The result of a waits in a mailbox, or was put into a prompt.
Sent(a) ==
    \E b \in Agents : \/ \E i \in 1 .. Len(mailbox[b]) : mailbox[b][i] = a
                      \/ inputOf[b] = a

\* Whoever was piped is DONE and nobody will look at it again.
SentInv == \A a \in Agents : Sent(a) => state[a] = "DONE" /\ a \in born /\ ~Has(a)

\* A mailbox holds no result twice, nor one its owner has received.
BoxInv ==
    \A b \in Agents :
        /\ \A i \in 1 .. Len(mailbox[b]) : inputOf[b] # mailbox[b][i]
        /\ \A i, j \in 1 .. Len(mailbox[b]) : mailbox[b][i] = mailbox[b][j] => i = j

PipedInv == SentInv /\ BoxInv

\* They say what the kernel promises.
LEMMA PipedInvSuffices ==
    ASSUME ApiInv, PipedInv
    PROVE  PipedOnceByDone
<1>1. /\ mailbox \in [Agents -> Seq(Agents)]
      /\ inputOf \in [Agents -> Agents \cup {NoAgent}]
  BY DEF ApiInv, BusTypeOK, LoopTypeOK
<1> SUFFICES ASSUME NEW a \in Agents
             PROVE  /\ \A i \in 1 .. Len(mailbox[a]) :
                          /\ state[mailbox[a][i]] = "DONE"
                          /\ inputOf[a] # mailbox[a][i]
                    /\ IsInjective(mailbox[a])
                    /\ inputOf[a] # NoAgent => state[inputOf[a]] = "DONE"
  BY DEF PipedOnceByDone
<1>2. mailbox[a] \in Seq(Agents)
  BY <1>1
<1>3. \A i \in 1 .. Len(mailbox[a]) : state[mailbox[a][i]] = "DONE"
  BY <1>2 DEF PipedInv, SentInv, Sent
<1>4. inputOf[a] # NoAgent => state[inputOf[a]] = "DONE"
  BY <1>1 DEF PipedInv, SentInv, Sent
<1>5. IsInjective(mailbox[a])
  BY <1>2 DEF PipedInv, BoxInv, IsInjective
<1> QED
  BY <1>3, <1>4, <1>5 DEF PipedInv, BoxInv

\* Steps that conserve the agents and pipe nothing keep the invariant.
LEMMA SentFrame ==
    ASSUME SentInv, Conserves, \A a \in Agents : Sent(a)' => Sent(a)
    PROVE  SentInv'
<1> SUFFICES ASSUME NEW a \in Agents, Sent(a)'
             PROVE  state'[a] = "DONE" /\ a \in born' /\ ~Has(a)'
  BY DEF SentInv
<1>1. state[a] = "DONE" /\ a \in born /\ ~Has(a)
  BY DEF SentInv
<1>2. state'[a] = state[a]
  BY <1>1, LegalKeeps DEF Conserves, IsTerminal, TerminalStates
<1> QED
  BY <1>1, <1>2 DEF Conserves

\* Dropping mailboxes, or leaving them alone, keeps it.
LEMMA PipeFrame ==
    ASSUME PipedInv, Conserves, UNCHANGED inputOf,
           \A b \in Agents : mailbox'[b] = mailbox[b] \/ mailbox'[b] = <<>>
    PROVE  PipedInv'
<1>1. 1 .. Len(<<>>) = {}
  OBVIOUS
<1>2. \A b \in Agents : \A i \in 1 .. Len(mailbox'[b]) : mailbox'[b] = mailbox[b]
  BY <1>1
<1>3. \A a \in Agents : Sent(a)' => Sent(a)
  BY <1>2 DEF Sent
<1>4. SentInv'
  BY <1>3, SentFrame DEF PipedInv
<1>5. BoxInv'
  BY <1>2 DEF PipedInv, BoxInv
<1> QED
  BY <1>4, <1>5 DEF PipedInv

\* A received result moves from the mailbox into the prompt.
LEMMA PipeReceive ==
    ASSUME ApiInv, PipedInv, Conserves, NEW a \in Agents, mailbox[a] # <<>>,
           mailbox' = [mailbox EXCEPT ![a] = Tail(@)],
           inputOf' = [inputOf EXCEPT ![a] = Head(mailbox[a])]
    PROVE  PipedInv'
<1>0. /\ mailbox \in [Agents -> Seq(Agents)] /\ mailbox[a] \in Seq(Agents)
      /\ inputOf \in [Agents -> Agents \cup {NoAgent}]
  BY DEF ApiInv, BusTypeOK, LoopTypeOK
<1>1. /\ Len(mailbox[a]) \in Nat \ {0} /\ Head(mailbox[a]) = mailbox[a][1]
      /\ Len(Tail(mailbox[a])) = Len(mailbox[a]) - 1
      /\ \A i \in 1 .. Len(mailbox[a]) - 1 : Tail(mailbox[a])[i] = mailbox[a][i + 1]
  BY <1>0, HeadTailProperties, EmptySeq
<1>2. /\ mailbox'[a] = Tail(mailbox[a]) /\ inputOf'[a] = mailbox[a][1]
      /\ \A b \in Agents :
            b # a => mailbox'[b] = mailbox[b] /\ inputOf'[b] = inputOf[b]
  BY <1>0, <1>1
<1>3. \A i \in 1 .. Len(mailbox'[a]) :
         i + 1 \in 1 .. Len(mailbox[a]) /\ i + 1 # 1
         /\ mailbox'[a][i] = mailbox[a][i + 1]
  <2>1. Len(mailbox'[a]) = Len(mailbox[a]) - 1
    BY <1>1, <1>2
  <2>2. ASSUME NEW i \in 1 .. Len(mailbox[a]) - 1
        PROVE  i + 1 \in 1 .. Len(mailbox[a]) /\ i + 1 # 1
    BY <1>1
  <2> QED
    BY <1>1, <1>2, <2>1, <2>2
<1>4. \A i, j \in 1 .. Len(mailbox'[a]) : i + 1 = j + 1 => i = j
  BY <1>1, <1>2
<1>5. 1 \in 1 .. Len(mailbox[a])
  BY <1>1
<1>6. \A x \in Agents : Sent(x)' => Sent(x)
  BY <1>2, <1>3, <1>5 DEF Sent
<1>7. SentInv'
  BY <1>6, SentFrame DEF PipedInv
<1>8. BoxInv'
  BY <1>2, <1>3, <1>4, <1>5 DEF PipedInv, BoxInv
<1> QED
  BY <1>7, <1>8 DEF PipedInv

\* A worker that pipes the result of an agent it holds, and lets go of it.
LEMMA PipeSend ==
    ASSUME ApiInv, Quiet', DispatchInv, PipedInv, Conserves, NEW w \in Workers,
           held[w] \in Agents, pc[w] \notin LetGo,
           state[held[w]] = "DONE", NEW to \in Agents, Send(held[w], to),
           pc' = [pc EXCEPT ![w] = "finish"],
           UNCHANGED <<queue, held, inputOf, cpc, target>>
    PROVE  PipedInv'
<1>0. /\ mailbox \in [Agents -> Seq(Agents)] /\ mailbox[to] \in Seq(Agents)
      /\ DOMAIN pc = Workers /\ w \in Threads
      /\ SingleDispatch /\ BornInv
  BY LoopAssumption DEF ApiInv, BusTypeOK, LoopTypeOK, DispatchInv
<1>1. Holds(w, held[w]) /\ Has(held[w]) /\ ~Sent(held[w])
  BY <1>0 DEF Holds, Has, PipedInv, SentInv
<1>2. /\ Len(Append(mailbox[to], held[w])) = Len(mailbox[to]) + 1
      /\ Append(mailbox[to], held[w])[Len(mailbox[to]) + 1] = held[w]
      /\ \A i \in 1 .. Len(mailbox[to]) :
            Append(mailbox[to], held[w])[i] = mailbox[to][i]
      /\ Len(mailbox[to]) \in Nat
  BY <1>0, AppendProperties
<1>3. \/ mailbox' = mailbox
      \/ mailbox' = [mailbox EXCEPT ![to] = Append(@, held[w])]
  BY DEF Send
<1>4. ASSUME NEW a \in Agents, Sent(a)' PROVE Sent(a) \/ a = held[w]
  <2>1. CASE mailbox' = mailbox
    BY <1>4, <2>1 DEF Sent
  <2>2. CASE mailbox' = [mailbox EXCEPT ![to] = Append(@, held[w])]
    <3>1. \A b \in Agents : \A i \in 1 .. Len(mailbox'[b]) :
             mailbox'[b][i] = held[w]
             \/ (i \in 1 .. Len(mailbox[b]) /\ mailbox'[b][i] = mailbox[b][i])
      BY <1>0, <1>2, <2>2
    <3> QED
      BY <1>4, <3>1 DEF Sent
  <2> QED
    BY <1>3, <2>1, <2>2
<1>5. ASSUME NEW a \in Agents, a = held[w]
      PROVE  state'[a] = "DONE" /\ a \in born' /\ ~Has(a)'
  <2>1. state'[a] = "DONE" /\ a \in born'
    BY <1>0, <1>1, <1>5, LegalKeeps
    DEF BornInv, Conserves, IsTerminal, TerminalStates
  <2>2. ~Queued(a)'
    BY <1>0, <1>1, <1>5 DEF SingleDispatch, Queued
  <2>3. \A t \in Threads : Grasps(t, a)' => Holds(t, a) /\ t # w
    BY <1>0, ApiAssumption DEF Grasps, Holds, LetGo
  <2>4. \A t \in Threads : ~Holds(t, a)'
    BY <1>0, <1>1, <1>5, <2>3, QuietHolds DEF SingleDispatch
  <2> QED
    BY <2>1, <2>2, <2>4 DEF Has
<1>6. SentInv'
  <2>1. ASSUME NEW a \in Agents, Sent(a)
        PROVE  state'[a] = "DONE" /\ a \in born' /\ ~Has(a)'
    <3>1. state[a] = "DONE" /\ a \in born /\ ~Has(a)
      BY <2>1 DEF PipedInv, SentInv
    <3>2. state'[a] = state[a]
      BY <3>1, LegalKeeps DEF Conserves, IsTerminal, TerminalStates
    <3> QED
      BY <3>1, <3>2 DEF Conserves
  <2> QED
    BY <1>4, <1>5, <2>1 DEF SentInv
<1>7. BoxInv'
  <2>1. CASE mailbox' = mailbox
    BY <2>1 DEF PipedInv, BoxInv
  <2>2. CASE mailbox' = [mailbox EXCEPT ![to] = Append(@, held[w])]
    <3>1. /\ mailbox'[to] = Append(mailbox[to], held[w])
          /\ \A b \in Agents : b # to => mailbox'[b] = mailbox[b]
      BY <1>0, <2>2
    <3>2. inputOf[to] # held[w] /\ \A i \in 1 .. Len(mailbox[to]) : mailbox[to][i] # held[w]
      BY <1>1 DEF Sent
    <3>3. \A i \in 1 .. Len(mailbox'[to]) :
             \/ i \in 1 .. Len(mailbox[to]) /\ mailbox'[to][i] = mailbox[to][i]
             \/ i = Len(mailbox[to]) + 1 /\ mailbox'[to][i] = held[w]
      BY <1>2, <3>1
    <3>4. /\ \A i \in 1 .. Len(mailbox'[to]) : inputOf[to] # mailbox'[to][i]
          /\ \A i, j \in 1 .. Len(mailbox'[to]) :
                mailbox'[to][i] = mailbox'[to][j] => i = j
      BY <3>2, <3>3 DEF PipedInv, BoxInv
    <3> QED
      BY <3>1, <3>4 DEF PipedInv, BoxInv
  <2> QED
    BY <1>3, <2>1, <2>2
<1> QED
  BY <1>6, <1>7 DEF PipedInv

\* The steps of the loop that both pools take keep the pipes right.
LEMMA LoopPipe ==
    ASSUME ApiInv, Quiet', DispatchInv, PipedInv, Conserves, NEW w \in Workers,
           UNCHANGED apiVars, NEW keepGoing,
           LoopStep(w) \/ Finish(w) \/ Conclude(w, keepGoing)
    PROVE  PipedInv'
<1>0. pc[w] \notin {"idle", "exited"} => held[w] \in Agents
  BY DEF ApiInv, Grip
<1>1. CASE ReceiveInput(w)
  BY <1>0, <1>1, PipeReceive DEF ReceiveInput, Receive, At
<1>2. CASE Conclude(w, keepGoing) /\ Forwards(held[w]) /\ Send(held[w], PipeTo[held[w]])
           /\ Goto(w, "finish")
  <2>1. /\ pc[w] = "pipe" /\ held[w] \in Agents
        /\ UNCHANGED <<queue, held, inputOf, cpc, target>>
    BY <1>0, <1>2 DEF Conclude, At, queueVars, agentVars, apiVars, callerVars
  <2>2. state[held[w]] = "DONE" /\ PipeTo[held[w]] \in Agents
    BY <1>2, <2>1, BusAssumption DEF Forwards
  <2> QED
    BY <1>2, <2>1, <2>2, PipeSend DEF Goto, LetGo
<1>3. CASE UNCHANGED <<mailbox, inputOf>>
  BY <1>3, PipeFrame
<1>4. \/ ReceiveInput(w)
      \/ /\ Conclude(w, keepGoing) /\ Forwards(held[w])
         /\ Send(held[w], PipeTo[held[w]]) /\ Goto(w, "finish")
      \/ UNCHANGED <<mailbox, inputOf>>
  BY DEF LoopStep, Pick, Exit, Finish, Dispatch, Repark, Requeue, Conclude, Listen,
         ReceiveNothing, busVars, agentVars
<1> QED
  BY <1>1, <1>2, <1>3, <1>4

\* Callers only drop mailboxes.
LEMMA CallerPipe ==
    ASSUME PipedInv, Conserves, NEW c \in Callers, Caller(c)
    PROVE  PipedInv'
<1>1. \A S : Drop(S) => \A b \in Agents : mailbox'[b] = mailbox[b] \/ mailbox'[b] = <<>>
  BY DEF Drop
<1>2. UNCHANGED inputOf
  BY DEF Caller, SpawnRegister, KillCollect, SpawnEnqueue, KillMark, KillDequeue,
         KillReap, KillReturn, ReapTerminal, TopupQuota, Shutdown, ShutdownReturn,
         loopVars, agentVars
<1>3. UNCHANGED mailbox \/ \E S \in {victims[c], Agents} \cup {{a} : a \in table} : Drop(S)
  BY DEF Caller, SpawnRegister, KillCollect, SpawnEnqueue, KillMark, KillDequeue,
         KillReap, KillReturn, ReapTerminal, TopupQuota, Shutdown, ShutdownReturn,
         busVars
<1> QED
  BY <1>1, <1>2, <1>3, PipeFrame

\* The kernel boots with empty mailboxes.
LEMMA PipeInit ==
    ASSUME BusInit, LoopInit
    PROVE  PipedInv
<1>1. 1 .. Len(<<>>) = {}
  OBVIOUS
<1>2. \A b \in Agents : mailbox[b] = <<>> /\ inputOf[b] = NoAgent
  BY DEF BusInit, LoopInit
<1> QED
  BY <1>1, <1>2, PidAssumption DEF PipedInv, SentInv, Sent, BoxInv

-----------------------------------------------------------------------------
(***************************************************************************)
(* What kill() leaves behind                                               *)
(***************************************************************************)
\* reap_terminal() is not called while a kill() is under way: it is not called
\* at all, or by the one caller there is.
NoReapAmidKill == "reap" \in Ops => \A c, d \in Callers : c = d

Collected(c) == victims[c] \subseteq {target[c]} \cup Descendants(target[c])

\* Until reap_descendants looks again, kill()'s victims are still found under
\* its target; then each is finished or waits for its turn in the loop.
KillInv ==
    \A c \in Callers :
        /\ cpc[c] \in {"kill", "signal", "strike", "pop"} => Collected(c)
        /\ cpc[c] = "reap" => \A v \in victims[c] : IsTerminal(v) \/ v \in todo[c]

SlainInv == KillInv /\ SlainAreDead

\* More PCBs in the table and in children lists only add descendants.
LEMMA DescendantsGrow ==
    ASSUME NEW a, table \subseteq table', linked \subseteq linked'
    PROVE  Descendants(a) \subseteq Descendants(a)'
<1> DEFINE IsChild(d, p) == d \in linked \cap table /\ p \in table /\ Parent[d] = p
           Closed(S) == \A d \in Agents, p \in S \cup {a} : IsChild(d, p) => d \in S
<1>1. \A d, p : IsChild(d, p) => IsChild(d, p)'
  OBVIOUS
<1> HIDE DEF IsChild
<1>2. \A S \in SUBSET Agents : Closed(S)' => Closed(S)
  BY <1>1
<1> HIDE DEF Closed
<1>3. /\ Descendants(a) = {d \in Agents : \A S \in SUBSET Agents : Closed(S) => d \in S}
      /\ Descendants(a)' = {d \in Agents : \A S \in SUBSET Agents : Closed(S)' => d \in S}
  BY DEF Descendants, Closed, IsChild
<1> QED
  BY <1>2, <1>3

\* What a kill() has collected stays collected while nothing leaves the table.
LEMMA CollectedStays ==
    ASSUME NEW c \in Callers, table \subseteq table', linked \subseteq linked',
           target'[c] = target[c], victims'[c] = victims[c], Collected(c)
    PROVE  Collected(c)'
<1>1. \A a : Descendants(a) \subseteq Descendants(a)'
  BY DescendantsGrow
<1>2. ASSUME NEW x, x = target[c] PROVE victims'[c] \subseteq {x} \cup Descendants(x)'
  BY <1>1, <1>2 DEF Collected
<1> QED
  BY <1>2 DEF Collected, Descendants

\* The steps of everybody but the caller of kill() keep the invariant.
LEMMA SlainFrame ==
    ASSUME LifeInv, SlainInv, LegalStep, UNCHANGED apiVars
    PROVE  SlainInv'
<1>0. /\ UNCHANGED <<cpc, target, victims, todo, table, linked, slain>>
      /\ victims \in [Callers -> SUBSET Agents] /\ slain \subseteq Agents
  BY DEF LifeInv, ApiInv, ApiTypeOK, apiVars, callerVars, tableVars
<1>1. \A a \in Agents : IsTerminal(a) => IsTerminal(a)'
  BY LegalKeeps
<1>2. SlainAreDead'
  BY <1>0, <1>1 DEF SlainInv, SlainAreDead
<1>3. \A c \in Callers : Collected(c) => Collected(c)'
  BY <1>0, CollectedStays
<1>4. KillInv'
  BY <1>0, <1>1, <1>3 DEF SlainInv, KillInv
<1> QED
  BY <1>2, <1>4 DEF SlainInv

\* A step of a caller that collects no victims anew.
LEMMA SlainCallerFrame ==
    ASSUME LifeInv, SlainInv, LegalStep, NEW c \in Callers,
           table \subseteq table', linked \subseteq linked', slain' = slain,
           \A d \in Callers :
              d # c => /\ cpc'[d] = cpc[d] /\ target'[d] = target[d]
                       /\ victims'[d] = victims[d] /\ todo'[d] = todo[d],
           cpc'[c] \in {"kill", "signal", "strike", "pop"} =>
              /\ cpc[c] \in {"kill", "signal", "strike", "pop"}
              /\ target'[c] = target[c] /\ victims'[c] = victims[c],
           cpc'[c] = "reap" =>
              \A v \in victims'[c] : state'[v] \in TerminalStates \/ v \in todo'[c]
    PROVE  SlainInv'
<1>0. victims \in [Callers -> SUBSET Agents] /\ slain \subseteq Agents
  BY DEF LifeInv, ApiInv, ApiTypeOK
<1>1. \A a \in Agents : IsTerminal(a) => IsTerminal(a)'
  BY LegalKeeps
<1>2. SlainAreDead'
  BY <1>0, <1>1 DEF SlainInv, SlainAreDead
<1>3. ASSUME NEW d \in Callers, cpc'[d] \in {"kill", "signal", "strike", "pop"}
      PROVE  Collected(d)'
  BY <1>3, CollectedStays DEF SlainInv, KillInv
<1>4. ASSUME NEW d \in Callers, cpc'[d] = "reap"
      PROVE  \A v \in victims'[d] : IsTerminal(v)' \/ v \in todo'[d]
  BY <1>0, <1>1, <1>4 DEF SlainInv, KillInv, IsTerminal
<1> QED
  BY <1>2, <1>3, <1>4 DEF SlainInv, KillInv

\* Every step of a caller keeps it.
LEMMA CallerSlain ==
    ASSUME LifeInv, SlainInv, LegalStep, NoReapAmidKill, ~PreemptInTransition,
           NEW c \in Callers, Caller(c)
    PROVE  SlainInv'
<1>0. /\ DOMAIN cpc = Callers /\ DOMAIN target = Callers
      /\ victims \in [Callers -> SUBSET Agents] /\ slain \subseteq Agents
      /\ todo \in [Callers -> SUBSET Agents]
  BY DEF LifeInv, ApiInv, ApiTypeOK
<1>1. \A a \in Agents : IsTerminal(a) => IsTerminal(a)'
  BY LegalKeeps
<1> USE DEF CallerAt, Open, CallerGoto, tableVars, callerVars, apiVars
<1>2. ASSUME NEW a \in Agents, SpawnRegister(c, a) PROVE SlainInv'
  BY <1>0, <1>2, SlainCallerFrame DEF SpawnRegister
<1>3. ASSUME NEW a \in Agents, KillCollect(c, a) PROVE SlainInv'
  <2>1. /\ cpc' = [cpc EXCEPT ![c] = "kill"] /\ target' = [target EXCEPT ![c] = a]
        /\ victims' = [victims EXCEPT ![c] = {a} \cup Descendants(a)]
        /\ UNCHANGED <<todo, table, linked, slain>>
    BY <1>3 DEF KillCollect
  <2>2. SlainAreDead'
    BY <1>0, <1>1, <2>1 DEF SlainInv, SlainAreDead
  <2>3. ASSUME NEW d \in Callers, d # c
        PROVE  /\ cpc'[d] \in {"kill", "signal", "strike", "pop"} => Collected(d)'
               /\ cpc'[d] = "reap" =>
                     \A v \in victims'[d] : IsTerminal(v)' \/ v \in todo'[d]
    BY <1>0, <1>1, <2>1, <2>3, CollectedStays DEF SlainInv, KillInv
  <2>4. cpc'[c] = "kill" /\ Collected(c)'
    BY <1>0, <2>1 DEF Collected, Descendants
  <2> QED
    BY <2>2, <2>3, <2>4 DEF SlainInv, KillInv
<1>4. CASE SpawnEnqueue(c)
  BY <1>0, <1>4, SlainCallerFrame DEF SpawnEnqueue
<1>5. CASE KillMark(c)
  BY <1>0, <1>5, SlainCallerFrame DEF KillMark
<1>6. CASE KillDequeue(c)
  <2>1. /\ cpc[c] = "pop" /\ cpc' = [cpc EXCEPT ![c] = "reap"]
        /\ todo' = [todo EXCEPT ![c] = Descendants(target[c])]
        /\ UNCHANGED <<target, victims, table, linked, slain>>
    BY <1>6 DEF KillDequeue
  <2>2. target[c] \in Agents /\ IsTerminal(target[c]) /\ Collected(c)
    BY <2>1 DEF LifeInv, Marked, ApiInv, Grip, SlainInv, KillInv
  <2>3. state'[target[c]] \in TerminalStates
    BY <1>1, <2>2 DEF IsTerminal
  <2>4. \A v \in victims[c] : v = target[c] \/ v \in Descendants(target[c])
    BY <2>2 DEF Collected
  <2> QED
    BY <1>0, <2>1, <2>3, <2>4, SlainCallerFrame
<1>7. CASE KillReap(c)
  <2>1. PICK d \in todo[c] : /\ Transition(c, d, "ZOMBIE")
                             /\ todo' = [todo EXCEPT ![c] = @ \ {d}]
    BY <1>7 DEF KillReap
  <2>2. cpc[c] = "reap" /\ UNCHANGED <<cpc, target, victims, table, linked, slain>>
    BY <1>7 DEF KillReap
  <2>3. state'[d] \in TerminalStates
    BY <1>0, <2>1, TransitionAtomic
    DEF LifeInv, ApiInv, IsTerminal, TerminalStates
  <2>4. \A v \in victims[c] : v \in todo[c] \/ state'[v] \in TerminalStates
    BY <1>0, <1>1, <2>2 DEF SlainInv, KillInv, IsTerminal
  <2> QED
    BY <1>0, <2>1, <2>2, <2>3, <2>4, SlainCallerFrame
<1>8. CASE KillReturn(c)
  <2>1. /\ cpc[c] = "reap" /\ todo[c] = {} /\ slain' = slain \cup victims[c]
        /\ cpc' = [cpc EXCEPT ![c] = "free"]
        /\ victims' = [victims EXCEPT ![c] = {}]
        /\ target' = [target EXCEPT ![c] = NoAgent]
        /\ UNCHANGED <<todo, table, linked>>
    BY <1>8 DEF KillReturn
  <2>2. \A v \in slain \cup victims[c] : v \in Agents /\ IsTerminal(v)
    BY <1>0, <2>1 DEF SlainInv, KillInv, SlainAreDead
  <2>3. SlainAreDead'
    BY <1>1, <2>1, <2>2 DEF SlainAreDead
  <2>4. ASSUME NEW d \in Callers, d # c
        PROVE  /\ cpc'[d] \in {"kill", "signal", "strike", "pop"} => Collected(d)'
               /\ cpc'[d] = "reap" =>
                     \A v \in victims'[d] : IsTerminal(v)' \/ v \in todo'[d]
    BY <1>0, <1>1, <2>1, <2>4, CollectedStays DEF SlainInv, KillInv
  <2>5. cpc'[c] = "free"
    BY <1>0, <2>1
  <2> QED
    BY <2>3, <2>4, <2>5 DEF SlainInv, KillInv
<1>9. CASE ReapTerminal(c)
  <2>1. cpc[c] = "free" /\ UNCHANGED <<cpc, slain>> /\ \A d \in Callers : d = c
    BY <1>9 DEF ReapTerminal, NoReapAmidKill
  <2>2. SlainAreDead'
    BY <1>0, <1>1, <2>1 DEF SlainInv, SlainAreDead
  <2> QED
    BY <2>1, <2>2 DEF SlainInv, KillInv
<1>10. CASE TopupQuota(c)
  BY <1>0, <1>10, SlainFrame DEF TopupQuota
<1>11. CASE Shutdown(c)
  BY <1>0, <1>11, SlainCallerFrame DEF Shutdown
<1>12. CASE ShutdownReturn(c)
  BY <1>0, <1>12, SlainCallerFrame DEF ShutdownReturn
<1> QED
  BY <1>2, <1>3, <1>4, <1>5, <1>6, <1>7, <1>8, <1>9, <1>10, <1>11, <1>12
  DEF Caller

\* Nobody was killed before the kernel booted.
LEMMA SlainInit == ApiInit => SlainInv
  BY DEF ApiInit, SlainInv, KillInv, SlainAreDead
=============================================================================
