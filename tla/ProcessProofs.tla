---------------------------- MODULE ProcessProofs ----------------------------
(***************************************************************************)
(* Proofs about the process-backed kernel: type correctness, that no agent *)
(* is dispatched twice or forgotten, that every child is supervised until  *)
(* it is reaped, and that the OS budget is never under-charged.            *)
(***************************************************************************)
EXTENDS ProcessProps, ApiProofs

AimTypeOK == aim \in [Callers -> [agent : Agents, pid : OsPids] \cup {NoAim}]

\* A worker that has forked and not yet waited knows the PID of its child.
Forked ==
    \A w \in Workers : pc[w] \in {"register", "read", "reap"} => job[w].pid \in OsPids

ProcInv == ApiInv /\ ProcTypeOK /\ AimTypeOK /\ Forked

-----------------------------------------------------------------------------
(***************************************************************************)
(* Type correctness                                                        *)
(***************************************************************************)
\* A process that is signalled keeps all but its status, and its report if it
\* was writing one.
LEMMA SignalProperties ==
    ASSUME ProcTypeOK, NEW S, Signal(S)
    PROVE  /\ proc' \in [OsPids -> Proc]
           /\ \A p \in OsPids :
                 /\ proc'[p].agent = proc[p].agent
                 /\ proc'[p].state = proc[p].state
                 /\ proc'[p].used = proc[p].used
                 /\ proc'[p].allow = proc[p].allow
                 /\ proc'[p].status = "free" <=> proc[p].status = "free"
                 /\ \/ proc'[p] = proc[p]
                    \/ /\ proc'[p].status = "exited"
                       /\ \/ proc[p].status = "writing"
                          \/ proc'[p].report = proc[p].report
<1>1. PICK r \in [S -> Reports] :
         proc' = [p \in OsPids |->
            IF p \in S /\ proc[p].status = "running"
              THEN [proc[p] EXCEPT !.status = "exited"]
            ELSE IF p \in S /\ proc[p].status = "writing"
              THEN [proc[p] EXCEPT !.status = "exited", !.report = r[p]]
            ELSE proc[p]]
  BY DEF Signal
<1>2. ASSUME NEW p \in OsPids
      PROVE  /\ proc'[p] \in Proc
             /\ proc'[p].agent = proc[p].agent
             /\ proc'[p].state = proc[p].state
             /\ proc'[p].used = proc[p].used
             /\ proc'[p].allow = proc[p].allow
             /\ proc'[p].status = "free" <=> proc[p].status = "free"
             /\ \/ proc'[p] = proc[p]
                \/ /\ proc'[p].status = "exited"
                   /\ \/ proc[p].status = "writing"
                      \/ proc'[p].report = proc[p].report
  <2>1. proc[p] \in Proc
    BY DEF ProcTypeOK
  <2>2. CASE p \in S /\ proc[p].status = "running"
    <3>1. proc'[p] = [proc[p] EXCEPT !.status = "exited"]
      BY <1>1, <2>2
    <3> QED
      BY <2>1, <2>2, <3>1 DEF Proc
  <2>3. CASE p \in S /\ proc[p].status = "writing"
    <3>1. proc'[p] = [proc[p] EXCEPT !.status = "exited", !.report = r[p]]
      BY <1>1, <2>3
    <3>2. r[p] \in Reports
      BY <2>3
    <3> QED
      BY <2>1, <2>3, <3>1, <3>2 DEF Proc
  <2>4. CASE ~(p \in S /\ proc[p].status \in {"running", "writing"})
    <3>1. proc'[p] = proc[p]
      BY <1>1, <2>4
    <3> QED
      BY <2>1, <3>1
  <2> QED
    BY <2>2, <2>3, <2>4
<1>3. proc' \in [OsPids -> Proc]
  BY <1>1, <1>2
<1> QED
  BY <1>2, <1>3

\* Every step of a worker keeps the types.
LEMMA SupervisorType ==
    ASSUME ProcInv, NEW w \in Workers, Supervisor(w), UNCHANGED <<apiVars, aim>>
    PROVE  ProcInv'
<1>0. /\ w \in Threads /\ ApiInv /\ Grip
      /\ PcbTypeOK /\ QueueTypeOK /\ QuotaTypeOK
      /\ BusTypeOK /\ LoopTypeOK /\ ProcTypeOK
      /\ calls \in [Agents -> Nat] /\ spent \in Nat
      /\ remaining \in Nat
  BY LoopAssumption DEF ProcInv, ApiInv, LoopTypeOK, QuotaTypeOK
<1>a. AimTypeOK'
  BY DEF ProcInv, AimTypeOK
<1>p. UNCHANGED procVars => ProcTypeOK'
  BY <1>0 DEF ProcTypeOK, procVars
<1>1. CASE (LoopStep(w) \/ Conclude(w, FALSE) \/ Finish(w)) /\ UNCHANGED procVars
  <2>1. ApiInv'
    BY <1>0, <1>1, LoopType
  <2>2. \A v \in Workers : pc'[v] \in {"register", "read", "reap"} => pc'[v] = pc[v]
    BY <1>0, <1>1 DEF LoopStep, Pick, Exit, Dispatch, ReceiveInput, Repark, Requeue,
       Conclude, Finish, Goto, LoopTypeOK
  <2>3. Forked'
    BY <1>1, <2>2 DEF ProcInv, Forked, procVars
  <2> QED
    BY <1>1, <1>a, <1>p, <2>1, <2>3 DEF ProcInv
<1>f. /\ UNCHANGED pcbVars => PcbTypeOK'
      /\ UNCHANGED queueVars => QueueTypeOK'
      /\ UNCHANGED quotaVars => QuotaTypeOK'
      /\ UNCHANGED busVars => BusTypeOK'
  BY <1>0, FrameType
<1>m. ASSUME NEW p \in PC, pc[w] \notin {"idle", "exited"}, Goto(w, p),
             UNCHANGED <<held, inputOf, polls, stop>>,
             PcbTypeOK', QueueTypeOK', QuotaTypeOK', BusTypeOK',
             calls' \in [Agents -> Nat], spent' \in Nat, ProcTypeOK',
             \A v \in Workers : v # w => job'[v] = job[v],
             p \in {"register", "read", "reap"} => job'[w].pid \in OsPids
      PROVE  ProcInv'
  <2>1. ApiInv'
    BY <1>0, <1>m, MoveType
  <2>2. Forked'
    BY <1>0, <1>m DEF ProcInv, Forked, Goto, LoopTypeOK
  <2> QED
    BY <1>a, <1>m, <2>1, <2>2 DEF ProcInv
<1>j. /\ job \in [Workers -> Job]
      /\ pc[w] \in {"register", "read", "reap"} => job[w].pid \in OsPids
      /\ UNCHANGED procVars => UNCHANGED job
  BY <1>0 DEF ProcInv, Forked, ProcTypeOK, procVars
<1>h. pc[w] \notin {"idle", "exited"} => held[w] \in Agents
  BY <1>0 DEF Grip
<1>s. {"ERROR", "BLOCKED", "RUNNING"} \subseteq AgentState
  BY DEF AgentState, LiveStates, TerminalStates
<1> USE DEF At, PC, agentVars
<1>2. CASE Start(w)
  <2>1. held[w] \in Agents /\ pc[w] = "slice"
    BY <1>2, <1>h DEF Start
  <2>2. PcbTypeOK'
    BY <1>0, <1>2, <1>f, <1>s, <2>1, TransitionType DEF Start
  <2>3. ProcTypeOK'
    BY <1>0, <1>2, <2>1 DEF Start, ProcTypeOK
  <2> QED
    BY <1>0, <1>2, <1>f, <1>m, <1>j, <2>1, <2>2, <2>3 DEF Start
<1>3. CASE Admit(w)
  <2>1. held[w] \in Agents /\ pc[w] = "reserve" /\ quotaOf[held[w]] \in Nat
    BY <1>0, <1>3, <1>h DEF Admit, ProcTypeOK
  <2>2. PcbTypeOK'
    BY <1>0, <1>3, <1>f, <1>s, <2>1, TransitionType DEF Admit
  <2>3. QuotaTypeOK'
    BY <1>0, <1>3, <1>f, <2>1, QuotaOpsType DEF Admit
  <2>4. Grant(quotaOf[held[w]]) \in Nat
    BY <1>0, <2>1 DEF Grant
  <2>5. [quota |-> quotaOf[held[w]], reserved |-> Grant(quotaOf[held[w]]),
         before |-> calls[held[w]], pid |-> NoPid, completed |-> FALSE] \in Job
    BY <1>0, <2>1, <2>4 DEF Job
  <2>6. ProcTypeOK'
    BY <1>0, <1>3, <2>1, <2>4, <2>5 DEF Admit, ProcTypeOK
  <2>7. Goto(w, "denied") \/ Goto(w, "fork")
    BY <1>3 DEF Admit
  <2> QED
    BY <1>0, <1>3, <1>f, <1>m, <1>j, <2>1, <2>2, <2>3, <2>6, <2>7 DEF Admit
<1>4. CASE PutBack(w)
  <2>1. held[w] \in Agents /\ pc[w] = "denied"
    BY <1>4, <1>h DEF PutBack
  <2>2. PcbTypeOK' /\ QueueTypeOK'
    BY <1>0, <1>4, <2>1, PutType DEF PutBack
  <2> QED
    BY <1>0, <1>4, <1>f, <1>m, <1>j, <1>p, <2>1, <2>2 DEF PutBack
<1>5. CASE ConcludeLate(w)
  <2>1. held[w] \in Agents /\ pc[w] = "late"
    BY <1>5, <1>h DEF ConcludeLate
  <2>2. Forwards(held[w]) => PipeTo[held[w]] \in Agents
    BY <2>1, BusAssumption DEF Forwards
  <2>3. BusTypeOK'
    BY <1>0, <1>5, <1>f, <2>1, <2>2, BusOpsType DEF ConcludeLate
  <2> QED
    BY <1>0, <1>5, <1>f, <1>m, <1>j, <1>p, <2>1, <2>3 DEF ConcludeLate
<1>6. CASE Fork(w)
  <2>1. held[w] \in Agents /\ pc[w] = "fork"
    BY <1>6, <1>h DEF Fork
  <2> DEFINE new == [status |-> "running", agent |-> held[w],
                     state |-> state[held[w]], used |-> 0, allow |-> job[w].reserved,
                     ends |-> OpenPipes, report |-> "cut"]
  <2>2. PICK p \in OsPids : /\ proc' = [proc EXCEPT ![p] = new]
                            /\ job' = [job EXCEPT ![w].pid = p]
    BY <1>6 DEF Fork
  <2>3. job[w] \in Job /\ OpenPipes \subseteq Workers /\ state[held[w]] \in AgentState
    BY <1>0, <2>1 DEF ProcTypeOK, OpenPipes, PcbTypeOK
  <2>4. new \in Proc
    BY <2>1, <2>3 DEF Proc, Job, Reports
  <2> HIDE DEF new
  <2>5. [job[w] EXCEPT !.pid = p] \in Job
    BY <2>3 DEF Job
  <2>6. job' \in [Workers -> Job] /\ proc' \in [OsPids -> Proc]
    BY <1>0, <2>2, <2>4, <2>5 DEF ProcTypeOK
  <2>7. ProcTypeOK'
    BY <1>0, <1>6, <2>6 DEF Fork, ProcTypeOK
  <2> QED
    BY <1>0, <1>6, <1>f, <1>m, <1>j, <2>1, <2>7 DEF Fork
<1>7. CASE ForkFails(w)
  BY <1>0, <1>7, <1>f, <1>m, <1>j, <1>p DEF ForkFails
<1>8. CASE Die(w)
  BY <1>0, <1>8, <1>f, <1>m, <1>j, <1>p, QueueOpsType DEF Die
<1>9. CASE Register(w)
  <2>1. held[w] \in Agents /\ pc[w] = "register"
    BY <1>9, <1>h DEF Register
  <2>2. job[w].pid \in OsPids \cup {NoPid}
    BY <1>0 DEF ProcTypeOK, Job
  <2>3. ProcTypeOK'
    BY <1>0, <1>9, <2>1, <2>2 DEF Register, ProcTypeOK
  <2> QED
    BY <1>0, <1>9, <1>f, <1>m, <1>j, <2>1, <2>3 DEF Register
<1>10. CASE ReadResult(w)
  <2>1. held[w] \in Agents /\ pc[w] = "read" /\ job[w].pid \in OsPids
    BY <1>10, <1>h, <1>j DEF ReadResult
  <2>2. proc[job[w].pid] \in Proc
    BY <1>0, <2>1 DEF ProcTypeOK
  <2>3. proc[job[w].pid].state \in AgentState /\ proc[job[w].pid].used \in Nat
    BY <2>2 DEF Proc
  <2>4. PcbTypeOK'
    BY <1>0, <1>10, <1>s, <2>1, <2>3, TransitionType DEF ReadResult
  <2>5. job[w] \in Job
    BY <1>j
  <2>6. calls' \in [Agents -> Nat]
    BY <1>0, <1>10, <2>1, <2>3, <2>5 DEF ReadResult, Job
  <2>7. [job[w] EXCEPT !.completed = TRUE] \in Job
    BY <2>5 DEF Job
  <2>8. /\ job' = job \/ job' = [job EXCEPT ![w] = [job[w] EXCEPT !.completed = TRUE]]
        /\ UNCHANGED <<quotaOf, begun, children, proc>>
    BY <1>10 DEF ReadResult
  <2>9. job' \in [Workers -> Job] /\ job'[w].pid = job[w].pid
        /\ \A v \in Workers : v # w => job'[v] = job[v]
    BY <1>j, <2>5, <2>7, <2>8 DEF Job
  <2>10. ProcTypeOK'
    BY <1>0, <2>8, <2>9 DEF ProcTypeOK
  <2> QED
    BY <1>0, <1>10, <1>f, <1>m, <2>1, <2>4, <2>6, <2>9, <2>10 DEF ReadResult
<1>11. CASE Reap(w)
  <2>1. held[w] \in Agents /\ pc[w] = "reap"
    BY <1>11, <1>h DEF Reap
  <2>2. NoProc \in Proc
    BY DEF NoProc, Proc, AgentState, LiveStates, Reports
  <2>3. ProcTypeOK'
    BY <1>0, <1>11, <2>1, <2>2 DEF Reap, ProcTypeOK
  <2> QED
    BY <1>0, <1>11, <1>f, <1>m, <1>j, <2>1, <2>3 DEF Reap
<1>12. CASE Settle(w)
  <2>1. held[w] \in Agents /\ pc[w] = "settle"
    BY <1>12, <1>h DEF Settle
  <2>2. job[w].reserved \in Nat /\ job[w].quota \in Nat /\ job[w].before \in Nat
    BY <1>0 DEF ProcTypeOK, Job
  <2>3. \A q, n \in Nat : Less(q, n) \in Nat
    BY DEF Less
  <2>4. NoJob \in Job
    BY DEF NoJob, Job
  <2>5. Less(calls[held[w]], job[w].before) \in Nat
    BY <1>0, <2>1, <2>2, <2>3
  <2>6. QuotaTypeOK'
    BY <1>0, <1>12, <1>f, <2>2, <2>3, <2>5, QuotaOpsType DEF Settle
  <2>7. PICK n \in Nat : quotaOf' = [quotaOf EXCEPT ![held[w]] = n]
    BY <1>12, <2>2, <2>3, <2>5 DEF Settle
  <2>8. ProcTypeOK'
    BY <1>0, <1>12, <2>1, <2>4, <2>7 DEF Settle, ProcTypeOK
  <2> QED
    BY <1>0, <1>12, <1>f, <1>m, <1>j, <2>1, <2>6, <2>8 DEF Settle
<1> QED
  BY <1>1, <1>2, <1>3, <1>4, <1>5, <1>6, <1>7, <1>8, <1>9, <1>10, <1>11, <1>12
  DEF Supervisor

\* The fields of a process record that are written keep it well-formed.
LEMMA ProcFields ==
    ASSUME NEW r \in Proc
    PROVE  /\ \A s \in AgentState : [r EXCEPT !.state = s] \in Proc
           /\ \A n \in Nat : [r EXCEPT !.used = n] \in Proc
           /\ \A s \in {"free", "running", "writing", "exited"} :
                 [r EXCEPT !.status = s] \in Proc
           /\ \A x \in Reports : [r EXCEPT !.report = x] \in Proc
  BY DEF Proc

\* What a child does to its process, in the three kinds of steps it takes.
LEMMA ChildEffect ==
    ASSUME ProcTypeOK, spent \in Nat, NEW p \in OsPids, Child(p)
    PROVE  /\ proc' \in [OsPids -> Proc]
           /\ \A q \in OsPids : q # p => proc'[q] = proc[q]
           /\ proc'[p].agent = proc[p].agent
           /\ proc'[p].allow = proc[p].allow
           /\ \/ /\ ChildStep(p)
                 /\ proc[p].status = "running" /\ proc'[p].status = "running"
                 /\ proc'[p].report = proc[p].report
                 /\ \/ /\ proc'[p].used = proc[p].used /\ spent' = spent
                       /\ proc'[p].state \in TerminalStates
                    \/ /\ proc'[p].used = proc[p].used + 1 /\ spent' = spent + 1
                       /\ ~Refused(proc[p].agent, proc[p].used, proc[p].allow)
                       /\ \/ proc'[p].state \in TerminalStates
                          \/ Kind[proc[p].agent] = "react"
              \/ /\ proc[p].status \in {"running", "writing"}
                 /\ proc'[p].status = "writing" => Finished(p)
                 /\ proc[p].status = "writing" =>
                       proc'[p].status = "exited" /\ proc'[p].report = "full"
                 /\ proc[p].status = "running" =>
                       proc'[p].status = "writing" /\ proc'[p].report = proc[p].report
                 /\ proc'[p].state = proc[p].state
                 /\ proc'[p].used = proc[p].used /\ spent' = spent
<1>0. proc[p] \in Proc /\ proc \in [OsPids -> Proc] /\ proc[p].used \in Nat
  BY DEF ProcTypeOK, Proc
<1>s. /\ {"ERROR", "TIMEOUT", "RUNNING", "DONE"} \subseteq AgentState
      /\ {"ERROR", "TIMEOUT", "DONE"} \subseteq TerminalStates
  BY DEF AgentState, LiveStates, TerminalStates
<1>1. CASE ChildStep(p)
  <2> DEFINE refused == Refused(proc[p].agent, proc[p].used, proc[p].allow)
  <2>1. CASE \E s \in {"TIMEOUT", "ERROR"} :
                proc' = [proc EXCEPT ![p] = [proc[p] EXCEPT !.state = s]] /\ spent' = spent
    <3>1. PICK s \in {"TIMEOUT", "ERROR"} :
                proc' = [proc EXCEPT ![p] = [proc[p] EXCEPT !.state = s]] /\ spent' = spent
      BY <2>1
    <3>2. [proc[p] EXCEPT !.state = s] \in Proc
      BY <1>0, <1>s, ProcFields
    <3>3. proc[p].status = "running"
      BY <1>1 DEF ChildStep
    <3> QED
      BY <1>0, <1>1, <1>s, <3>1, <3>2, <3>3 DEF Proc
  <2>2. CASE /\ ~refused
             /\ \E o \in Outcomes(proc[p].agent) :
                    proc' = [proc EXCEPT
                        ![p].state = IF o = "TOOL" THEN "RUNNING" ELSE o,
                        ![p].used = @ + 1]
             /\ spent' = spent + 1
    <3>1. PICK o \in Outcomes(proc[p].agent) :
                    proc' = [proc EXCEPT
                        ![p].state = IF o = "TOOL" THEN "RUNNING" ELSE o,
                        ![p].used = @ + 1]
      BY <2>2
    <3> DEFINE s == IF o = "TOOL" THEN "RUNNING" ELSE o
               r == [proc[p] EXCEPT !.state = s]
    <3>2. /\ o \in {"DONE", "TOOL", "ERROR"}
          /\ o = "TOOL" => Kind[proc[p].agent] = "react"
      BY <3>1 DEF Outcomes
    <3>3. /\ s \in AgentState
          /\ s \in TerminalStates \/ Kind[proc[p].agent] = "react"
      BY <1>s, <3>2
    <3> HIDE DEF s
    <3>4. r \in Proc
      BY <1>0, <3>3, ProcFields
    <3>5. /\ r.agent = proc[p].agent /\ r.allow = proc[p].allow /\ r.state = s
          /\ r.status = proc[p].status /\ r.report = proc[p].report
          /\ r.used = proc[p].used
      BY <1>0 DEF Proc
    <3> HIDE DEF r
    <3>6. proc' = [proc EXCEPT ![p] = [r EXCEPT !.used = proc[p].used + 1]]
      BY <1>0, <3>1 DEF Proc, r, s
    <3>7. [r EXCEPT !.used = proc[p].used + 1] \in Proc
      <4>1. proc[p].used + 1 \in Nat
        BY <1>0
      <4> DEFINE n == proc[p].used + 1
      <4> HIDE DEF n
      <4>2. [r EXCEPT !.used = n] \in Proc
        BY <3>4, <4>1, ProcFields DEF n
      <4> QED
        BY <4>2 DEF n
    <3>8. proc[p].status = "running"
      BY <1>1 DEF ChildStep
    <3>9. /\ proc'[p] = [r EXCEPT !.used = proc[p].used + 1]
          /\ \A q \in OsPids : q # p => proc'[q] = proc[q]
          /\ proc' \in [OsPids -> Proc]
      BY <1>0, <3>6, <3>7
    <3>10. /\ proc'[p].agent = r.agent /\ proc'[p].allow = r.allow
           /\ proc'[p].status = r.status /\ proc'[p].report = r.report
           /\ proc'[p].state = r.state /\ proc'[p].used = proc[p].used + 1
      BY <3>4, <3>9 DEF Proc
    <3> QED
      BY <1>1, <2>2, <3>3, <3>5, <3>8, <3>9, <3>10
  <2> QED
    BY <1>1, <2>1, <2>2, LoopAssumption DEF ChildStep
<1>2. CASE ChildEnds(p)
  <2>1. [proc[p] EXCEPT !.status = "writing"] \in Proc
    BY <1>0, ProcFields
  <2> QED
    BY <1>0, <1>2, <2>1 DEF ChildEnds, Proc, loopVars
<1>3. CASE ChildExits(p)
  <2> DEFINE r == [proc[p] EXCEPT !.status = "exited"]
  <2>1. r \in Proc /\ "full" \in Reports
    BY <1>0, ProcFields DEF Reports
  <2>2. proc' = [proc EXCEPT ![p] = [r EXCEPT !.report = "full"]]
    BY <1>0, <1>3 DEF ChildExits, Proc
  <2>3. [r EXCEPT !.report = "full"] \in Proc
    BY <2>1, ProcFields
  <2> QED
    BY <1>0, <1>3, <2>1, <2>2, <2>3 DEF ChildExits, Proc, loopVars
<1> QED
  BY <1>1, <1>2, <1>3 DEF Child

\* Every step of a child keeps the types.
LEMMA ChildType ==
    ASSUME ProcInv, NEW p \in OsPids, Child(p), UNCHANGED <<apiVars, aim>>
    PROVE  ProcInv'
<1>0. /\ ApiInv /\ ProcTypeOK /\ LoopTypeOK /\ spent \in Nat
      /\ UNCHANGED <<pcbVars, queueVars, quotaVars, busVars, pc, held, agentVars, stop,
                     job, quotaOf, begun, children>>
  BY DEF ProcInv, ApiInv, LoopTypeOK, Child, ChildStep, ChildEnds, ChildExits, loopVars
<1>1. proc' \in [OsPids -> Proc] /\ spent' \in Nat
  BY <1>0, ChildEffect
<1>2. ApiInv'
  BY <1>0, <1>1, FrameType DEF ApiInv, LoopTypeOK, ApiTypeOK, Grip, agentVars,
     apiVars, callerVars, tableVars
<1>3. ProcTypeOK'
  BY <1>0, <1>1 DEF ProcTypeOK
<1>4. AimTypeOK' /\ Forked'
  BY <1>0 DEF ProcInv, AimTypeOK, Forked
<1> QED
  BY <1>2, <1>3, <1>4 DEF ProcInv

\* Every step of kill() and shutdown() among the processes keeps the types.
LEMMA ProcessCallerType ==
    ASSUME ProcInv, NEW c \in Callers, ProcessCaller(c)
    PROVE  ProcInv'
<1>0. /\ ApiInv /\ ProcTypeOK /\ LoopTypeOK /\ ApiTypeOK /\ Grip /\ AimTypeOK /\ Forked
      /\ UNCHANGED <<pcbVars, queueVars, quotaVars, busVars, loopVars, job, quotaOf,
                     begun, children, target, victims, tableVars, slain>>
  BY DEF ProcInv, ApiInv, ProcessCaller, KillLookup, KillStrike, KillSignalled,
     ShutdownSlay, procVars
<1>1. proc' \in [OsPids -> Proc]
  BY <1>0, SignalProperties DEF ProcessCaller, KillLookup, KillStrike, KillSignalled,
     ShutdownSlay, procVars, ProcTypeOK
<1>2. ProcTypeOK' /\ Forked'
  BY <1>0, <1>1 DEF ProcTypeOK, Forked, loopVars
<1>3. AimTypeOK'
  <2>1. CASE KillLookup(c)
    BY <1>0, <2>1 DEF KillLookup, AimTypeOK, ProcTypeOK, ApiTypeOK
  <2>2. CASE ~KillLookup(c)
    BY <1>0, <2>2 DEF ProcessCaller, KillStrike, KillSignalled, ShutdownSlay, AimTypeOK
  <2> QED
    BY <2>1, <2>2
<1>4. ApiTypeOK' /\ Grip'
  BY <1>0 DEF ProcessCaller, KillLookup, KillStrike, KillSignalled, ShutdownSlay,
     ApiTypeOK, Grip, CallerGoto, CallerAt, tableVars, loopVars
<1>5. LoopTypeOK'
  BY <1>0 DEF LoopTypeOK, loopVars, agentVars
<1>6. ApiInv'
  BY <1>0, <1>4, <1>5, FrameType DEF ApiInv
<1> QED
  BY <1>2, <1>3, <1>6 DEF ProcInv

\* The initial state is well-formed, and every step of the system keeps it so.
LEMMA ProcTypeInit == Init => ProcInv
<1> SUFFICES ASSUME Init PROVE ProcInv
  OBVIOUS
<1>1. ApiInv
  BY ApiTypeInit DEF Init
<1>2. NoProc \in Proc /\ NoJob \in Job
  BY DEF NoProc, NoJob, Proc, Job, AgentState, LiveStates, Reports
<1>3. ProcTypeOK
  BY <1>2, LoopAssumption DEF Init, ProcInit, ProcTypeOK
<1>4. AimTypeOK /\ Forked
  BY DEF Init, AimTypeOK, Forked, LoopInit
<1> QED
  BY <1>1, <1>3, <1>4 DEF ProcInv

\* Every step of the system keeps the types.
LEMMA ProcTypeStep == ProcInv /\ [Next]_vars => ProcInv'
<1> SUFFICES ASSUME ProcInv, [Next]_vars PROVE ProcInv'
  OBVIOUS
<1>f. UNCHANGED <<procVars, aim, pc>> => ProcTypeOK' /\ AimTypeOK' /\ Forked'
  BY DEF ProcInv, ProcTypeOK, AimTypeOK, Forked, procVars
<1>1. CASE \E w \in Workers : Supervisor(w) /\ UNCHANGED <<apiVars, aim>>
  BY <1>1, SupervisorType
<1>2. CASE \E p \in OsPids : Child(p) /\ UNCHANGED <<apiVars, aim>>
  BY <1>2, ChildType
<1>3. CASE \E c \in Callers : Caller(c) /\ UNCHANGED <<procVars, aim>>
  <2>1. ApiInv'
    BY <1>3, CallerType DEF ProcInv
  <2>2. UNCHANGED pc
    BY <1>3 DEF Caller, SpawnRegister, KillCollect, SpawnEnqueue, KillMark,
       KillDequeue, KillReap, KillReturn, ReapTerminal, TopupQuota, Shutdown,
       ShutdownReturn, loopVars
  <2> QED
    BY <1>3, <1>f, <2>1, <2>2 DEF ProcInv
<1>4. CASE \E c \in Callers : ProcessCaller(c)
  BY <1>4, ProcessCallerType
<1>5. CASE \E t \in Threads : CompleteWrite(t) /\ UNCHANGED <<procVars, aim>>
  <2>1. ApiInv'
    BY <1>5, WriteType DEF ProcInv
  <2>2. UNCHANGED pc
    BY <1>5 DEF CompleteWrite, loopVars
  <2> QED
    BY <1>5, <1>f, <2>1, <2>2 DEF ProcInv
<1>6. CASE UNCHANGED vars
  <2>1. ApiInv'
    BY <1>6, FrameType DEF ProcInv, ApiInv, LoopTypeOK, ApiTypeOK, Grip, vars,
       loopVars, agentVars, apiVars, callerVars, tableVars
  <2> QED
    BY <1>6, <1>f, <2>1 DEF ProcInv, vars, loopVars
<1> QED
  BY <1>1, <1>2, <1>3, <1>4, <1>5, <1>6 DEF Next, ApiNext

\* TypeOK holds in every reachable state of the process-backed kernel: the
\* PCBs, the queue, the quota, the mailboxes, the processes, the registry of
\* children and every local of workers and callers keep to their domains.
THEOREM ProcessTypeCorrect == Spec => []TypeOK
<1>1. ProcInv => TypeOK
  BY DEF ProcInv, ApiInv, TypeOK, AimTypeOK
<1> QED
  BY <1>1, ProcTypeInit, ProcTypeStep, PTL DEF Spec

-----------------------------------------------------------------------------
(***************************************************************************)
(* Every child has its supervisor                                          *)
(***************************************************************************)
HasChild(w) == pc[w] \in {"register", "read", "reap"}

\* A worker that forked has one child of its own that runs its agent, a
\* process that is not free has a supervisor, and so has one that is in the
\* registry.
ChildInv ==
    /\ \A w \in Workers :
          HasChild(w) => /\ proc[job[w].pid].status # "free"
                         /\ proc[job[w].pid].agent = held[w]
    /\ \A v, w \in Workers :
          HasChild(v) /\ HasChild(w) /\ job[v].pid = job[w].pid => v = w
    /\ \A p \in OsPids :
          proc[p].status # "free" => \E w \in Workers : HasChild(w) /\ job[w].pid = p
    /\ \A a \in Agents :
          children[a] # NoPid =>
             \E w \in Workers : /\ pc[w] \in {"read", "reap"}
                                /\ held[w] = a /\ job[w].pid = children[a]

\* Steps that fork, wait for and register no child keep it so.
LEMMA ChildFrame ==
    ASSUME ProcInv, ChildInv, UNCHANGED children,
           \A p \in OsPids : /\ proc'[p].agent = proc[p].agent
                             /\ proc'[p].status = "free" <=> proc[p].status = "free",
           \A w \in Workers :
              \/ pc'[w] = pc[w] /\ held'[w] = held[w] /\ job'[w].pid = job[w].pid
              \/ ~HasChild(w) /\ ~HasChild(w)'
              \/ /\ pc[w] = "read" /\ pc'[w] = "reap"
                 /\ held'[w] = held[w] /\ job'[w].pid = job[w].pid
    PROVE  ChildInv'
<1>1. \A w \in Workers : HasChild(w)' => /\ HasChild(w) /\ held'[w] = held[w]
                                         /\ job'[w].pid = job[w].pid
                                         /\ job[w].pid \in OsPids
  BY DEF HasChild, ProcInv, Forked
<1>2. \A w \in Workers : HasChild(w) => HasChild(w)' /\ job'[w].pid = job[w].pid
  BY DEF HasChild
<1>3. \A w \in Workers :
         pc[w] \in {"read", "reap"} => /\ pc'[w] \in {"read", "reap"}
                                       /\ held'[w] = held[w] /\ job'[w].pid = job[w].pid
  BY DEF HasChild
<1>4. \A w \in Workers :
         HasChild(w)' => /\ proc'[job'[w].pid].status # "free"
                         /\ proc'[job'[w].pid].agent = held'[w]
  BY <1>1 DEF ChildInv
<1>5. \A v, w \in Workers :
         HasChild(v)' /\ HasChild(w)' /\ job'[v].pid = job'[w].pid => v = w
  BY <1>1 DEF ChildInv
<1>6. \A p \in OsPids :
         proc'[p].status # "free" =>
            \E w \in Workers : HasChild(w)' /\ job'[w].pid = p
  BY <1>2 DEF ChildInv
<1>7. \A a \in Agents :
         children'[a] # NoPid =>
             \E w \in Workers : /\ pc'[w] \in {"read", "reap"}
                                /\ held'[w] = a /\ job'[w].pid = children'[a]
  BY <1>3 DEF ChildInv
<1> QED
  BY <1>4, <1>5, <1>6, <1>7 DEF ChildInv

\* Every step of a worker keeps it so.
LEMMA SupervisorChild ==
    ASSUME ProcInv, ChildInv, NEW w \in Workers, Supervisor(w)
    PROVE  ChildInv'
<1>0. /\ pc \in [Workers -> PC] /\ held \in [Workers -> Agents \cup {NoAgent}]
      /\ job \in [Workers -> Job] /\ proc \in [OsPids -> Proc]
      /\ children \in [Agents -> OsPids \cup {NoPid}]
      /\ HasChild(w) => job[w].pid \in OsPids
      /\ HasChild(w) => held[w] \in Agents
  BY DEF ProcInv, ApiInv, LoopTypeOK, ProcTypeOK, Forked, HasChild, Grip
<1>1. CASE (LoopStep(w) \/ Conclude(w, FALSE) \/ Finish(w)) /\ UNCHANGED procVars
  <2>1. \A v \in Workers : \/ pc'[v] = pc[v] /\ held'[v] = held[v]
                           \/ ~HasChild(v) /\ ~HasChild(v)'
    BY <1>0, <1>1 DEF LoopStep, Pick, Exit, Dispatch, ReceiveInput, Repark, Requeue,
       Conclude, Finish, Goto, At, HasChild
  <2> QED
    BY <1>1, <2>1, ChildFrame DEF procVars
<1>2. CASE Start(w) \/ Admit(w) \/ PutBack(w) \/ ConcludeLate(w) \/ ForkFails(w)
           \/ Die(w) \/ Settle(w)
  <2>1. /\ ~HasChild(w) /\ ~HasChild(w)'
        /\ \A v \in Workers : v # w => pc'[v] = pc[v] /\ job'[v] = job[v]
        /\ UNCHANGED <<held, children, proc>>
    BY <1>0, <1>2 DEF Start, Admit, PutBack, ConcludeLate, ForkFails, Die, Settle, Goto,
       At, HasChild, procVars
  <2> QED
    BY <2>1, ChildFrame
<1>3. CASE ReadResult(w)
  <2>1. /\ pc[w] = "read" /\ pc'[w] = "reap" /\ UNCHANGED <<held, children, proc>>
        /\ \A v \in Workers : v # w => pc'[v] = pc[v]
    BY <1>0, <1>3 DEF ReadResult, Goto, At
  <2>2. job[w] \in Job
    BY <1>0
  <2>3. \A v \in Workers : job'[v].pid = job[v].pid
    BY <1>0, <1>3, <2>2 DEF ReadResult, Job
  <2> QED
    BY <2>1, <2>3, ChildFrame
<1>4. CASE Fork(w)
  <2>1. PICK p \in OsPids :
           /\ proc[p].status = "free"
           /\ proc' = [proc EXCEPT ![p] =
                [status |-> "running", agent |-> held[w], state |-> state[held[w]],
                 used |-> 0, allow |-> job[w].reserved, ends |-> OpenPipes,
                 report |-> "cut"]]
           /\ job' = [job EXCEPT ![w].pid = p]
    BY <1>4 DEF Fork
  <2>2. /\ pc' = [pc EXCEPT ![w] = "register"] /\ pc[w] = "fork"
        /\ UNCHANGED <<held, children>>
    BY <1>4 DEF Fork, At, Goto
  <2>3. /\ job'[w].pid = p
        /\ \A v \in Workers : v # w => job'[v] = job[v]
        /\ proc'[p].status = "running" /\ proc'[p].agent = held[w]
        /\ \A q \in OsPids : q # p => proc'[q] = proc[q]
    BY <1>0, <2>1 DEF Job
  <2>4. /\ HasChild(w)'
        /\ \A v \in Workers : v # w => /\ HasChild(v)' <=> HasChild(v)
                                       /\ HasChild(v) => job[v].pid \in OsPids \ {p}
    BY <1>0, <2>1, <2>2 DEF HasChild, ChildInv, ProcInv, Forked
  <2>5. \A v \in Workers :
          HasChild(v)' => /\ proc'[job'[v].pid].status # "free"
                          /\ proc'[job'[v].pid].agent = held'[v]
    BY <2>2, <2>3, <2>4 DEF ChildInv
  <2>6. \A u, v \in Workers :
          HasChild(u)' /\ HasChild(v)' /\ job'[u].pid = job'[v].pid => u = v
    BY <2>3, <2>4 DEF ChildInv
  <2>7. \A q \in OsPids :
          proc'[q].status # "free" => \E v \in Workers : HasChild(v)' /\ job'[v].pid = q
    BY <2>2, <2>3, <2>4 DEF ChildInv, HasChild
  <2>8. \A a \in Agents :
          children'[a] # NoPid =>
             \E v \in Workers : /\ pc'[v] \in {"read", "reap"}
                                /\ held'[v] = a /\ job'[v].pid = children'[a]
    BY <1>0, <2>2, <2>3 DEF ChildInv
  <2> QED
    BY <2>5, <2>6, <2>7, <2>8 DEF ChildInv
<1>5. CASE Register(w)
  <2>1. /\ pc' = [pc EXCEPT ![w] = "read"] /\ pc[w] = "register"
        /\ UNCHANGED <<held, job, proc>>
        /\ children' = [children EXCEPT ![held[w]] = job[w].pid]
    BY <1>5 DEF Register, At, Goto
  <2>2. \A v \in Workers : HasChild(v)' <=> HasChild(v)
    BY <1>0, <2>1 DEF HasChild
  <2>3. \A a \in Agents :
          children'[a] # NoPid =>
             \E v \in Workers : /\ pc'[v] \in {"read", "reap"}
                                /\ held'[v] = a /\ job'[v].pid = children'[a]
    BY <1>0, <2>1 DEF ChildInv
  <2>4. \A v \in Workers :
          HasChild(v)' => /\ proc'[job'[v].pid].status # "free"
                          /\ proc'[job'[v].pid].agent = held'[v]
    BY <2>1, <2>2 DEF ChildInv
  <2>5. /\ \A u, v \in Workers :
             HasChild(u)' /\ HasChild(v)' /\ job'[u].pid = job'[v].pid => u = v
        /\ \A q \in OsPids :
             proc'[q].status # "free" => \E v \in Workers : HasChild(v)' /\ job'[v].pid = q
    BY <2>1, <2>2 DEF ChildInv
  <2> QED
    BY <2>3, <2>4, <2>5 DEF ChildInv
<1>6. CASE Reap(w)
  <2>1. /\ pc' = [pc EXCEPT ![w] = "settle"] /\ pc[w] = "reap"
        /\ UNCHANGED <<held, job>>
        /\ proc' = [proc EXCEPT ![job[w].pid] = NoProc]
        /\ children' = [children EXCEPT ![held[w]] = NoPid]
    BY <1>6 DEF Reap, At, Goto
  <2>2. HasChild(w) /\ ~HasChild(w)' /\ job[w].pid \in OsPids /\ held[w] \in Agents
        /\ \A v \in Workers : v # w => (HasChild(v)' <=> HasChild(v))
    BY <1>0, <2>1 DEF HasChild
  <2>3. \A v \in Workers :
           HasChild(v)' => /\ HasChild(v) /\ v # w
                           /\ job[v].pid \in OsPids /\ job[v].pid # job[w].pid
    BY <2>2 DEF ChildInv, ProcInv, Forked, HasChild
  <2>4. \A v \in Workers :
          HasChild(v)' => /\ proc'[job'[v].pid].status # "free"
                          /\ proc'[job'[v].pid].agent = held'[v]
    BY <1>0, <2>1, <2>3 DEF ChildInv
  <2>5. \A u, v \in Workers :
          HasChild(u)' /\ HasChild(v)' /\ job'[u].pid = job'[v].pid => u = v
    BY <2>1, <2>3 DEF ChildInv
  <2>6. \A q \in OsPids :
          proc'[q].status # "free" => \E v \in Workers : HasChild(v)' /\ job'[v].pid = q
    <3>1. \A q \in OsPids : proc'[q].status # "free" =>
                               q # job[w].pid /\ proc[q].status # "free"
      BY <1>0, <2>1, <2>2 DEF NoProc
    <3> QED
      BY <2>1, <2>2, <3>1 DEF ChildInv
  <2>7. \A a \in Agents :
          children'[a] # NoPid =>
             \E v \in Workers : /\ pc'[v] \in {"read", "reap"}
                                /\ held'[v] = a /\ job'[v].pid = children'[a]
    <3>1. SUFFICES ASSUME NEW a \in Agents, children'[a] # NoPid
                   PROVE  \E v \in Workers : /\ pc'[v] \in {"read", "reap"}
                                             /\ held'[v] = a /\ job'[v].pid = children'[a]
      OBVIOUS
    <3>2. a # held[w] /\ children'[a] = children[a]
      BY <1>0, <2>1, <2>2, <3>1
    <3>3. PICK v \in Workers : /\ pc[v] \in {"read", "reap"}
                               /\ held[v] = a /\ job[v].pid = children[a]
      BY <3>1, <3>2 DEF ChildInv
    <3>4. v # w
      BY <3>2, <3>3
    <3> QED
      BY <1>0, <2>1, <3>2, <3>3, <3>4
  <2> QED
    BY <2>4, <2>5, <2>6, <2>7 DEF ChildInv
<1> QED
  BY <1>1, <1>2, <1>3, <1>4, <1>5, <1>6 DEF Supervisor

\* So does every other step.
LEMMA ChildInvStep == ProcInv /\ ChildInv /\ [Next]_vars => ChildInv'
<1> SUFFICES ASSUME ProcInv, ChildInv, [Next]_vars PROVE ChildInv'
  OBVIOUS
<1>f. ASSUME UNCHANGED <<pc, held, job, children>>,
             \A p \in OsPids : /\ proc'[p].agent = proc[p].agent
                               /\ proc'[p].status = "free" <=> proc[p].status = "free"
      PROVE  ChildInv'
  BY <1>f, ChildFrame
<1>t. ProcTypeOK /\ spent \in Nat
  BY DEF ProcInv, ApiInv, LoopTypeOK
<1>1. CASE \E w \in Workers : Supervisor(w) /\ UNCHANGED <<apiVars, aim>>
  BY <1>1, SupervisorChild
<1>2. CASE \E p \in OsPids : Child(p) /\ UNCHANGED <<apiVars, aim>>
  <2>1. PICK p \in OsPids : Child(p)
    BY <1>2
  <2>2. UNCHANGED <<pc, held, job, children>>
    BY <2>1 DEF Child, ChildStep, ChildEnds, ChildExits, loopVars
  <2>3. \A q \in OsPids : /\ proc'[q].agent = proc[q].agent
                          /\ proc'[q].status = "free" <=> proc[q].status = "free"
    BY <1>t, <2>1, ChildEffect
  <2> QED
    BY <1>f, <2>2, <2>3
<1>3. CASE \E c \in Callers : ProcessCaller(c)
  <2>1. UNCHANGED <<pc, held, job, children>>
    BY <1>3 DEF ProcessCaller, KillLookup, KillStrike, KillSignalled, ShutdownSlay,
       loopVars, procVars
  <2>2. UNCHANGED proc \/ \E S : Signal(S)
    BY <1>3 DEF ProcessCaller, KillLookup, KillStrike, KillSignalled, ShutdownSlay,
       procVars
  <2>3. \A q \in OsPids : /\ proc'[q].agent = proc[q].agent
                          /\ proc'[q].status = "free" <=> proc[q].status = "free"
    BY <1>t, <2>2, SignalProperties
  <2> QED
    BY <1>f, <2>1, <2>3
<1>4. CASE \/ \E c \in Callers : Caller(c) /\ UNCHANGED <<procVars, aim>>
           \/ \E t \in Threads : CompleteWrite(t) /\ UNCHANGED <<procVars, aim>>
           \/ UNCHANGED vars
  <2>1. UNCHANGED <<pc, held, procVars>>
    BY <1>4 DEF CompleteWrite, vars, Caller, SpawnRegister, KillCollect, SpawnEnqueue,
       KillMark, KillDequeue, KillReap, KillReturn, ReapTerminal, TopupQuota, Shutdown,
       ShutdownReturn, loopVars
  <2> QED
    BY <1>f, <2>1 DEF procVars
<1> QED
  BY <1>1, <1>2, <1>3, <1>4 DEF Next, ApiNext

\* No process runs when the kernel boots.
LEMMA ChildInvInit == Init => ChildInv
  BY LoopAssumption DEF Init, ProcInit, LoopInit, ChildInv, HasChild, NoProc

\* RegistryNamesOwnChild holds in every reachable state: what is in the
\* registry _children is a process that was forked for the agent it is listed
\* under and not yet waited for, so a SIGKILL sent under the registry lock hits
\* no recycled PID.
THEOREM RegistryCorrect == Spec => []RegistryNamesOwnChild
<1>1. ProcInv /\ ChildInv => RegistryNamesOwnChild
  BY DEF ChildInv, RegistryNamesOwnChild, HasChild
<1> QED
  BY <1>1, ProcTypeInit, ProcTypeStep, ChildInvInit, ChildInvStep, PTL DEF Spec

-----------------------------------------------------------------------------
(***************************************************************************)
(* Single dispatch and the in-flight count                                 *)
(***************************************************************************)
\* Every step of a worker keeps each PCB in one place.
LEMMA SupervisorDispatch ==
    ASSUME ProcInv, DispatchInv, NEW w \in Workers, Supervisor(w), UNCHANGED apiVars
    PROVE  SingleDispatch' /\ PutInv' /\ BornInv'
<1>0. /\ ApiInv /\ w \in Threads /\ w \notin Callers
      /\ pc \in [Workers -> PC] /\ born' = born
      /\ pc[w] \notin {"idle", "exited"} => held[w] \in Agents
  BY LoopAssumption, ApiAssumption DEF ProcInv, ApiInv, LoopTypeOK, Grip, apiVars,
     tableVars
<1>1. CASE (LoopStep(w) \/ Conclude(w, FALSE) \/ Finish(w)) /\ UNCHANGED procVars
  BY <1>1, LoopDispatch
<1>2. CASE PutBack(w)
  <2>1. /\ pc[w] = "denied" /\ Settled(w) /\ Put(w, held[w])
        /\ pc' = [pc EXCEPT ![w] = "late"] /\ UNCHANGED held
    BY <1>2 DEF PutBack, At, Goto
  <2>2. Grasps(w, held[w]) /\ held[w] \in Agents
    BY <1>0, <2>1 DEF Grasps, LetGo
  <2>3. \A u \in Threads, b \in Agents : Grasps(u, b)' => Grasps(u, b) /\ u # w
    BY <1>0, <2>1 DEF Grasps, LetGo, apiVars, callerVars
  <2>4. SingleDispatch' /\ BornInv'
    BY <1>0, <2>1, <2>2, <2>3, PutDispatch
  <2>5. PutInv'
    <3>1. \A u \in Threads : u # w => pending'[u] = pending[u]
      BY <1>0, <2>1, <2>2, PutOutcomes
    <3> QED
      BY <1>0, <2>1, <3>1 DEF PutInv, DispatchInv, apiVars, callerVars
  <2> QED
    BY <2>4, <2>5
<1>3. CASE \/ Start(w) \/ Admit(w) \/ ConcludeLate(w) \/ Fork(w) \/ ForkFails(w)
           \/ Die(w) \/ Register(w) \/ ReadResult(w) \/ Reap(w) \/ Settle(w)
  <2>1. /\ Settled(w) /\ UNCHANGED <<queue, held>>
        /\ \A v \in Workers : v # w => pc'[v] = pc[v]
        /\ pc'[w] \in LetGo \/ pc[w] \notin LetGo
        /\ pc[w] \notin {"idle", "exited"}
    BY <1>0, <1>3 DEF Start, Admit, ConcludeLate, Fork, ForkFails, Die, Register,
       ReadResult, Reap, Settle, At, Goto, LetGo, queueVars, TaskDone
  <2>2. UNCHANGED pending \/ \E s : Transition(w, held[w], s)
    BY <1>3 DEF Start, Admit, ConcludeLate, Fork, ForkFails, Die, Register,
       ReadResult, Reap, Settle, pcbVars
  <2>3. \A u \in Threads :
           pending'[u] = pending[u] \/ (u = w /\ ~pending'[u].enqueue)
    BY <1>0, <2>2, TransitionPending
  <2> QED
    BY <2>1, <2>3, WorkerFrame
<1> QED
  BY <1>1, <1>2, <1>3 DEF Supervisor

\* Every step of a worker keeps the count of dispatches.
LEMMA SupervisorInFlight ==
    ASSUME ProcInv, InFlightExact, NEW w \in Workers, Supervisor(w)
    PROVE  InFlightExact'
<1>0. ApiInv /\ pc \in [Workers -> PC] /\ inFlight \in Nat
  BY DEF ProcInv, ApiInv, LoopTypeOK, QueueTypeOK
<1>1. CASE (LoopStep(w) \/ Conclude(w, FALSE) \/ Finish(w)) /\ UNCHANGED procVars
  BY <1>0, <1>1, LoopInFlight
<1>2. CASE Die(w)
  <2>1. pc[w] = "crash" /\ pc' = [pc EXCEPT ![w] = "exited"] /\ TaskDone
    BY <1>2 DEF Die, At, Goto
  <2>2. w \in Dispatching /\ Dispatching' = Dispatching \ {w}
    BY <1>0, <2>1 DEF Dispatching
  <2>3. Cardinality(Dispatching') = Cardinality(Dispatching) - 1
    BY <2>2, DispatchersFinite, FS_RemoveElement
  <2>4. Cardinality(Dispatching) > 0
    BY <2>2, DispatchersFinite, FS_EmptySet
  <2> QED
    BY <1>0, <2>1, <2>3, <2>4, DispatchersFinite DEF TaskDone, InFlightExact
<1>3. CASE \/ Start(w) \/ Admit(w) \/ PutBack(w) \/ ConcludeLate(w) \/ Fork(w)
           \/ ForkFails(w) \/ Register(w) \/ ReadResult(w) \/ Reap(w) \/ Settle(w)
  <2>1. PICK p \in PC \ {"idle", "exited"} : pc' = [pc EXCEPT ![w] = p]
    <3>1. {"reserve", "denied", "fork", "late", "finish", "register", "crash", "read",
           "reap", "settle", "pipe"} \subseteq PC \ {"idle", "exited"}
      BY DEF PC
    <3> QED
      BY <1>3, <3>1 DEF Start, Admit, PutBack, ConcludeLate, Fork, ForkFails, Register,
         ReadResult, Reap, Settle, Goto
  <2>2. pc[w] \notin {"idle", "exited"} /\ UNCHANGED inFlight
    BY <1>3 DEF Start, Admit, PutBack, ConcludeLate, Fork, ForkFails, Register,
         ReadResult, Reap, Settle, At, Put, queueVars
  <2> QED
    BY <1>0, <2>1, <2>2, InFlightFrame
<1> QED
  BY <1>1, <1>2, <1>3 DEF Supervisor

ProcDispatchInv == ProcInv /\ ChildInv /\ DispatchInv /\ InFlightExact

\* Every step of the system keeps each PCB in one place and counts it once.
LEMMA ProcDispatchStep == ProcDispatchInv /\ [Next]_vars => ProcDispatchInv'
<1> SUFFICES ASSUME ProcDispatchInv, [Next]_vars PROVE ProcDispatchInv'
  OBVIOUS
<1>0. ProcInv /\ ChildInv /\ DispatchInv /\ InFlightExact /\ ProcInv' /\ ChildInv'
      /\ ApiInv'
  BY ProcTypeStep, ChildInvStep DEF ProcDispatchInv, ProcInv
<1>1. SUFFICES SingleDispatch' /\ PutInv' /\ BornInv' /\ InFlightExact'
  BY <1>0 DEF ProcDispatchInv, DispatchInv
<1>2. CASE \E w \in Workers : Supervisor(w) /\ UNCHANGED <<apiVars, aim>>
  BY <1>0, <1>2, SupervisorDispatch, SupervisorInFlight
<1>3. CASE \/ \E p \in OsPids : Child(p) /\ UNCHANGED <<apiVars, aim>>
           \/ UNCHANGED vars
  <2>1. UNCHANGED <<pcbVars, queueVars, pc, held, apiVars>>
    BY <1>3 DEF Child, ChildStep, ChildEnds, ChildExits, loopVars, vars
  <2>2. InFlightExact'
    BY <1>0, <2>1 DEF InFlightExact, Dispatching, queueVars
  <2>3. \A t \in Threads, a \in Agents : Holds(t, a)' => Holds(t, a)
    BY <2>1 DEF Holds, pcbVars, apiVars, callerVars
  <2>4. SingleDispatch' /\ BornInv'
    BY <1>0, <2>1, <2>3, ReleaseDispatch DEF DispatchInv, queueVars, apiVars, tableVars
  <2>5. PutInv'
    BY <1>0, <2>1 DEF PutInv, DispatchInv, pcbVars, apiVars, callerVars
  <2> QED
    BY <2>2, <2>4, <2>5
<1>4. CASE \E c \in Callers : Caller(c) /\ UNCHANGED <<procVars, aim>>
  BY <1>0, <1>4, CallerDispatch, ApiInFlight
<1>5. CASE \E c \in Callers : ProcessCaller(c)
  <2>1. PICK c \in Callers : ProcessCaller(c)
    BY <1>5
  <2>2. /\ Settled(c) /\ UNCHANGED <<pcbVars, queueVars, pc, held, target, tableVars>>
        /\ cpc' = cpc \/ \E p \in {"strike", "signal", "pop", "join"} : CallerGoto(c, p)
        /\ cpc[c] # "spawn"
    BY <2>1 DEF ProcessCaller, KillLookup, KillStrike, KillSignalled, ShutdownSlay,
       CallerAt, loopVars
  <2>3. /\ \A e \in Callers : e # c => cpc'[e] = cpc[e]
        /\ cpc'[c] # "spawn"
    BY <1>0, <2>2 DEF CallerGoto, ApiInv, ApiTypeOK
  <2>4. SingleDispatch' /\ PutInv' /\ BornInv'
    BY <1>0, <2>2, <2>3, CallerFrame DEF pcbVars, queueVars, tableVars
  <2>5. InFlightExact'
    BY <1>0, <2>2 DEF InFlightExact, Dispatching, queueVars
  <2> QED
    BY <2>4, <2>5
<1>6. CASE \E t \in Threads : CompleteWrite(t) /\ UNCHANGED <<procVars, aim>>
  BY <1>0, <1>6, WriteDispatch, ApiInFlight
<1> QED
  BY <1>2, <1>3, <1>4, <1>5, <1>6 DEF Next, ApiNext

\* It holds when the kernel boots.
LEMMA ProcDispatchInit == Init => ProcDispatchInv
<1> SUFFICES ASSUME Init PROVE ProcDispatchInv
  OBVIOUS
<1>1. ProcInv /\ ChildInv
  BY ProcTypeInit, ChildInvInit
<1>2. SingleDispatch /\ PutInv /\ BornInv
  BY ApiDispatchInit DEF Init
<1>3. InFlightExact
  <2>1. Dispatching = {}
    BY DEF Init, LoopInit, Dispatching
  <2> QED
    BY <2>1, FS_EmptySet DEF Init, QueueInit, InFlightExact
<1> QED
  BY <1>1, <1>2, <1>3 DEF ProcDispatchInv, DispatchInv, ProcInv

\* Hence the inductive invariant always holds.
LEMMA ProcDispatchCorrect == Spec => []ProcDispatchInv
  BY ProcDispatchInit, ProcDispatchStep, PTL DEF Spec

\* SingleDispatch holds in every reachable state of the process-backed kernel,
\* thread switches inside transition(), kills, fork failures and put-backs for
\* want of quota included: an agent is on the queue or in one thread's hands,
\* never twice, so it never has two children.
THEOREM ProcessNoDoubleDispatch == Spec => []SingleDispatch
<1>1. ProcDispatchInv => SingleDispatch
  BY DEF ProcDispatchInv, DispatchInv
<1> QED
  BY <1>1, ProcDispatchCorrect, PTL

\* InFlightExact holds in every reachable state of the process-backed kernel,
\* on the paths of workers that die of a failed fork() included.
THEOREM ProcessInFlightCorrect == Spec => []InFlightExact
<1>1. ProcDispatchInv => InFlightExact
  BY DEF ProcDispatchInv
<1> QED
  BY <1>1, ProcDispatchCorrect, PTL

\* DrainedMeansReaped holds in every reachable state: a process that is not
\* free has a supervisor, which is counted in flight, so wait_idle() returns
\* only when no child is left, not even a zombie.
THEOREM IdleMeansReaped == Spec => []DrainedMeansReaped
<1>1. ProcDispatchInv => DrainedMeansReaped
  <2> SUFFICES ASSUME ProcDispatchInv, inFlight = 0, NEW p \in OsPids,
                      proc[p].status # "free"
               PROVE  FALSE
    BY DEF DrainedMeansReaped, IsDrained
  <2>1. PICK w \in Workers : HasChild(w)
    BY DEF ProcDispatchInv, ChildInv
  <2>2. w \in Dispatching
    BY <2>1 DEF HasChild, Dispatching
  <2>3. Cardinality(Dispatching) # 0
    BY <2>2, DispatchersFinite, FS_EmptySet
  <2> QED
    BY <2>3 DEF ProcDispatchInv, InFlightExact
<1> QED
  BY <1>1, ProcDispatchCorrect, PTL

-----------------------------------------------------------------------------
(***************************************************************************)
(* What a child spends and reports                                         *)
(***************************************************************************)
\* A child spends no more than it was allowed, reports only when it is at its
\* end, and without an end it has made no more than MaxToolCalls calls.
ResultInv ==
    \A p \in OsPids :
        /\ proc[p].used <= proc[p].allow
        /\ proc[p].status # "exited" => proc[p].report = "cut"
        /\ proc[p].status = "writing" \/ proc[p].report = "full" => Finished(p)
        /\ proc[p].state \in TerminalStates \/ proc[p].used <= MaxToolCalls

InJob(w) == pc[w] \in {"fork", "register", "read", "reap", "settle"}

\* The locals of _run_in_process against the PCB and the child: the units
\* reserved are part of the agent's quota, the child may spend just those, and
\* a result that was applied is the one of the child that has exited.
JobInv ==
    /\ \A w \in Workers :
          InJob(w) =>
             /\ job[w].reserved <= job[w].quota
             /\ job[w].quota + job[w].before <= AgentQuota
             /\ quotaOf[held[w]] = job[w].reserved
             /\ pc[w] \in {"fork", "register", "read"} => ~job[w].completed
             /\ ~job[w].completed => calls[held[w]] = job[w].before
             /\ job[w].completed => /\ job[w].before <= calls[held[w]]
                                    /\ calls[held[w]] <= job[w].before + job[w].reserved
    /\ \A w \in Workers :
          HasChild(w) =>
             /\ proc[job[w].pid].allow = job[w].reserved
             /\ job[w].completed =>
                   /\ proc[job[w].pid].status = "exited"
                   /\ calls[held[w]] = job[w].before + proc[job[w].pid].used
    /\ \A x \in Agents :
          (\A w \in Workers : InJob(w) => held[w] # x)
             => quotaOf[x] + calls[x] <= AgentQuota

\* A child's step keeps what is said of its process.
LEMMA ChildResult ==
    ASSUME ProcInv, ChildInv, ResultInv, NEW p \in OsPids, Child(p)
    PROVE  ResultInv'
<1>0. ProcTypeOK /\ spent \in Nat /\ proc[p] \in Proc
  BY DEF ProcInv, ApiInv, LoopTypeOK, ProcTypeOK
<1>1. proc[p].used \in Nat /\ proc[p].allow \in Nat
  BY <1>0 DEF Proc
<1>2. proc[p].status # "free" => proc[p].agent \in Agents
  BY DEF ChildInv, ProcInv, ApiInv, Grip, HasChild
<1>e. \A q \in OsPids : q # p => proc'[q] = proc[q]
  BY <1>0, ChildEffect
<1>3. SUFFICES /\ proc'[p].used <= proc'[p].allow
               /\ proc'[p].status # "exited" => proc'[p].report = "cut"
               /\ proc'[p].status = "writing" \/ proc'[p].report = "full" =>
                     proc'[p].state \in TerminalStates \/ proc'[p].used >= StepCap
               /\ proc'[p].state \in TerminalStates \/ proc'[p].used <= MaxToolCalls
  BY <1>e DEF ResultInv, Finished
<1>4. CASE ChildStep(p)
  <2>1. /\ proc[p].status = "running" /\ proc'[p].status = "running"
        /\ proc'[p].report = proc[p].report /\ proc'[p].allow = proc[p].allow
        /\ \/ proc'[p].used = proc[p].used /\ proc'[p].state \in TerminalStates
           \/ /\ proc'[p].used = proc[p].used + 1
              /\ ~Refused(proc[p].agent, proc[p].used, proc[p].allow)
              /\ proc'[p].state \in TerminalStates \/ Kind[proc[p].agent] = "react"
    BY <1>0, <1>4, ChildEffect DEF ChildStep
  <2>2. proc'[p].report = "cut"
    BY <2>1 DEF ResultInv
  <2>3. proc'[p].used <= proc'[p].allow
    BY <1>1, <2>1 DEF ResultInv, Refused
  <2>4. proc'[p].state \in TerminalStates \/ proc'[p].used <= MaxToolCalls
    BY <1>1, <2>1, LoopAssumption DEF Refused
  <2> QED
    BY <2>1, <2>2, <2>3, <2>4
<1>5. CASE ~ChildStep(p)
  <2>1. /\ proc[p].status \in {"running", "writing"}
        /\ proc'[p].status = "writing" => Finished(p)
        /\ proc[p].status = "writing" =>
              proc'[p].status = "exited" /\ proc'[p].report = "full"
        /\ proc[p].status = "running" =>
              proc'[p].status = "writing" /\ proc'[p].report = proc[p].report
        /\ proc'[p].state = proc[p].state /\ proc'[p].allow = proc[p].allow
        /\ proc'[p].used = proc[p].used
    BY <1>0, <1>5, ChildEffect
  <2> QED
    BY <2>1 DEF ResultInv, Finished
<1> QED
  BY <1>4, <1>5

\* Every step of the system keeps it.
LEMMA ResultStep ==
    ASSUME ProcInv, ChildInv, ResultInv, [Next]_vars
    PROVE  ResultInv'
<1>t. ProcTypeOK /\ spent \in Nat
  BY DEF ProcInv, ApiInv, LoopTypeOK
<1>f. UNCHANGED proc => ResultInv'
  BY DEF ResultInv, Finished
<1>1. CASE \E p \in OsPids : Child(p) /\ UNCHANGED <<apiVars, aim>>
  BY <1>1, ChildResult
<1>2. CASE \E c \in Callers : ProcessCaller(c)
  <2>1. UNCHANGED proc \/ \E S : Signal(S)
    BY <1>2 DEF ProcessCaller, KillLookup, KillStrike, KillSignalled, ShutdownSlay,
       procVars
  <2>2. CASE \E S : Signal(S)
    <3>1. \A p \in OsPids :
             /\ proc'[p].state = proc[p].state /\ proc'[p].used = proc[p].used
             /\ proc'[p].allow = proc[p].allow
             /\ \/ proc'[p] = proc[p]
                \/ /\ proc'[p].status = "exited"
                   /\ \/ proc[p].status = "writing"
                      \/ proc'[p].report = proc[p].report
      BY <1>t, <2>2, SignalProperties
    <3> QED
      BY <3>1 DEF ResultInv, Finished
  <2> QED
    BY <1>f, <2>1, <2>2
<1>3. CASE \E w \in Workers : Supervisor(w)
  <2>1. PICK w \in Workers : Supervisor(w)
    BY <1>3
  <2>2. CASE Fork(w)
    <3>1. PICK p \in OsPids :
             proc' = [proc EXCEPT ![p] =
                [status |-> "running", agent |-> held[w], state |-> state[held[w]],
                 used |-> 0, allow |-> job[w].reserved, ends |-> OpenPipes,
                 report |-> "cut"]]
      BY <2>2 DEF Fork
    <3>2. job[w].reserved \in Nat
      BY <1>t DEF ProcTypeOK, Job
    <3>3. /\ proc'[p].used = 0 /\ proc'[p].allow = job[w].reserved
          /\ proc'[p].status = "running" /\ proc'[p].report = "cut"
          /\ \A q \in OsPids : q # p => proc'[q] = proc[q]
      BY <1>t, <3>1 DEF ProcTypeOK
    <3> QED
      BY <3>2, <3>3, LoopAssumption DEF ResultInv, Finished
  <2>3. CASE Reap(w)
    <3>1. \A q \in OsPids : proc'[q] = proc[q] \/ proc'[q] = NoProc
      BY <1>t, <2>3 DEF Reap, ProcTypeOK
    <3> QED
      BY <3>1, LoopAssumption DEF ResultInv, Finished, NoProc
  <2>4. CASE ~(Fork(w) \/ Reap(w))
    BY <1>f, <2>1, <2>4 DEF Supervisor, Start, Admit, PutBack, ConcludeLate, ForkFails,
       Die, Register, ReadResult, Settle, procVars
  <2> QED
    BY <2>2, <2>3, <2>4
<1>4. CASE UNCHANGED procVars
  BY <1>f, <1>4 DEF procVars
<1> QED
  BY <1>1, <1>2, <1>3, <1>4 DEF Next, ApiNext, vars

\* A worker with a job holds its agent alone.
LEMMA JobAlone ==
    ASSUME DispatchInv, NEW v \in Workers, NEW w \in Workers, InJob(v),
           pc[w] \notin LetGo, held[w] \in Agents, held[v] = held[w]
    PROVE  v = w
<1>1. Holds(v, held[w]) /\ Holds(w, held[w]) /\ v \in Threads /\ w \in Threads
  BY LoopAssumption DEF InJob, LetGo, Holds
<1> QED
  BY <1>1 DEF DispatchInv, SingleDispatch

\* Steps that neither begin a job nor end it nor apply a result.
LEMMA JobFrame ==
    ASSUME ProcInv, JobInv, UNCHANGED <<calls, quotaOf>>,
           \A w \in Workers :
              \/ pc'[w] = pc[w] /\ held'[w] = held[w] /\ job'[w] = job[w]
              \/ ~InJob(w) /\ ~InJob(w)'
              \/ /\ pc[w] = "register" /\ pc'[w] = "read"
                 /\ held'[w] = held[w] /\ job'[w] = job[w],
           \A p \in OsPids :
              /\ proc'[p].allow = proc[p].allow
              /\ proc[p].status = "exited" =>
                    proc'[p].status = "exited" /\ proc'[p].used = proc[p].used
    PROVE  JobInv'
<1>1. \A w \in Workers :
         InJob(w)' => /\ InJob(w) /\ held'[w] = held[w] /\ job'[w] = job[w]
                      /\ pc'[w] \in {"fork", "register", "read"} =>
                            pc[w] \in {"fork", "register", "read"}
  BY DEF InJob
<1>2. \A w \in Workers :
         HasChild(w)' => /\ HasChild(w) /\ held'[w] = held[w] /\ job'[w] = job[w]
                         /\ job[w].pid \in OsPids
  BY DEF InJob, HasChild, ProcInv, Forked
<1>3. \A w \in Workers : InJob(w) => InJob(w)' /\ held'[w] = held[w]
  BY DEF InJob
<1>4. \A w \in Workers :
          InJob(w)' =>
             /\ job'[w].reserved <= job'[w].quota
             /\ job'[w].quota + job'[w].before <= AgentQuota
             /\ quotaOf'[held'[w]] = job'[w].reserved
             /\ pc'[w] \in {"fork", "register", "read"} => ~job'[w].completed
             /\ ~job'[w].completed => calls'[held'[w]] = job'[w].before
             /\ job'[w].completed =>
                   /\ job'[w].before <= calls'[held'[w]]
                   /\ calls'[held'[w]] <= job'[w].before + job'[w].reserved
  BY <1>1 DEF JobInv
<1>5. \A w \in Workers :
          HasChild(w)' =>
             /\ proc'[job'[w].pid].allow = job'[w].reserved
             /\ job'[w].completed =>
                   /\ proc'[job'[w].pid].status = "exited"
                   /\ calls'[held'[w]] = job'[w].before + proc'[job'[w].pid].used
  BY <1>2 DEF JobInv
<1>6. \A x \in Agents :
          (\A w \in Workers : InJob(w)' => held'[w] # x)
             => quotaOf'[x] + calls'[x] <= AgentQuota
  BY <1>3 DEF JobInv
<1> QED
  BY <1>4, <1>5, <1>6 DEF JobInv

\* Admission takes its units from what the agent may still spend.
LEMMA JobAdmit ==
    ASSUME ProcInv, DispatchInv, JobInv, NEW w \in Workers, Admit(w)
    PROVE  JobInv'
<1>0. /\ pc \in [Workers -> PC] /\ job \in [Workers -> Job]
      /\ quotaOf \in [Agents -> Nat] /\ calls \in [Agents -> Nat]
      /\ remaining \in Nat /\ proc \in [OsPids -> Proc]
      /\ pc[w] = "reserve" /\ held[w] \in Agents
      /\ UNCHANGED <<held, calls, proc>>
  BY DEF ProcInv, ApiInv, LoopTypeOK, QuotaTypeOK, ProcTypeOK, Grip, Admit, At, agentVars
<1> DEFINE x == held[w]
           n == Grant(quotaOf[x])
<1>1. CASE Goto(w, "denied") /\ UNCHANGED <<job, quotaOf>>
  <2>1. /\ ~InJob(w) /\ ~InJob(w)'
        /\ \A v \in Workers : v # w => pc'[v] = pc[v]
    BY <1>0, <1>1 DEF Goto, InJob
  <2> QED
    BY <1>0, <1>1, <2>1, JobFrame
<1>2. CASE /\ job' = [job EXCEPT ![w] = [quota |-> quotaOf[x], reserved |-> n,
                            before |-> calls[x], pid |-> NoPid, completed |-> FALSE]]
           /\ quotaOf' = [quotaOf EXCEPT ![x] = n]
           /\ Goto(w, "fork")
  <2>1. n \in Nat /\ n <= quotaOf[x] /\ quotaOf[x] \in Nat /\ calls[x] \in Nat
    BY <1>0 DEF Grant
  <2>2. \A v \in Workers : InJob(v) => held[v] # x
    BY <1>0, JobAlone DEF InJob, LetGo
  <2>3. quotaOf[x] + calls[x] <= AgentQuota
    BY <1>0, <2>2 DEF JobInv
  <2> HIDE DEF n
  <2>4. /\ job'[w].quota = quotaOf[x] /\ job'[w].reserved = n
        /\ job'[w].before = calls[x] /\ ~job'[w].completed
        /\ \A v \in Workers : v # w => job'[v] = job[v] /\ pc'[v] = pc[v]
        /\ pc'[w] = "fork" /\ quotaOf'[x] = n
        /\ \A y \in Agents : y # x => quotaOf'[y] = quotaOf[y]
    BY <1>0, <1>2 DEF Goto
  <2>5. ASSUME NEW v \in Workers, InJob(v)'
        PROVE  /\ job'[v].reserved <= job'[v].quota
               /\ job'[v].quota + job'[v].before <= AgentQuota
               /\ quotaOf'[held'[v]] = job'[v].reserved
               /\ pc'[v] \in {"fork", "register", "read"} => ~job'[v].completed
               /\ ~job'[v].completed => calls'[held'[v]] = job'[v].before
               /\ job'[v].completed =>
                     /\ job'[v].before <= calls'[held'[v]]
                     /\ calls'[held'[v]] <= job'[v].before + job'[v].reserved
    <3>1. CASE v = w
      BY <1>0, <2>1, <2>3, <2>4, <3>1
    <3>2. CASE v # w
      <4>1. InJob(v) /\ held[v] \in Agents
        BY <2>4, <2>5, <3>2 DEF InJob, ProcInv, ApiInv, Grip
      <4>2. quotaOf'[held[v]] = quotaOf[held[v]]
        BY <2>2, <2>4, <4>1
      <4> QED
        BY <1>0, <2>4, <3>2, <4>1, <4>2 DEF JobInv
    <3> QED
      BY <3>1, <3>2
  <2>6. ASSUME NEW v \in Workers, HasChild(v)'
        PROVE  /\ proc'[job'[v].pid].allow = job'[v].reserved
               /\ job'[v].completed =>
                     /\ proc'[job'[v].pid].status = "exited"
                     /\ calls'[held'[v]] = job'[v].before + proc'[job'[v].pid].used
    BY <1>0, <2>4, <2>6 DEF JobInv, HasChild
  <2>7. ASSUME NEW y \in Agents, \A v \in Workers : InJob(v)' => held'[v] # y
        PROVE  quotaOf'[y] + calls'[y] <= AgentQuota
    <3>1. y # x
      BY <1>0, <2>4, <2>7 DEF InJob
    <3>2. \A v \in Workers : InJob(v) => held[v] # y
      BY <1>0, <2>4, <2>7, <3>1 DEF InJob
    <3> QED
      BY <1>0, <2>4, <3>1, <3>2 DEF JobInv
  <2> QED
    BY <2>5, <2>6, <2>7 DEF JobInv
<1> QED
  BY <1>1, <1>2 DEF Admit

\* fork() gives the child just the units that were reserved.
LEMMA JobFork ==
    ASSUME ProcInv, ChildInv, JobInv, NEW w \in Workers, Fork(w)
    PROVE  JobInv'
<1>0. /\ pc \in [Workers -> PC] /\ job \in [Workers -> Job] /\ proc \in [OsPids -> Proc]
      /\ pc[w] = "fork" /\ pc' = [pc EXCEPT ![w] = "register"]
      /\ UNCHANGED <<held, calls, quotaOf>>
  BY DEF ProcInv, ApiInv, LoopTypeOK, ProcTypeOK, Fork, At, Goto, agentVars
<1>1. PICK p \in OsPids :
         /\ proc[p].status = "free"
         /\ proc' = [proc EXCEPT ![p] =
              [status |-> "running", agent |-> held[w], state |-> state[held[w]],
               used |-> 0, allow |-> job[w].reserved, ends |-> OpenPipes,
               report |-> "cut"]]
         /\ job' = [job EXCEPT ![w].pid = p]
  BY DEF Fork
<1>2. job[w] \in Job
  BY <1>0
<1>3. /\ \A v \in Workers : v # w => job'[v] = job[v] /\ pc'[v] = pc[v]
      /\ pc'[w] = "register" /\ job'[w].pid = p
      /\ job'[w].quota = job[w].quota /\ job'[w].reserved = job[w].reserved
      /\ job'[w].before = job[w].before /\ job'[w].completed = job[w].completed
      /\ proc'[p].allow = job[w].reserved
      /\ \A q \in OsPids : q # p => proc'[q] = proc[q]
  BY <1>0, <1>1, <1>2 DEF Job
<1>4. \A v \in Workers : InJob(v)' <=> InJob(v)
  BY <1>0, <1>3 DEF InJob
<1>5. ASSUME NEW v \in Workers, InJob(v)'
      PROVE  /\ job'[v].reserved <= job'[v].quota
             /\ job'[v].quota + job'[v].before <= AgentQuota
             /\ quotaOf'[held'[v]] = job'[v].reserved
             /\ pc'[v] \in {"fork", "register", "read"} => ~job'[v].completed
             /\ ~job'[v].completed => calls'[held'[v]] = job'[v].before
             /\ job'[v].completed =>
                   /\ job'[v].before <= calls'[held'[v]]
                   /\ calls'[held'[v]] <= job'[v].before + job'[v].reserved
  <2>1. CASE v = w
    BY <1>0, <1>3, <1>4, <1>5, <2>1 DEF JobInv
  <2>2. CASE v # w
    BY <1>0, <1>3, <1>4, <1>5, <2>2 DEF JobInv
  <2> QED
    BY <2>1, <2>2
<1>6. ASSUME NEW v \in Workers, HasChild(v)'
      PROVE  /\ proc'[job'[v].pid].allow = job'[v].reserved
             /\ job'[v].completed =>
                   /\ proc'[job'[v].pid].status = "exited"
                   /\ calls'[held'[v]] = job'[v].before + proc'[job'[v].pid].used
  <2>1. CASE v = w
    <3>1. ~job[w].completed
      BY <1>0 DEF JobInv, InJob
    <3> QED
      BY <1>3, <2>1, <3>1
  <2>2. CASE v # w
    <3>1. HasChild(v) /\ job[v].pid \in OsPids \ {p}
      BY <1>1, <1>3, <1>6, <2>2 DEF HasChild, ChildInv, ProcInv, Forked
    <3> QED
      BY <1>0, <1>3, <2>2, <3>1 DEF JobInv
  <2> QED
    BY <2>1, <2>2
<1>7. \A y \in Agents : (\A v \in Workers : InJob(v)' => held'[v] # y)
                           => quotaOf'[y] + calls'[y] <= AgentQuota
  BY <1>0, <1>4 DEF JobInv
<1> QED
  BY <1>5, <1>6, <1>7 DEF JobInv

\* A whole result comes from a child that has exited, and its calls are added
\* to those of the agent that only this worker holds.
LEMMA JobRead ==
    ASSUME ProcInv, ChildInv, DispatchInv, ResultInv, JobInv, NEW w \in Workers,
           ReadResult(w)
    PROVE  JobInv'
<1>0. /\ pc \in [Workers -> PC] /\ job \in [Workers -> Job] /\ proc \in [OsPids -> Proc]
      /\ calls \in [Agents -> Nat]
      /\ pc[w] = "read" /\ pc' = [pc EXCEPT ![w] = "reap"]
      /\ held[w] \in Agents /\ job[w].pid \in OsPids
      /\ UNCHANGED <<held, quotaOf, proc>>
  BY DEF ProcInv, ApiInv, LoopTypeOK, ProcTypeOK, ReadResult, At, Goto, Grip, Forked
<1> DEFINE child == proc[job[w].pid]
<1>1. job[w] \in Job /\ child \in Proc
  BY <1>0
<1>2. /\ child.used \in Nat /\ child.allow = job[w].reserved /\ child.used <= child.allow
      /\ job[w].before \in Nat /\ job[w].reserved \in Nat /\ ~job[w].completed
      /\ child.report = "full" => child.status = "exited"
  BY <1>0, <1>1 DEF Proc, Job, JobInv, ResultInv, InJob, HasChild
<1>3. /\ \A v \in Workers : v # w => job'[v] = job[v] /\ pc'[v] = pc[v]
      /\ job'[w].pid = job[w].pid /\ job'[w].quota = job[w].quota
      /\ job'[w].reserved = job[w].reserved /\ job'[w].before = job[w].before
      /\ \A y \in Agents : y # held[w] => calls'[y] = calls[y]
      /\ \/ calls' = calls /\ ~job'[w].completed
         \/ /\ child.report = "full" /\ job'[w].completed
            /\ calls'[held[w]] = job[w].before + child.used
  BY <1>0, <1>1, <1>2 DEF ReadResult, Job
<1>4. \A v \in Workers : InJob(v) /\ v # w => held[v] # held[w]
  BY <1>0, JobAlone DEF LetGo
<1>5. \A v \in Workers : /\ InJob(v)' <=> InJob(v)
                         /\ HasChild(v)' <=> HasChild(v)
                         /\ InJob(v) => held[v] \in Agents
                         /\ HasChild(v) => InJob(v)
  BY <1>0 DEF InJob, HasChild, ProcInv, ApiInv, Grip
<1>6. ASSUME NEW v \in Workers, InJob(v)'
      PROVE  /\ job'[v].reserved <= job'[v].quota
             /\ job'[v].quota + job'[v].before <= AgentQuota
             /\ quotaOf'[held'[v]] = job'[v].reserved
             /\ pc'[v] \in {"fork", "register", "read"} => ~job'[v].completed
             /\ ~job'[v].completed => calls'[held'[v]] = job'[v].before
             /\ job'[v].completed =>
                   /\ job'[v].before <= calls'[held'[v]]
                   /\ calls'[held'[v]] <= job'[v].before + job'[v].reserved
  <2>1. CASE v = w
    <3>1. pc'[w] = "reap"
      BY <1>0
    <3>2. /\ job[w].reserved <= job[w].quota
          /\ job[w].quota + job[w].before <= AgentQuota
          /\ quotaOf[held[w]] = job[w].reserved
          /\ calls[held[w]] = job[w].before
      BY <1>2, <1>5, <1>6, <2>1 DEF JobInv
    <3>3. job'[w].completed =>
                   /\ job[w].before <= calls'[held[w]]
                   /\ calls'[held[w]] <= job[w].before + job[w].reserved
      BY <1>2, <1>3
    <3> QED
      BY <1>0, <1>3, <2>1, <3>1, <3>2, <3>3
  <2>2. CASE v # w
    BY <1>0, <1>3, <1>4, <1>5, <1>6, <2>2 DEF JobInv
  <2> QED
    BY <2>1, <2>2
<1>7. ASSUME NEW v \in Workers, HasChild(v)'
      PROVE  /\ proc'[job'[v].pid].allow = job'[v].reserved
             /\ job'[v].completed =>
                   /\ proc'[job'[v].pid].status = "exited"
                   /\ calls'[held'[v]] = job'[v].before + proc'[job'[v].pid].used
  <2>1. CASE v = w
    BY <1>0, <1>2, <1>3, <2>1
  <2>2. CASE v # w
    BY <1>0, <1>3, <1>4, <1>5, <1>7, <2>2 DEF JobInv
  <2> QED
    BY <2>1, <2>2
<1>8. \A y \in Agents : (\A v \in Workers : InJob(v)' => held'[v] # y)
                           => quotaOf'[y] + calls'[y] <= AgentQuota
  <2>1. InJob(w)
    BY <1>0 DEF InJob
  <2> QED
    BY <1>0, <1>3, <1>5, <2>1 DEF JobInv
<1> QED
  BY <1>6, <1>7, <1>8 DEF JobInv

\* The end of a job gives the agent back what its child has not spent, or takes
\* the whole reservation; a failed fork() leaves it the reservation only.
LEMMA JobEnd ==
    ASSUME ProcInv, DispatchInv, JobInv, NEW w \in Workers, Settle(w) \/ ForkFails(w)
    PROVE  JobInv'
<1>0. /\ pc \in [Workers -> PC] /\ job \in [Workers -> Job] /\ proc \in [OsPids -> Proc]
      /\ calls \in [Agents -> Nat] /\ quotaOf \in [Agents -> Nat]
      /\ pc[w] \in {"settle", "fork"} /\ held[w] \in Agents
      /\ UNCHANGED <<held, proc, calls>>
      /\ pc' = [pc EXCEPT ![w] = "pipe"] \/ pc' = [pc EXCEPT ![w] = "crash"]
  BY DEF ProcInv, ApiInv, LoopTypeOK, ProcTypeOK, Settle, ForkFails, At, Goto, Grip,
     agentVars, procVars
<1>1. job[w] \in Job
  BY <1>0
<1>2. /\ job[w].quota \in Nat /\ job[w].reserved \in Nat /\ job[w].before \in Nat
      /\ calls[held[w]] \in Nat /\ AgentQuota \in Nat
  BY <1>0, <1>1, LoopAssumption DEF Job
<1>3. /\ job[w].reserved <= job[w].quota
      /\ job[w].quota + job[w].before <= AgentQuota
      /\ quotaOf[held[w]] = job[w].reserved
      /\ pc[w] = "fork" => ~job[w].completed
      /\ ~job[w].completed => calls[held[w]] = job[w].before
      /\ job[w].completed => /\ job[w].before <= calls[held[w]]
                             /\ calls[held[w]] <= job[w].before + job[w].reserved
  BY <1>0 DEF JobInv, InJob
<1>4. /\ \A v \in Workers : v # w => job'[v] = job[v] /\ pc'[v] = pc[v]
      /\ \A y \in Agents : y # held[w] => quotaOf'[y] = quotaOf[y]
  BY <1>0 DEF Settle, ForkFails, procVars
<1>5. quotaOf'[held[w]] + calls[held[w]] <= AgentQuota
  <2>1. CASE ForkFails(w)
    <3>1. UNCHANGED quotaOf /\ pc[w] = "fork"
      BY <2>1 DEF ForkFails, At, procVars
    <3> QED
      BY <1>2, <1>3, <3>1
  <2>2. CASE Settle(w) /\ job[w].completed
    <3>1. quotaOf'[held[w]] = Less(job[w].quota, Less(calls[held[w]], job[w].before))
      BY <1>0, <2>2 DEF Settle
    <3>2. Less(calls[held[w]], job[w].before) = calls[held[w]] - job[w].before
      BY <1>2, <1>3, <2>2 DEF Less
    <3> QED
      BY <1>2, <1>3, <2>2, <3>1, <3>2 DEF Less
  <2>3. CASE Settle(w) /\ ~job[w].completed
    <3>1. quotaOf'[held[w]] = Less(job[w].quota, job[w].reserved)
      BY <1>0, <2>3 DEF Settle
    <3> QED
      BY <1>2, <1>3, <2>3, <3>1 DEF Less
  <2> QED
    BY <2>1, <2>2, <2>3
<1>6. \A v \in Workers : InJob(v) /\ v # w => held[v] # held[w]
  BY <1>0, JobAlone DEF LetGo
<1>7. \A v \in Workers :
         /\ InJob(v)' => InJob(v) /\ v # w /\ held[v] \in Agents
         /\ HasChild(v)' => HasChild(v) /\ v # w /\ InJob(v)'
         /\ InJob(v) => v = w \/ InJob(v)'
  BY <1>0 DEF InJob, HasChild, ProcInv, ApiInv, Grip
<1>8. \A v \in Workers :
          InJob(v)' =>
             /\ job'[v].reserved <= job'[v].quota
             /\ job'[v].quota + job'[v].before <= AgentQuota
             /\ quotaOf'[held'[v]] = job'[v].reserved
             /\ pc'[v] \in {"fork", "register", "read"} => ~job'[v].completed
             /\ ~job'[v].completed => calls'[held'[v]] = job'[v].before
             /\ job'[v].completed =>
                   /\ job'[v].before <= calls'[held'[v]]
                   /\ calls'[held'[v]] <= job'[v].before + job'[v].reserved
  BY <1>0, <1>4, <1>6, <1>7 DEF JobInv
<1>9. \A v \in Workers :
          HasChild(v)' =>
             /\ proc'[job'[v].pid].allow = job'[v].reserved
             /\ job'[v].completed =>
                   /\ proc'[job'[v].pid].status = "exited"
                   /\ calls'[held'[v]] = job'[v].before + proc'[job'[v].pid].used
  BY <1>0, <1>4, <1>7 DEF JobInv
<1>10. ASSUME NEW y \in Agents, \A v \in Workers : InJob(v)' => held'[v] # y
       PROVE  quotaOf'[y] + calls'[y] <= AgentQuota
  <2>1. CASE y = held[w]
    BY <1>0, <1>5, <2>1
  <2>2. CASE y # held[w]
    BY <1>0, <1>4, <1>7, <1>10, <2>2 DEF JobInv
  <2> QED
    BY <2>1, <2>2
<1> QED
  BY <1>8, <1>9, <1>10 DEF JobInv

\* waitpid() frees no other worker's child.
LEMMA JobReap ==
    ASSUME ProcInv, ChildInv, JobInv, NEW w \in Workers, Reap(w)
    PROVE  JobInv'
<1>0. /\ pc \in [Workers -> PC] /\ proc \in [OsPids -> Proc]
      /\ pc[w] = "reap" /\ pc' = [pc EXCEPT ![w] = "settle"]
      /\ proc' = [proc EXCEPT ![job[w].pid] = NoProc]
      /\ UNCHANGED <<held, job, calls, quotaOf>>
  BY DEF ProcInv, ApiInv, LoopTypeOK, ProcTypeOK, Reap, At, Goto, agentVars
<1>1. \A v \in Workers :
         /\ InJob(v)' <=> InJob(v)
         /\ pc'[v] \in {"fork", "register", "read"} => pc[v] = pc'[v]
         /\ HasChild(v)' => /\ HasChild(v) /\ v # w /\ job[v].pid \in OsPids
                            /\ job[v].pid # job[w].pid
  BY <1>0 DEF InJob, HasChild, ChildInv, ProcInv, Forked
<1>2. \A v \in Workers : HasChild(v)' => proc'[job[v].pid] = proc[job[v].pid]
  BY <1>0, <1>1
<1>3. \A v \in Workers :
          InJob(v)' =>
             /\ job'[v].reserved <= job'[v].quota
             /\ job'[v].quota + job'[v].before <= AgentQuota
             /\ quotaOf'[held'[v]] = job'[v].reserved
             /\ pc'[v] \in {"fork", "register", "read"} => ~job'[v].completed
             /\ ~job'[v].completed => calls'[held'[v]] = job'[v].before
             /\ job'[v].completed =>
                   /\ job'[v].before <= calls'[held'[v]]
                   /\ calls'[held'[v]] <= job'[v].before + job'[v].reserved
  BY <1>0, <1>1 DEF JobInv
<1>4. \A v \in Workers :
          HasChild(v)' =>
             /\ proc'[job'[v].pid].allow = job'[v].reserved
             /\ job'[v].completed =>
                   /\ proc'[job'[v].pid].status = "exited"
                   /\ calls'[held'[v]] = job'[v].before + proc'[job'[v].pid].used
  BY <1>0, <1>1, <1>2 DEF JobInv
<1>5. \A y \in Agents : (\A v \in Workers : InJob(v)' => held'[v] # y)
                           => quotaOf'[y] + calls'[y] <= AgentQuota
  BY <1>0, <1>1 DEF JobInv
<1> QED
  BY <1>3, <1>4, <1>5 DEF JobInv

CostInv == ProcDispatchInv /\ ResultInv /\ JobInv

\* Callers change neither the agents' calls nor the workers.
LEMMA CallerKeepsWorkers ==
    ASSUME \/ \E c \in Callers : Caller(c)
           \/ \E c \in Callers : ProcessCaller(c)
           \/ \E t \in Threads : CompleteWrite(t)
    PROVE  UNCHANGED <<pc, held, agentVars, spent>>
  BY DEF Caller, SpawnRegister, KillCollect, SpawnEnqueue, KillMark, KillDequeue,
     KillReap, KillReturn, ReapTerminal, TopupQuota, Shutdown, ShutdownReturn,
     ProcessCaller, KillLookup, KillStrike, KillSignalled, ShutdownSlay, CompleteWrite,
     loopVars

\* Every step of the system keeps the books.
LEMMA JobStep ==
    ASSUME CostInv, [Next]_vars
    PROVE  JobInv'
<1>0. /\ ProcInv /\ ChildInv /\ DispatchInv /\ ResultInv /\ JobInv
      /\ ProcTypeOK /\ spent \in Nat
      /\ pc \in [Workers -> PC] /\ held \in [Workers -> Agents \cup {NoAgent}]
  BY DEF CostInv, ProcDispatchInv, ProcInv, ApiInv, LoopTypeOK
<1>f. ASSUME UNCHANGED <<pc, held, calls, job, quotaOf>>,
             \A p \in OsPids :
                /\ proc'[p].allow = proc[p].allow
                /\ proc[p].status = "exited" =>
                      proc'[p].status = "exited" /\ proc'[p].used = proc[p].used
      PROVE  JobInv'
  BY <1>0, <1>f, JobFrame
<1>1. CASE \E w \in Workers : Supervisor(w)
  <2>1. PICK w \in Workers : Supervisor(w)
    BY <1>1
  <2>2. CASE (LoopStep(w) \/ Conclude(w, FALSE) \/ Finish(w)) /\ UNCHANGED procVars
    <3>1. \A v \in Workers : \/ pc'[v] = pc[v] /\ held'[v] = held[v]
                             \/ ~InJob(v) /\ ~InJob(v)'
      BY <1>0, <2>2 DEF LoopStep, Pick, Exit, Dispatch, ReceiveInput, Repark, Requeue,
         Conclude, Finish, Goto, At, InJob
    <3>2. UNCHANGED calls
      BY <2>2 DEF LoopStep, Pick, Exit, Dispatch, ReceiveInput, Repark, Requeue,
         Conclude, Finish, agentVars
    <3> QED
      BY <1>0, <2>2, <3>1, <3>2, JobFrame DEF procVars
  <2>3. CASE Start(w) \/ PutBack(w) \/ ConcludeLate(w) \/ Die(w) \/ Register(w)
    <3>1. /\ \A v \in Workers :
                \/ pc'[v] = pc[v]
                \/ ~InJob(v) /\ ~InJob(v)'
                \/ pc[v] = "register" /\ pc'[v] = "read"
          /\ UNCHANGED <<held, calls, job, quotaOf, proc>>
      BY <1>0, <2>3 DEF Start, PutBack, ConcludeLate, Die, Register, Goto, At, InJob,
         agentVars, procVars
    <3> QED
      BY <1>0, <3>1, JobFrame
  <2> QED
    BY <1>0, <2>1, <2>2, <2>3, JobAdmit, JobFork, JobRead, JobReap, JobEnd DEF Supervisor
<1>2. CASE \E p \in OsPids : Child(p)
  <2>1. PICK p \in OsPids : Child(p)
    BY <1>2
  <2>2. UNCHANGED <<pc, held, calls, job, quotaOf>>
    BY <2>1 DEF Child, ChildStep, ChildEnds, ChildExits, loopVars, agentVars
  <2>3. \A q \in OsPids :
           /\ proc'[q].allow = proc[q].allow
           /\ proc[q].status = "exited" =>
                 proc'[q].status = "exited" /\ proc'[q].used = proc[q].used
    BY <1>0, <2>1, ChildEffect
  <2> QED
    BY <1>f, <2>2, <2>3
<1>3. CASE \E c \in Callers : ProcessCaller(c)
  <2>1. UNCHANGED <<pc, held, calls, job, quotaOf>>
    BY <1>3 DEF ProcessCaller, KillLookup, KillStrike, KillSignalled, ShutdownSlay,
       loopVars, agentVars, procVars
  <2>2. UNCHANGED proc \/ \E S : Signal(S)
    BY <1>3 DEF ProcessCaller, KillLookup, KillStrike, KillSignalled, ShutdownSlay,
       procVars
  <2>3. \A q \in OsPids :
           /\ proc'[q].allow = proc[q].allow
           /\ proc[q].status = "exited" =>
                 proc'[q].status = "exited" /\ proc'[q].used = proc[q].used
    BY <1>0, <2>2, SignalProperties
  <2> QED
    BY <1>f, <2>1, <2>3
<1>4. CASE \/ \E c \in Callers : Caller(c) /\ UNCHANGED <<procVars, aim>>
           \/ \E t \in Threads : CompleteWrite(t) /\ UNCHANGED <<procVars, aim>>
           \/ UNCHANGED vars
  <2>1. UNCHANGED <<pc, held, agentVars, procVars>>
    BY <1>4, CallerKeepsWorkers DEF vars, loopVars
  <2> QED
    BY <1>f, <2>1 DEF procVars, agentVars
<1> QED
  BY <1>1, <1>2, <1>3, <1>4 DEF Next, ApiNext

\* The books are right when the kernel boots.
LEMMA CostInit == Init => CostInv
<1> SUFFICES ASSUME Init PROVE CostInv
  OBVIOUS
<1>1. ProcDispatchInv
  BY ProcDispatchInit
<1>2. ResultInv
  BY LoopAssumption DEF Init, ProcInit, ResultInv, NoProc, Finished
<1>3. JobInv
  BY LoopAssumption DEF Init, ProcInit, LoopInit, JobInv, InJob, HasChild
<1> QED
  BY <1>1, <1>2, <1>3 DEF CostInv

\* Hence they always are.
LEMMA CostStep == CostInv /\ [Next]_vars => CostInv'
  BY ProcDispatchStep, ResultStep, JobStep DEF CostInv, ProcDispatchInv

\* AgentWithinQuota holds in every reachable state of the process-backed
\* kernel: an agent makes no more LLM calls than its own quota allowed, over
\* all its dispatches and though its child counts on a copy of the PCB.
THEOREM ProcessQuotaPerAgent == Spec => []AgentWithinQuota
<1>1. CostInv => AgentWithinQuota
  <2> SUFFICES ASSUME CostInv, NEW x \in Agents PROVE calls[x] <= AgentQuota
    BY DEF AgentWithinQuota
  <2>0. /\ JobInv /\ job \in [Workers -> Job] /\ calls[x] \in Nat /\ quotaOf[x] \in Nat
        /\ AgentQuota \in Nat
    BY LoopAssumption DEF CostInv, ProcDispatchInv, ProcInv, ApiInv, ProcTypeOK,
       LoopTypeOK
  <2>1. CASE \A w \in Workers : InJob(w) => held[w] # x
    BY <2>0, <2>1 DEF JobInv
  <2>2. CASE \E w \in Workers : InJob(w) /\ held[w] = x
    <3>1. PICK w \in Workers : InJob(w) /\ held[w] = x
      BY <2>2
    <3>2. /\ job[w].reserved \in Nat /\ job[w].quota \in Nat /\ job[w].before \in Nat
      BY <2>0 DEF Job
    <3> QED
      BY <2>0, <3>1, <3>2 DEF JobInv
  <2> QED
    BY <2>1, <2>2
<1> QED
  BY <1>1, CostInit, CostStep, PTL DEF Spec

-----------------------------------------------------------------------------
(***************************************************************************)
(* The life of an agent                                                    *)
(***************************************************************************)
\* A child that stops at the cap of steps without an end would be reported
\* unfinished and dropped; the agent's quota or its bound on tool calls ends
\* it before that.
CapSuffices == AgentQuota < StepCap \/ MaxToolCalls < StepCap

\* A worker that has applied a result, or given up on one, holds a finished
\* agent.
Ended ==
    \A w \in Workers : pc[w] \in {"reap", "settle", "pipe"} => IsTerminal(held[w])

ProcLifeInv == CostInv /\ LifeInv /\ Ended /\ NoAgentLost

\* A whole result is an end of the agent.
LEMMA ReportIsEnd ==
    ASSUME CostInv, CapSuffices, NEW w \in Workers, HasChild(w),
           proc[job[w].pid].report = "full"
    PROVE  proc[job[w].pid].state \in TerminalStates
<1>1. /\ job[w].pid \in OsPids /\ job[w] \in Job /\ proc[job[w].pid] \in Proc
      /\ ResultInv /\ JobInv /\ InJob(w)
  BY DEF CostInv, ProcDispatchInv, ProcInv, Forked, HasChild, InJob, ProcTypeOK
<1>2. /\ proc[job[w].pid].used \in Nat /\ job[w].reserved \in Nat
      /\ job[w].quota \in Nat /\ job[w].before \in Nat
      /\ StepCap \in Nat /\ MaxToolCalls \in Nat /\ AgentQuota \in Nat
  BY <1>1, ProcessAssumption, LoopAssumption DEF Proc, Job
<1>3. /\ proc[job[w].pid].used <= job[w].reserved /\ job[w].reserved <= job[w].quota
      /\ job[w].quota + job[w].before <= AgentQuota
  BY <1>1 DEF ResultInv, JobInv
<1>4. /\ \/ proc[job[w].pid].state \in TerminalStates
         \/ proc[job[w].pid].used >= StepCap
      /\ \/ proc[job[w].pid].state \in TerminalStates
         \/ proc[job[w].pid].used <= MaxToolCalls
  BY <1>1 DEF ResultInv, Finished
<1> QED
  BY <1>2, <1>3, <1>4 DEF CapSuffices

\* A worker that has put its agent back neither takes it up nor loses it.
LEMMA LateConserves ==
    ASSUME LifeInv, NEW w \in Workers, pc[w] = "late",
           pc' = [pc EXCEPT ![w] = "finish"],
           UNCHANGED <<state, pending, queue, held, stop, apiVars>>
    PROVE  Conserves /\ Quiet' /\ Known' /\ Marked'
<1>0. pc \in [Workers -> PC] /\ UNCHANGED <<born, cpc, target>>
  BY DEF LifeInv, ApiInv, LoopTypeOK, apiVars, callerVars, tableVars
<1>1. Quiet' /\ Marked'
  BY <1>0 DEF LifeInv, Quiet, Settled, Marked, IsTerminal
<1>2. LegalStep
  BY DEF LegalStep
<1>3. \A a \in Agents : Queued(a)' <=> Queued(a)
  BY DEF Queued
<1>4. \A t \in Threads, a \in Agents : Holds(t, a)' <=> Holds(t, a)
  BY <1>0 DEF Holds, LetGo
<1>5. \A a \in Agents : Has(a)' <=> Has(a)
  BY <1>3, <1>4 DEF Has
<1>6. Abandoned' = Abandoned
  BY <1>0 DEF Abandoned
<1>7. Conserves
  BY <1>0, <1>2, <1>5, <1>6 DEF Conserves, LifeInv, ApiInv, ApiTypeOK
<1>8. Known'
  BY <1>0, <1>2, <1>3, KnownFrame
<1> QED
  BY <1>1, <1>7, <1>8

\* A worker that dies of a failed fork() abandons its agent, and no other.
LEMMA DieConserves ==
    ASSUME LifeInv, NEW w \in Workers, pc[w] = "crash",
           pc' = [pc EXCEPT ![w] = "exited"],
           UNCHANGED <<state, pending, queue, held, stop, apiVars>>
    PROVE  Conserves /\ Quiet' /\ Known' /\ Marked'
<1>0. pc \in [Workers -> PC] /\ UNCHANGED <<born, cpc, target>>
  BY DEF LifeInv, ApiInv, LoopTypeOK, apiVars, callerVars, tableVars
<1>1. Quiet' /\ Marked'
  BY <1>0 DEF LifeInv, Quiet, Settled, Marked, IsTerminal
<1>2. LegalStep
  BY DEF LegalStep
<1>3. \A a \in Agents : Queued(a)' <=> Queued(a)
  BY DEF Queued
<1>4. \A t \in Threads, a \in Agents :
         /\ Holds(t, a)' => Holds(t, a)
         /\ Holds(t, a) => Holds(t, a)' \/ a = held[w]
  BY <1>0 DEF Holds, LetGo
<1>5. Abandoned \subseteq Abandoned' /\ held[w] \in Abandoned'
  <2>1. \A v \in Workers : pc[v] = "exited" => pc'[v] = "exited"
    BY <1>0
  <2>2. pc'[w] = "exited"
    BY <1>0
  <2> QED
    BY <2>1, <2>2 DEF Abandoned
<1>6. \A a \in Agents : /\ Has(a)' => Has(a)
                        /\ Has(a) => Has(a)' \/ a \in Abandoned'
  BY <1>3, <1>4, <1>5 DEF Has
<1>7. Conserves
  BY <1>0, <1>2, <1>5, <1>6 DEF Conserves, LifeInv, ApiInv, ApiTypeOK
<1>8. Known'
  BY <1>0, <1>2, <1>3, KnownFrame
<1> QED
  BY <1>1, <1>7, <1>8

\* Every step of a worker conserves the agents, and reaches the end of a
\* dispatch with a finished one.
LEMMA SupervisorLife ==
    ASSUME ProcLifeInv, ~PreemptInTransition, CapSuffices, NEW w \in Workers,
           Supervisor(w), UNCHANGED apiVars
    PROVE  Conserves /\ Quiet' /\ Known' /\ Marked' /\ Ended'
<1>0. /\ LifeInv /\ PcbTypeOK /\ Known /\ CostInv /\ Ended
      /\ pc \in [Workers -> PC] /\ held \in [Workers -> Agents \cup {NoAgent}]
      /\ \A v \in Workers : pc[v] \notin {"idle", "exited"} => held[v] \in Agents
  BY DEF ProcLifeInv, LifeInv, ApiInv, LoopTypeOK, Grip
<1>e. ASSUME LegalStep, \A v \in Workers : v # w => pc'[v] = pc[v] /\ held'[v] = held[v],
             pc'[w] \in {"reap", "settle", "pipe"} => IsTerminal(held[w])' /\ held'[w] = held[w]
      PROVE  Ended'
  <2>1. ASSUME NEW v \in Workers, pc'[v] \in {"reap", "settle", "pipe"}
        PROVE  state'[held'[v]] \in TerminalStates
    <3>1. CASE v = w
      BY <1>e, <2>1, <3>1 DEF IsTerminal
    <3>2. CASE v # w
      <4>1. pc[v] \in {"reap", "settle", "pipe"} /\ held'[v] = held[v]
        BY <1>e, <2>1, <3>2
      <4>2. IsTerminal(held[v]) /\ held[v] \in Agents
        BY <1>0, <4>1 DEF Ended
      <4> QED
        BY <1>e, <4>1, <4>2, LegalKeeps DEF IsTerminal
    <3> QED
      BY <3>1, <3>2
  <2> QED
    BY <2>1 DEF Ended, IsTerminal
<1>1. CASE (LoopStep(w) \/ Conclude(w, FALSE) \/ Finish(w)) /\ UNCHANGED procVars
  <2>1. Conserves /\ Quiet' /\ Known' /\ Marked'
    <3>1. pc[w] = "pipe" => IsTerminal(held[w])
      BY <1>0 DEF Ended
    <3> QED
      BY <1>0, <1>1, <3>1, LoopConserves
  <2>2. /\ \A v \in Workers : v # w => pc'[v] = pc[v] /\ held'[v] = held[v]
        /\ pc'[w] \notin {"reap", "settle", "pipe"}
    BY <1>0, <1>1 DEF LoopStep, Pick, Exit, Dispatch, ReceiveInput, Repark, Requeue,
       Conclude, Finish, Goto, At
  <2> QED
    BY <1>e, <2>1, <2>2 DEF Conserves
<1>2. CASE PutBack(w)
  <2>1. /\ pc[w] = "denied" /\ pc' = [pc EXCEPT ![w] = "late"]
        /\ Put(w, held[w]) /\ UNCHANGED <<held, stop>>
    BY <1>2 DEF PutBack, At, Goto
  <2>2. Conserves /\ Quiet' /\ Known' /\ Marked'
    BY <1>0, <2>1, PutConserves DEF LetGo
  <2> QED
    BY <1>0, <1>e, <2>1, <2>2 DEF Conserves
<1>3. CASE ConcludeLate(w)
  <2>1. /\ pc[w] = "late" /\ pc' = [pc EXCEPT ![w] = "finish"]
        /\ UNCHANGED <<state, pending, queue, held, stop>>
    BY <1>3 DEF ConcludeLate, At, Goto, pcbVars, queueVars
  <2>2. Conserves /\ Quiet' /\ Known' /\ Marked'
    BY <1>0, <2>1, LateConserves
  <2> QED
    BY <1>0, <1>e, <2>1, <2>2 DEF Conserves
<1>4. CASE Die(w)
  <2>1. /\ pc[w] = "crash" /\ pc' = [pc EXCEPT ![w] = "exited"]
        /\ UNCHANGED <<state, pending, queue, held, stop>>
    BY <1>4 DEF Die, At, Goto, pcbVars, TaskDone
  <2>2. Conserves /\ Quiet' /\ Known' /\ Marked'
    BY <1>0, <2>1, DieConserves
  <2> QED
    BY <1>0, <1>e, <2>1, <2>2 DEF Conserves
<1>5. ASSUME NEW p \in PC \ (LetGo \cup {"idle", "exited"}), pc[w] \notin LetGo,
             pc' = [pc EXCEPT ![w] = p], UNCHANGED <<queue, pending, held, stop>>,
             LegalStep, p \in {"reap", "settle", "pipe"} => IsTerminal(held[w])'
      PROVE  Conserves /\ Quiet' /\ Known' /\ Marked' /\ Ended'
  BY <1>0, <1>5, <1>e, WorkerConserves
<1>q. UNCHANGED <<pcbVars, held>> => /\ LegalStep /\ UNCHANGED pending
                                     /\ IsTerminal(held[w]) => IsTerminal(held[w])'
  BY DEF pcbVars, LegalStep, IsTerminal
<1>p. {"reserve", "denied", "fork", "register", "crash", "read", "reap", "settle", "pipe"}
         \subseteq PC \ (LetGo \cup {"idle", "exited"})
  BY DEF PC, LetGo
<1>t. ASSUME pc[w] \notin LetGo, NEW s \in AgentState \ {"NEW"}, Transition(w, held[w], s),
             UNCHANGED held
      PROVE  /\ LegalStep /\ UNCHANGED pending
             /\ s \in TerminalStates => IsTerminal(held[w])'
  <2>1. held[w] \in Agents /\ state[held[w]] # "NEW"
    BY <1>0, <1>t DEF LetGo, Known
  <2> QED
    BY <1>0, <1>t, <2>1, TransitionLegal, TransitionAtomic DEF IsTerminal
<1>s. /\ {"RUNNING", "BLOCKED", "ERROR"} \subseteq AgentState \ {"NEW"}
      /\ TerminalStates \subseteq AgentState \ {"NEW"} /\ "ERROR" \in TerminalStates
  BY DEF AgentState, LiveStates, TerminalStates
<1>6. CASE Start(w)
  <2>1. /\ pc[w] = "slice" /\ pc[w] \notin LetGo /\ pc' = [pc EXCEPT ![w] = "reserve"]
        /\ UNCHANGED <<queue, held, stop>>
        /\ UNCHANGED pcbVars \/ Transition(w, held[w], "RUNNING")
    BY <1>6 DEF Start, At, Goto, LetGo, queueVars
  <2> QED
    BY <1>5, <1>p, <1>q, <1>s, <1>t, <2>1
<1>7. CASE Admit(w)
  <2>1. /\ pc[w] = "reserve" /\ pc[w] \notin LetGo
        /\ pc' = [pc EXCEPT ![w] = "denied"] \/ pc' = [pc EXCEPT ![w] = "fork"]
        /\ UNCHANGED <<queue, held, stop>>
        /\ UNCHANGED pcbVars \/ Transition(w, held[w], "BLOCKED")
    BY <1>7 DEF Admit, At, Goto, LetGo, queueVars
  <2> QED
    BY <1>5, <1>p, <1>q, <1>s, <1>t, <2>1
<1>8. CASE Fork(w) \/ ForkFails(w) \/ Register(w)
  <2>1. /\ pc[w] \notin LetGo /\ UNCHANGED <<queue, held, stop, pcbVars>>
        /\ \/ pc' = [pc EXCEPT ![w] = "register"] \/ pc' = [pc EXCEPT ![w] = "crash"]
           \/ pc' = [pc EXCEPT ![w] = "read"]
    BY <1>8 DEF Fork, ForkFails, Register, At, Goto, LetGo, queueVars
  <2> QED
    BY <1>5, <1>p, <1>q, <2>1
<1>9. CASE Reap(w) \/ Settle(w)
  <2>1. /\ pc[w] \notin LetGo /\ pc[w] \in {"reap", "settle"}
        /\ UNCHANGED <<queue, held, stop, pcbVars>>
        /\ pc' = [pc EXCEPT ![w] = "settle"] \/ pc' = [pc EXCEPT ![w] = "pipe"]
    BY <1>9 DEF Reap, Settle, At, Goto, LetGo, queueVars
  <2>2. IsTerminal(held[w])
    BY <1>0, <2>1 DEF Ended
  <2> QED
    BY <1>5, <1>p, <1>q, <2>1, <2>2
<1>10. CASE ReadResult(w)
  <2>1. /\ pc[w] = "read" /\ pc[w] \notin LetGo /\ HasChild(w)
        /\ pc' = [pc EXCEPT ![w] = "reap"] /\ UNCHANGED <<queue, held, stop>>
        /\ \/ Transition(w, held[w], "ERROR")
           \/ /\ proc[job[w].pid].report = "full"
              /\ Transition(w, held[w], proc[job[w].pid].state)
    BY <1>10 DEF ReadResult, At, Goto, LetGo, HasChild, queueVars
  <2>2. PICK s \in TerminalStates : Transition(w, held[w], s)
    BY <1>0, <1>s, <2>1, ReportIsEnd
  <2>3. LegalStep /\ UNCHANGED pending /\ IsTerminal(held[w])'
    BY <1>s, <1>t, <2>1, <2>2
  <2> QED
    BY <1>5, <1>p, <2>1, <2>3
<1> QED
  BY <1>1, <1>2, <1>3, <1>4, <1>6, <1>7, <1>8, <1>9, <1>10 DEF Supervisor

\* kill() and shutdown() among the processes conserve the agents.
LEMMA ProcessCallerLife ==
    ASSUME LifeInv, NEW c \in Callers, ProcessCaller(c)
    PROVE  Conserves /\ Quiet' /\ Known' /\ Marked'
<1>1. /\ UNCHANGED <<state, pending, queue, pc, held, stop, born, target>>
      /\ \E p \in {"signal", "strike", "pop", "join"} : cpc' = [cpc EXCEPT ![c] = p]
      /\ cpc[c] \in {"signal", "strike"} \/ cpc' = [cpc EXCEPT ![c] = "join"]
      /\ cpc[c] # "spawn"
  <2>1. cpc \in [Callers -> {"free", "spawn", "kill", "signal", "strike", "pop",
                             "reap", "slay", "join"}]
    BY DEF LifeInv, ApiInv, ApiTypeOK
  <2>2. /\ UNCHANGED <<state, pending, queue, pc, held, stop, born, target>>
        /\ cpc[c] \in {"signal", "strike"} \/ cpc' = [cpc EXCEPT ![c] = "join"]
        /\ cpc[c] # "spawn"
    BY DEF ProcessCaller, KillLookup, KillStrike, KillSignalled, ShutdownSlay, CallerAt,
       CallerGoto, pcbVars, queueVars, loopVars, tableVars
  <2>3. cpc' = cpc /\ cpc[c] = "signal" => cpc' = [cpc EXCEPT ![c] = "signal"]
    BY <2>1
  <2>4. \/ cpc' = cpc /\ cpc[c] = "signal"
        \/ \E p \in {"signal", "strike", "pop", "join"} : cpc' = [cpc EXCEPT ![c] = p]
    BY DEF ProcessCaller, KillLookup, KillStrike, KillSignalled, ShutdownSlay, CallerAt,
       CallerGoto
  <2> QED
    BY <2>2, <2>3, <2>4
<1>2. PICK p \in {"signal", "strike", "pop", "join"} : cpc' = [cpc EXCEPT ![c] = p]
  BY <1>1
<1>3. target' = [target EXCEPT ![c] = target[c]]
  BY <1>1 DEF LifeInv, ApiInv, ApiTypeOK
<1>4. p \in {"signal", "strike", "pop", "reap"} =>
         target[c] \in Agents /\ state'[target[c]] \in TerminalStates
  <2>1. p # "join" => cpc[c] \in {"signal", "strike"}
    <3>1. cpc'[c] = p
      BY <1>2 DEF LifeInv, ApiInv, ApiTypeOK
    <3> QED
      BY <1>1, <3>1 DEF LifeInv, ApiInv, ApiTypeOK
  <2>2. cpc[c] \in {"signal", "strike"} =>
           target[c] \in Agents /\ state[target[c]] \in TerminalStates
    BY DEF LifeInv, ApiInv, Grip, Marked, IsTerminal
  <2> QED
    BY <1>1, <2>1, <2>2
<1>5. LegalStep /\ \A b \in Agents : Queued(b)' <=> Queued(b)
  BY <1>1 DEF LegalStep, Queued
<1> QED
  BY <1>1, <1>2, <1>3, <1>4, <1>5, CallerFrameConserves DEF IsTerminal

\* The inductive step: every step of the system conserves the agents.
LEMMA ProcLifeStep ==
    ASSUME ProcLifeInv, ~PreemptInTransition, CapSuffices, [Next]_vars
    PROVE  ProcLifeInv' /\ LegalStep
<1>0. CostInv /\ LifeInv /\ Ended /\ NoAgentLost /\ Quiet /\ Known /\ Marked
  BY DEF ProcLifeInv, LifeInv
<1>1. CostInv' /\ ApiInv'
  BY <1>0, CostStep DEF CostInv, ProcDispatchInv, ProcInv
<1>e. LegalStep /\ UNCHANGED <<pc, held>> => Ended'
  BY <1>0, LegalKeeps DEF LifeInv, ApiInv, Grip, Ended, IsTerminal
<1>2. CASE Conserves /\ Quiet' /\ Known' /\ Marked' /\ Ended'
  <2>1. born' \subseteq Agents /\ LegalStep
    BY <1>1, <1>2 DEF ApiInv, ApiTypeOK, Conserves
  <2>2. NoAgentLost'
    BY <1>0, <1>2, <2>1, ConservedNotLost DEF LifeInv
  <2> QED
    BY <1>1, <1>2, <2>1, <2>2 DEF ProcLifeInv, LifeInv
<1>3. CASE \E w \in Workers : Supervisor(w) /\ UNCHANGED <<apiVars, aim>>
  BY <1>2, <1>3, SupervisorLife
<1>4. CASE \E c \in Callers : Caller(c) /\ UNCHANGED <<procVars, aim>>
  <2>1. Conserves /\ Quiet' /\ Known' /\ Marked'
    BY <1>0, <1>4, CallerConserves
  <2>2. UNCHANGED <<pc, held>>
    BY <1>4, CallerKeepsWorkers
  <2> QED
    BY <1>2, <1>e, <2>1, <2>2 DEF Conserves
<1>5. CASE \E c \in Callers : ProcessCaller(c)
  <2>1. Conserves /\ Quiet' /\ Known' /\ Marked'
    BY <1>0, <1>5, ProcessCallerLife
  <2>2. UNCHANGED <<pc, held>>
    BY <1>5, CallerKeepsWorkers
  <2> QED
    BY <1>2, <1>e, <2>1, <2>2 DEF Conserves
<1>6. CASE \E t \in Threads : CompleteWrite(t)
  BY <1>0, <1>6, QuietNoWrite
<1>7. CASE \/ \E p \in OsPids : Child(p) /\ UNCHANGED <<apiVars, aim>>
           \/ UNCHANGED vars
  <2>1. UNCHANGED <<pcbVars, queue, pc, held, stop, apiVars>>
    BY <1>7 DEF Child, ChildStep, ChildEnds, ChildExits, loopVars, queueVars, vars
  <2>2. LegalStep /\ Quiet' /\ Known' /\ Marked' /\ NoAgentLost'
    BY <1>0, <2>1 DEF pcbVars, apiVars, callerVars, tableVars, LegalStep, Quiet, Settled,
       Known, Marked, NoAgentLost, Abandoned, IsTerminal, Queued, Holds
  <2> QED
    BY <1>1, <1>e, <2>1, <2>2 DEF ProcLifeInv, LifeInv
<1> QED
  BY <1>3, <1>4, <1>5, <1>6, <1>7 DEF Next, ApiNext

\* The inductive invariant of the life of agents.
LEMMA ProcLifeCorrect ==
    ASSUME ~PreemptInTransition, CapSuffices
    PROVE  Spec => []ProcLifeInv
<1>1. Init => ProcLifeInv
  <2> SUFFICES ASSUME Init PROVE ProcLifeInv
    OBVIOUS
  <2>1. Ended
    BY DEF Init, LoopInit, Ended
  <2>2. ApiInv
    BY ProcTypeInit DEF ProcInv
  <2> QED
    BY <2>1, <2>2, CostInit, LifeInit DEF Init, ProcLifeInv, LifeInv
<1>2. ProcLifeInv /\ [Next]_vars => ProcLifeInv'
  BY ProcLifeStep
<1> QED
  BY <1>1, <1>2, PTL DEF Spec

\* NoAgentLost holds in every reachable state of the process-backed kernel
\* whose step cap is not reached: an unfinished agent is on the queue or in
\* some thread's hands, through kills, corrupt results, put-backs for want of
\* quota and failed forks, which lose the one agent their worker had.
THEOREM ProcessNothingForgotten ==
    ASSUME ~PreemptInTransition, CapSuffices
    PROVE  Spec => []NoAgentLost
<1>1. ProcLifeInv => NoAgentLost
  BY DEF ProcLifeInv
<1> QED
  BY <1>1, ProcLifeCorrect, PTL

\* SlainAreDead holds in every reachable state of the process-backed kernel:
\* when kill() has returned, a child that reports after its agent was killed
\* revives nobody, and neither does a worker that puts an agent back.
THEOREM ProcessKillReachesAll ==
    ASSUME ~PreemptInTransition, CapSuffices, NoReapAmidKill
    PROVE  Spec => []SlainAreDead
<1>1. Init => SlainInv
  BY SlainInit DEF Init
<1>2. ProcLifeInv /\ SlainInv /\ [Next]_vars => SlainInv'
  <2> SUFFICES ASSUME ProcLifeInv, SlainInv, [Next]_vars PROVE SlainInv'
    OBVIOUS
  <2>1. LegalStep /\ LifeInv /\ Quiet
    BY ProcLifeStep DEF ProcLifeInv, LifeInv
  <2>2. CASE UNCHANGED apiVars
    BY <2>1, <2>2, SlainFrame
  <2>3. CASE \E c \in Callers : Caller(c)
    BY <2>1, <2>3, CallerSlain
  <2>4. CASE \E c \in Callers : ProcessCaller(c)
    <3>1. PICK c \in Callers : ProcessCaller(c)
      BY <2>4
    <3>2. /\ UNCHANGED <<target, victims, tableVars, slain>>
          /\ cpc[c] \in {"signal", "strike", "slay"}
          /\ cpc' = cpc \/ \E p \in {"signal", "strike", "pop", "join"} :
                              cpc' = [cpc EXCEPT ![c] = p]
          /\ cpc[c] = "slay" => cpc' = [cpc EXCEPT ![c] = "join"]
          /\ todo' = todo \/ \E S : todo' = [todo EXCEPT ![c] = S]
      BY <3>1 DEF ProcessCaller, KillLookup, KillStrike, KillSignalled, ShutdownSlay,
         CallerAt, CallerGoto
    <3>3. /\ \A e \in Callers : e # c => cpc'[e] = cpc[e] /\ todo'[e] = todo[e]
          /\ cpc'[c] # "reap"
          /\ cpc'[c] \in {"kill", "signal", "strike", "pop"} =>
                cpc[c] \in {"kill", "signal", "strike", "pop"}
      BY <2>1, <3>2 DEF LifeInv, ApiInv, ApiTypeOK
    <3> QED
      BY <2>1, <3>2, <3>3, SlainCallerFrame DEF tableVars
  <2>5. CASE \E t \in Threads : CompleteWrite(t)
    BY <2>1, <2>5, QuietNoWrite
  <2> QED
    BY <2>2, <2>3, <2>4, <2>5 DEF Next, ApiNext, vars
<1>3. SlainInv => SlainAreDead
  BY DEF SlainInv
<1> QED
  BY <1>1, <1>2, <1>3, ProcLifeCorrect, PTL DEF Spec

\* Agents of the process-backed kernel change state along the documented edges
\* only, and never again once they are finished, whatever a child reports.
THEOREM ProcessLegalEdgesOnly ==
    ASSUME ~PreemptInTransition, CapSuffices
    PROVE  Spec => OnlyLegalTransitions
<1>1. ProcLifeInv /\ [Next]_vars
        => [\A a \in Agents :
               state'[a] # state[a] => state'[a] \in LegalTransitions(state[a])]_pcbVars
  BY ProcLifeStep DEF LegalStep
<1> QED
  BY <1>1, ProcLifeCorrect, PTL DEF Spec, OnlyLegalTransitions

-----------------------------------------------------------------------------
(***************************************************************************)
(* The OS budget                                                           *)
(***************************************************************************)
\* What w has reserved and neither seen spent nor charged for good.
Due ==
    [w \in Workers |->
        IF pc[w] = "fork" THEN job[w].reserved
        ELSE IF HasChild(w) THEN Less(job[w].reserved, proc[job[w].pid].used)
        ELSE IF pc[w] = "settle" /\ job[w].completed
          THEN Less(job[w].reserved, Less(calls[held[w]], job[w].before))
        ELSE 0]

BudgetInv == spent + Cardinality(Units(Due)) + remaining <= total

\* Bounded numbers of units make finitely many, and more units make more.
LEMMA UnitsFinite ==
    ASSUME NEW n \in Nat, NEW f \in [Workers -> 0 .. n]
    PROVE  /\ IsFiniteSet(Units(f)) /\ Cardinality(Units(f)) \in Nat
           /\ \A g : (\A w \in Workers : g[w] \in 0 .. f[w]) =>
                /\ IsFiniteSet(Units(g))
                /\ Cardinality(Units(g)) <= Cardinality(Units(f))
<1>1. IsFiniteSet(Workers \X (1 .. n))
  <2>1. 1 \in Int /\ n \in Int
    OBVIOUS
  <2>2. IsFiniteSet(1 .. n)
    BY <2>1, FS_Interval, Zenon
  <2> QED
    BY <2>2, ApiAssumption, FS_Product
<1>2. Units(f) \subseteq Workers \X (1 .. n)
  BY DEF Units
<1>3. IsFiniteSet(Units(f)) /\ Cardinality(Units(f)) \in Nat
  BY <1>1, <1>2, FS_Subset, FS_CardinalityType
<1>4. ASSUME NEW g, \A w \in Workers : g[w] \in 0 .. f[w]
      PROVE  Units(g) \subseteq Units(f)
  <2>1. \A w \in Workers : (1 .. g[w]) \subseteq (1 .. f[w])
    BY <1>4
  <2> QED
    BY <2>1 DEF Units
<1> QED
  BY <1>3, <1>4, FS_Subset

\* Changing what one worker has changes the number of units by as much.
LEMMA UnitsChange ==
    ASSUME NEW n \in Nat, NEW f \in [Workers -> 0 .. n], NEW g \in [Workers -> 0 .. n],
           NEW w \in Workers, \A v \in Workers : v # w => g[v] = f[v]
    PROVE  Cardinality(Units(g)) + f[w] = Cardinality(Units(f)) + g[w]
<1> DEFINE rest == UNION {{v} \X (1 .. f[v]) : v \in Workers \ {w}}
<1>1. IsFiniteSet(Units(f)) /\ IsFiniteSet(Units(g))
  BY UnitsFinite
<1>2. rest \subseteq Units(f)
  BY DEF Units
<1>3. IsFiniteSet(rest) /\ Cardinality(rest) \in Nat
  BY <1>1, <1>2, FS_Subset, FS_CardinalityType
<1>4. ASSUME NEW m \in 0 .. n
      PROVE  /\ IsFiniteSet({w} \X (1 .. m)) /\ Cardinality({w} \X (1 .. m)) = m
             /\ Cardinality(rest \cup ({w} \X (1 .. m))) = Cardinality(rest) + m
  <2>1. IsFiniteSet(1 .. m) /\ Cardinality(1 .. m) = m
    <3>1. 1 \in Int /\ m \in Int
      OBVIOUS
    <3>2. IsFiniteSet(1 .. m) /\ Cardinality(1 .. m) = IF 1 > m THEN 0 ELSE m - 1 + 1
      BY <3>1, FS_Interval, Zenon
    <3> QED
      BY <3>2
  <2>2. IsFiniteSet({w}) /\ Cardinality({w}) = 1
    BY FS_Singleton
  <2>3. IsFiniteSet({w} \X (1 .. m)) /\ Cardinality({w} \X (1 .. m)) = m
    <3>1. Cardinality({w} \X (1 .. m)) = Cardinality({w}) * Cardinality(1 .. m)
      BY <2>1, <2>2, FS_Product
    <3> QED
      BY <2>1, <2>2, <3>1, FS_Product
  <2>4. rest \cap ({w} \X (1 .. m)) = {}
    OBVIOUS
  <2> HIDE DEF rest
  <2>5. Cardinality(rest \cup ({w} \X (1 .. m)))
           = Cardinality(rest) + Cardinality({w} \X (1 .. m))
             - Cardinality(rest \cap ({w} \X (1 .. m)))
    BY <1>3, <2>3, FS_Union
  <2>6. Cardinality(rest \cap ({w} \X (1 .. m))) = 0
    BY <2>4, FS_EmptySet
  <2> QED
    BY <1>3, <2>3, <2>5, <2>6
<1>5. Units(f) = rest \cup ({w} \X (1 .. f[w]))
  BY DEF Units
<1>6. Units(g) = rest \cup ({w} \X (1 .. g[w]))
  BY DEF Units
<1> HIDE DEF rest
<1>7. f[w] \in 0 .. n /\ g[w] \in 0 .. n
  OBVIOUS
<1>8. Cardinality(Units(f)) = Cardinality(rest) + f[w]
  BY <1>4, <1>5, <1>7, Zenon
<1>9. Cardinality(Units(g)) = Cardinality(rest) + g[w]
  BY <1>4, <1>6, <1>7, Zenon
<1> QED
  BY <1>3, <1>7, <1>8, <1>9

\* No worker has more due than an agent's quota.
LEMMA DueType == CostInv => Due \in [Workers -> 0 .. AgentQuota]
<1> SUFFICES ASSUME CostInv, NEW w \in Workers PROVE Due[w] \in 0 .. AgentQuota
  BY DEF Due
<1>0. /\ job[w] \in Job /\ AgentQuota \in Nat
      /\ HasChild(w) => proc[job[w].pid] \in Proc
      /\ pc[w] = "settle" => calls[held[w]] \in Nat
  BY LoopAssumption DEF CostInv, ProcDispatchInv, ProcInv, ProcTypeOK, Forked, HasChild,
     ApiInv, Grip, LoopTypeOK
<1>1. /\ job[w].reserved \in Nat /\ job[w].quota \in Nat /\ job[w].before \in Nat
      /\ HasChild(w) => proc[job[w].pid].used \in Nat
  BY <1>0 DEF Job, Proc
<1>2. \A q, k \in Nat : Less(q, k) \in Nat /\ Less(q, k) \in 0 .. q
  BY DEF Less
<1>3. CASE InJob(w)
  <2>1. job[w].reserved <= AgentQuota
    BY <1>0, <1>1, <1>3 DEF CostInv, JobInv
  <2>2. Due[w] \in 0 .. job[w].reserved
    <3>1. CASE pc[w] = "fork"
      BY <1>1, <3>1 DEF Due
    <3>2. CASE HasChild(w)
      <4>1. Less(job[w].reserved, proc[job[w].pid].used) \in 0 .. job[w].reserved
        BY <1>1, <1>2, <3>2
      <4> QED
        BY <3>2, <4>1 DEF Due, HasChild
    <3>3. CASE pc[w] = "settle"
      <4>1. Less(calls[held[w]], job[w].before) \in Nat
        BY <1>0, <1>1, <1>2, <3>3
      <4>2. Less(job[w].reserved, Less(calls[held[w]], job[w].before))
               \in 0 .. job[w].reserved
        BY <1>1, <1>2, <4>1
      <4> QED
        BY <1>1, <3>3, <4>2 DEF Due, HasChild
    <3> QED
      BY <1>3, <3>1, <3>2, <3>3 DEF InJob, HasChild
  <2> QED
    BY <1>0, <1>1, <2>1, <2>2
<1>4. CASE ~InJob(w)
  <2>1. Due[w] = 0
    BY <1>4 DEF Due, InJob, HasChild
  <2> QED
    BY <1>0, <2>1
<1> QED
  BY <1>3, <1>4

\* A step keeps the balance when what one worker has due, the calls made and
\* the remainder grow together no faster than the ceiling.
LEMMA BudgetMove ==
    ASSUME CostInv, CostInv', BudgetInv, NEW w \in Workers,
           \A v \in Workers : v # w => Due'[v] = Due[v],
           spent' + Due'[w] + remaining' + total <= spent + Due[w] + remaining + total'
    PROVE  BudgetInv'
<1>1. /\ Due \in [Workers -> 0 .. AgentQuota] /\ AgentQuota \in Nat
      /\ Due' \in [Workers -> 0 .. AgentQuota]
  <2>1. (Due \in [Workers -> 0 .. AgentQuota])'
    BY DueType, PTL
  <2> QED
    BY <2>1, DueType, LoopAssumption
<1>2. /\ spent \in Nat /\ remaining \in Nat /\ total \in Nat
      /\ spent' \in Nat /\ remaining' \in Nat /\ total' \in Nat
  BY DEF CostInv, ProcDispatchInv, ProcInv, ApiInv, LoopTypeOK, QuotaTypeOK
<1> DEFINE f == Due
           g == Due'
<1>3. /\ f \in [Workers -> 0 .. AgentQuota] /\ g \in [Workers -> 0 .. AgentQuota]
      /\ \A v \in Workers : v # w => g[v] = f[v]
      /\ spent' + g[w] + remaining' + total <= spent + f[w] + remaining + total'
      /\ spent + Cardinality(Units(f)) + remaining <= total
      /\ BudgetInv' <=> spent' + Cardinality(Units(g)) + remaining' <= total'
  BY <1>1 DEF BudgetInv, Units
<1> HIDE DEF f, g
<1>4. Cardinality(Units(f)) \in Nat /\ Cardinality(Units(g)) \in Nat
  BY <1>1, <1>3, UnitsFinite
<1>5. Cardinality(Units(g)) + f[w] = Cardinality(Units(f)) + g[w]
  BY <1>1, <1>3, UnitsChange
<1>6. f[w] \in Nat /\ g[w] \in Nat
  BY <1>1, <1>3
<1> QED
  BY <1>2, <1>3, <1>4, <1>5, <1>6

\* So it does when nothing is due but what was.
LEMMA BudgetSame ==
    ASSUME CostInv, CostInv', BudgetInv, \A v \in Workers : Due'[v] = Due[v],
           UNCHANGED spent, remaining' + total = remaining + total'
    PROVE  BudgetInv'
<1>1. Due' = Due
  <2>1. (Due \in [Workers -> 0 .. AgentQuota])'
    BY DueType, PTL
  <2> QED
    BY <2>1, DueType
<1>2. /\ spent \in Nat /\ remaining \in Nat /\ total \in Nat
      /\ remaining' \in Nat /\ total' \in Nat
      /\ Cardinality(Units(Due)) \in Nat
  BY DueType, UnitsFinite, LoopAssumption
  DEF CostInv, ProcDispatchInv, ProcInv, ApiInv, LoopTypeOK, QuotaTypeOK
<1>3. Cardinality(Units(Due))' = Cardinality(Units(Due))
  BY <1>1 DEF Units
<1> QED
  BY <1>2, <1>3 DEF BudgetInv

\* A worker outside its job, before it and after, changes nothing that is due.
LEMMA DueFrame ==
    ASSUME CostInv, NEW v \in Workers,
           \/ /\ pc'[v] = pc[v] /\ held'[v] = held[v] /\ job'[v] = job[v]
              /\ pc[v] = "settle" => calls'[held[v]] = calls[held[v]]
              /\ HasChild(v) => proc'[job[v].pid].used = proc[job[v].pid].used
           \/ ~InJob(v) /\ ~InJob(v)'
    PROVE  Due'[v] = Due[v]
<1>1. CASE ~InJob(v) /\ ~InJob(v)'
  <2>1. Due[v] = 0
    BY <1>1 DEF Due, InJob, HasChild
  <2>2. Due'[v] = 0
    BY <1>1 DEF Due, InJob, HasChild
  <2> QED
    BY <2>1, <2>2
<1>2. CASE /\ pc'[v] = pc[v] /\ held'[v] = held[v] /\ job'[v] = job[v]
           /\ pc[v] = "settle" => calls'[held[v]] = calls[held[v]]
           /\ HasChild(v) => proc'[job[v].pid].used = proc[job[v].pid].used
  BY <1>2 DEF Due, HasChild, Less
<1> QED
  BY <1>1, <1>2

\* Every step of a worker keeps the balance.
LEMMA SupervisorBudget ==
    ASSUME CostInv, CostInv', BudgetInv, NEW w \in Workers, Supervisor(w)
    PROVE  BudgetInv'
<1>0. /\ pc \in [Workers -> PC] /\ held \in [Workers -> Agents \cup {NoAgent}]
      /\ job \in [Workers -> Job] /\ job[w] \in Job /\ proc \in [OsPids -> Proc]
      /\ calls \in [Agents -> Nat] /\ spent \in Nat
      /\ remaining \in Nat /\ total \in Nat /\ remaining <= total
      /\ HasChild(w) => job[w].pid \in OsPids
      /\ \A v \in Workers : InJob(v) => held[v] \in Agents
      /\ pc[w] \notin {"idle", "exited"} => held[w] \in Agents
      /\ DispatchInv /\ JobInv /\ ChildInv
  BY DEF CostInv, ProcDispatchInv, ProcInv, ProcTypeOK, Forked, HasChild, InJob,
     ApiInv, Grip, LoopTypeOK, QuotaTypeOK
<1>j. /\ job[w].reserved \in Nat /\ job[w].quota \in Nat /\ job[w].before \in Nat
      /\ \A q, k \in Nat : Less(q, k) \in Nat
  BY <1>0 DEF Job, Less
<1>d. /\ Due[w] \in Nat /\ Due'[w] \in Nat
      /\ InJob(w) => calls[held[w]] \in Nat
  <2>1. Due \in [Workers -> 0 .. AgentQuota] /\ AgentQuota \in Nat
    BY DueType, LoopAssumption
  <2>2. (Due \in [Workers -> 0 .. AgentQuota])'
    BY DueType, PTL
  <2> QED
    BY <1>0, <2>1, <2>2
<1>n. ~InJob(w) => Due[w] = 0
  BY DEF Due, InJob, HasChild
<1>n2. ~InJob(w)' => Due'[w] = 0
  BY DEF Due, InJob, HasChild
<1>1. CASE (LoopStep(w) \/ Conclude(w, FALSE) \/ Finish(w)) /\ UNCHANGED procVars
  <2>1. \A v \in Workers : \/ pc'[v] = pc[v] /\ held'[v] = held[v]
                           \/ ~InJob(v) /\ ~InJob(v)'
    BY <1>0, <1>1 DEF LoopStep, Pick, Exit, Dispatch, ReceiveInput, Repark, Requeue,
       Conclude, Finish, Goto, At, InJob
  <2>2. UNCHANGED <<calls, spent, quotaVars, job, proc>>
    BY <1>1 DEF LoopStep, Pick, Exit, Dispatch, ReceiveInput, Repark, Requeue,
       Conclude, Finish, agentVars, procVars
  <2>3. \A v \in Workers : Due'[v] = Due[v]
    BY <2>1, <2>2, DueFrame
  <2> QED
    BY <2>2, <2>3, BudgetSame DEF quotaVars
<1>m. ASSUME \A v \in Workers : v # w => pc'[v] = pc[v] /\ job'[v] = job[v],
             UNCHANGED <<held, spent>>,
             \A v \in Workers : v # w /\ HasChild(v) =>
                 proc'[job[v].pid].used = proc[job[v].pid].used,
             \A x \in Agents : x # held[w] => calls'[x] = calls[x],
             pc[w] \notin LetGo \/ calls' = calls,
             Due'[w] + remaining' + total <= Due[w] + remaining + total'
      PROVE  BudgetInv'
  <2>1. \A v \in Workers : v # w => Due'[v] = Due[v]
    <3> SUFFICES ASSUME NEW v \in Workers, v # w PROVE Due'[v] = Due[v]
      OBVIOUS
    <3>1. InJob(v) /\ pc[w] \notin LetGo => held[v] # held[w]
      <4>1. pc[w] \notin LetGo => held[w] \in Agents
        BY <1>0 DEF LetGo
      <4> QED
        BY <1>0, <4>1, JobAlone
    <3>2. pc[v] = "settle" => calls'[held[v]] = calls[held[v]]
      BY <1>0, <1>m, <3>1 DEF InJob
    <3> QED
      BY <1>m, <3>2, DueFrame
  <2>2. remaining' \in Nat /\ total' \in Nat
    BY DEF CostInv, ProcDispatchInv, ProcInv, ApiInv, QuotaTypeOK
  <2>3. spent' + Due'[w] + remaining' + total <= spent + Due[w] + remaining + total'
    BY <1>0, <1>d, <1>m, <2>2
  <2> QED
    BY <1>m, <2>1, <2>3, BudgetMove
<1>2. CASE Start(w) \/ PutBack(w) \/ ConcludeLate(w) \/ ForkFails(w) \/ Die(w)
  <2>1. /\ \A v \in Workers : v # w => pc'[v] = pc[v]
        /\ UNCHANGED <<held, spent, job, proc, calls, quotaVars>>
        /\ ~InJob(w)'
    BY <1>0, <1>2 DEF Start, PutBack, ConcludeLate, ForkFails, Die, Goto, agentVars,
       procVars, InJob
  <2>2. Due'[w] = 0
    BY <1>n2, <2>1
  <2> QED
    BY <1>0, <1>d, <1>m, <2>1, <2>2 DEF quotaVars
<1>3. CASE Admit(w)
  <2>1. /\ \A v \in Workers : v # w => pc'[v] = pc[v] /\ job'[v] = job[v]
        /\ UNCHANGED <<held, spent, proc, calls>> /\ ~InJob(w)
    BY <1>0, <1>3 DEF Admit, Goto, At, agentVars, InJob
  <2>2. CASE Goto(w, "denied") /\ UNCHANGED quotaVars
    <3>1. ~InJob(w)'
      BY <1>0, <2>2 DEF Goto, InJob
    <3> QED
      BY <1>0, <1>m, <1>n, <1>n2, <2>1, <2>2, <3>1 DEF quotaVars
  <2>3. CASE /\ AcquireUpTo(quotaOf[held[w]])
             /\ job' = [job EXCEPT ![w] = [quota |-> quotaOf[held[w]],
                           reserved |-> Grant(quotaOf[held[w]]),
                           before |-> calls[held[w]], pid |-> NoPid, completed |-> FALSE]]
             /\ Goto(w, "fork")
    <3>1. pc'[w] = "fork" /\ job'[w].reserved = Grant(quotaOf[held[w]])
      BY <1>0, <2>3 DEF Goto
    <3>2. Due'[w] = Grant(quotaOf[held[w]])
      BY <3>1 DEF Due
    <3>3. remaining' = remaining - Grant(quotaOf[held[w]]) /\ total' = total
      BY <2>3 DEF AcquireUpTo
    <3>4. Due'[w] + remaining' + total <= Due[w] + remaining + total'
      BY <1>0, <1>d, <1>n, <2>1, <3>2, <3>3
    <3> QED
      BY <1>m, <2>1, <3>4
  <2> QED
    BY <1>3, <2>2, <2>3 DEF Admit
<1>4. CASE Fork(w)
  <2>1. PICK p \in OsPids :
           /\ proc[p].status = "free"
           /\ proc' = [proc EXCEPT ![p] =
                [status |-> "running", agent |-> held[w], state |-> state[held[w]],
                 used |-> 0, allow |-> job[w].reserved, ends |-> OpenPipes,
                 report |-> "cut"]]
           /\ job' = [job EXCEPT ![w].pid = p]
    BY <1>4 DEF Fork
  <2>2. /\ pc' = [pc EXCEPT ![w] = "register"] /\ pc[w] = "fork"
        /\ UNCHANGED <<held, spent, calls, quotaVars>>
    BY <1>4 DEF Fork, At, Goto, agentVars
  <2>3. /\ job'[w].pid = p /\ job'[w].reserved = job[w].reserved /\ pc'[w] = "register"
        /\ \A v \in Workers : v # w => job'[v] = job[v] /\ pc'[v] = pc[v]
        /\ proc'[p].used = 0 /\ \A q \in OsPids : q # p => proc'[q] = proc[q]
    BY <1>0, <2>1, <2>2 DEF Job
  <2>4. \A v \in Workers : HasChild(v) => proc'[job[v].pid] = proc[job[v].pid]
    BY <1>0, <2>1, <2>3 DEF ChildInv, CostInv, ProcDispatchInv, ProcInv, Forked, HasChild
  <2>5. Due[w] = job[w].reserved
    BY <2>2 DEF Due
  <2>6. Due'[w] = Less(job'[w].reserved, proc'[job'[w].pid].used)
    BY <2>3 DEF Due, HasChild, Less
  <2>7. Due'[w] = Due[w]
    BY <1>j, <2>3, <2>5, <2>6 DEF Less
  <2> QED
    BY <1>0, <1>d, <1>m, <2>2, <2>3, <2>4, <2>7 DEF quotaVars
<1>5. CASE Register(w)
  <2>1. /\ \A v \in Workers : v # w => pc'[v] = pc[v]
        /\ UNCHANGED <<held, spent, job, proc, calls, quotaVars>>
        /\ pc[w] = "register" /\ pc'[w] = "read"
    BY <1>0, <1>5 DEF Register, Goto, At, agentVars
  <2>2. Due'[w] = Due[w]
    BY <2>1 DEF Due, HasChild, Less
  <2> QED
    BY <1>0, <1>d, <1>m, <2>1, <2>2 DEF quotaVars
<1>6. CASE ReadResult(w)
  <2>1. /\ \A v \in Workers : v # w => pc'[v] = pc[v] /\ job'[v] = job[v]
        /\ UNCHANGED <<held, spent, proc, quotaVars>>
        /\ pc[w] = "read" /\ pc'[w] = "reap"
        /\ \A x \in Agents : x # held[w] => calls'[x] = calls[x]
    BY <1>0, <1>6 DEF ReadResult, Goto, At
  <2>2. job'[w].pid = job[w].pid /\ job'[w].reserved = job[w].reserved
    BY <1>0, <1>6 DEF ReadResult, Job
  <2>3. Due'[w] = Due[w]
    BY <2>1, <2>2 DEF Due, HasChild, Less
  <2> QED
    BY <1>0, <1>d, <1>m, <2>1, <2>3 DEF quotaVars, LetGo
<1>7. CASE Reap(w)
  <2>1. /\ \A v \in Workers : v # w => pc'[v] = pc[v]
        /\ UNCHANGED <<held, spent, job, calls, quotaVars>>
        /\ pc[w] = "reap" /\ pc'[w] = "settle"
        /\ proc' = [proc EXCEPT ![job[w].pid] = NoProc]
    BY <1>0, <1>7 DEF Reap, Goto, At, agentVars
  <2>2. \A v \in Workers : v # w /\ HasChild(v) => proc'[job[v].pid] = proc[job[v].pid]
    BY <1>0, <2>1 DEF ChildInv, CostInv, ProcDispatchInv, ProcInv, Forked, HasChild
  <2>3. Due[w] = Less(job[w].reserved, proc[job[w].pid].used)
    BY <2>1 DEF Due, HasChild
  <2>4. Due'[w] <= Due[w]
    <3>1. CASE job[w].completed
      <4>1. proc[job[w].pid].used \in Nat
        BY <1>0, <2>1 DEF HasChild, Proc
      <4>2. calls[held[w]] = job[w].before + proc[job[w].pid].used
        BY <1>0, <2>1, <3>1 DEF JobInv, HasChild
      <4>3. Less(calls[held[w]], job[w].before) = proc[job[w].pid].used
        BY <1>j, <4>1, <4>2 DEF Less
      <4>4. Due'[w] = Less(job[w].reserved, Less(calls[held[w]], job[w].before))
        BY <2>1, <3>1 DEF Due, HasChild, Less
      <4> QED
        BY <1>d, <2>3, <4>3, <4>4
    <3>2. CASE ~job[w].completed
      <4>1. Due'[w] = 0
        BY <2>1, <3>2 DEF Due, HasChild
      <4> QED
        BY <1>d, <4>1
    <3> QED
      BY <3>1, <3>2
  <2> QED
    BY <1>0, <1>d, <1>m, <2>1, <2>2, <2>4 DEF quotaVars
<1>8. CASE Settle(w)
  <2>1. /\ \A v \in Workers : v # w => pc'[v] = pc[v] /\ job'[v] = job[v]
        /\ UNCHANGED <<held, spent, proc, calls>>
        /\ pc[w] = "settle" /\ pc'[w] = "pipe" /\ InJob(w)
    BY <1>0, <1>8 DEF Settle, Goto, At, agentVars, InJob
  <2>2. Due'[w] = 0
    BY <2>1 DEF Due, HasChild
  <2>3. remaining' + total <= Due[w] + remaining + total'
    <3>1. CASE job[w].completed
      <4>1. Due[w] = Less(job[w].reserved, Less(calls[held[w]], job[w].before))
        BY <2>1, <3>1 DEF Due, HasChild
      <4>2. Refund(Due[w])
        BY <1>8, <3>1, <4>1 DEF Settle
      <4> QED
        BY <1>0, <1>d, <4>2 DEF Refund
    <3>2. CASE ~job[w].completed
      <4>1. UNCHANGED quotaVars
        BY <1>8, <3>2 DEF Settle
      <4> QED
        BY <1>0, <1>d, <4>1 DEF quotaVars
    <3> QED
      BY <3>1, <3>2
  <2>4. remaining' \in Nat /\ total' \in Nat
    BY DEF CostInv, ProcDispatchInv, ProcInv, ApiInv, QuotaTypeOK
  <2>5. Due'[w] + remaining' + total <= Due[w] + remaining + total'
    BY <1>0, <2>2, <2>3, <2>4
  <2> QED
    BY <1>m, <2>1, <2>5
<1> QED
  BY <1>1, <1>2, <1>3, <1>4, <1>5, <1>6, <1>7, <1>8 DEF Supervisor

\* A call that a child makes is one unit less of what its supervisor has due.
LEMMA ChildBudget ==
    ASSUME CostInv, CostInv', BudgetInv, NEW p \in OsPids, Child(p)
    PROVE  BudgetInv'
<1>0. /\ ProcTypeOK /\ spent \in Nat /\ remaining \in Nat /\ total \in Nat
      /\ ChildInv /\ ResultInv /\ JobInv /\ proc[p] \in Proc /\ job \in [Workers -> Job]
      /\ UNCHANGED <<pc, held, calls, job, quotaVars>>
  BY DEF CostInv, ProcDispatchInv, ProcInv, ApiInv, LoopTypeOK, QuotaTypeOK, ProcTypeOK,
     Child, ChildStep, ChildEnds, ChildExits, loopVars, agentVars
<1>1. /\ proc[p].used \in Nat /\ proc[p].allow \in Nat
      /\ proc[p].status # "free"
      /\ \A q \in OsPids : q # p => proc'[q] = proc[q]
      /\ \/ proc'[p].used = proc[p].used /\ spent' = spent
         \/ /\ proc'[p].used = proc[p].used + 1 /\ spent' = spent + 1
            /\ ~Refused(proc[p].agent, proc[p].used, proc[p].allow)
  BY <1>0, ChildEffect DEF Proc
<1>2. PICK w \in Workers : HasChild(w) /\ job[w].pid = p
  BY <1>0, <1>1 DEF ChildInv
<1>3. \A v \in Workers : v # w => Due'[v] = Due[v]
  <2>1. \A v \in Workers : v # w /\ HasChild(v) => job[v].pid \in OsPids /\ job[v].pid # p
    BY <1>0, <1>2 DEF ChildInv, CostInv, ProcDispatchInv, ProcInv, Forked, HasChild
  <2> QED
    BY <1>0, <1>1, <2>1, DueFrame
<1>4. job[w].reserved = proc[p].allow
  BY <1>0, <1>2 DEF JobInv
<1>5. /\ Due[w] = Less(proc[p].allow, proc[p].used)
      /\ Due'[w] = Less(proc[p].allow, proc'[p].used)
  BY <1>0, <1>2, <1>4 DEF Due, HasChild, Less
<1>6. spent' + Due'[w] = spent + Due[w] /\ Due[w] \in Nat /\ Due'[w] \in Nat
      /\ spent' \in Nat
  BY <1>0, <1>1, <1>5 DEF Less, Refused
<1>7. spent' + Due'[w] + remaining' + total <= spent + Due[w] + remaining + total'
  BY <1>0, <1>6 DEF quotaVars
<1> QED
  BY <1>3, <1>7, BudgetMove

\* Every step of the system keeps the balance.
LEMMA BudgetStep == CostInv /\ BudgetInv /\ [Next]_vars => BudgetInv'
<1> SUFFICES ASSUME CostInv, BudgetInv, [Next]_vars PROVE BudgetInv'
  OBVIOUS
<1>0. /\ CostInv' /\ ProcTypeOK /\ remaining \in Nat /\ total \in Nat
      /\ \A v \in Workers : HasChild(v) => job[v].pid \in OsPids
  BY CostStep DEF CostInv, ProcDispatchInv, ProcInv, ApiInv, QuotaTypeOK, Forked, HasChild
<1>f. ASSUME UNCHANGED <<pc, held, calls, job, spent>>,
             remaining' + total = remaining + total',
             \A q \in OsPids : proc'[q].used = proc[q].used
      PROVE  BudgetInv'
  BY <1>0, <1>f, DueFrame, BudgetSame
<1>1. CASE \E w \in Workers : Supervisor(w)
  BY <1>0, <1>1, SupervisorBudget
<1>2. CASE \E p \in OsPids : Child(p)
  BY <1>0, <1>2, ChildBudget
<1>3. CASE \E c \in Callers : Caller(c) /\ UNCHANGED <<procVars, aim>>
  <2>1. UNCHANGED <<pc, held, agentVars, spent>>
    BY <1>3, CallerKeepsWorkers
  <2>2. UNCHANGED quotaVars \/ Topup
    BY <1>3 DEF Caller, SpawnRegister, KillCollect, SpawnEnqueue, KillMark, KillDequeue,
       KillReap, KillReturn, ReapTerminal, TopupQuota, Shutdown, ShutdownReturn
  <2>3. remaining' + total = remaining + total'
    BY <1>0, <2>2 DEF quotaVars, Topup
  <2> QED
    BY <1>3, <1>f, <2>1, <2>3 DEF agentVars, procVars
<1>4. CASE \E c \in Callers : ProcessCaller(c)
  <2>1. UNCHANGED <<pc, held, agentVars, spent>>
    BY <1>4, CallerKeepsWorkers
  <2>2. /\ UNCHANGED <<job, quotaVars>>
        /\ UNCHANGED proc \/ \E S : Signal(S)
    BY <1>4 DEF ProcessCaller, KillLookup, KillStrike, KillSignalled, ShutdownSlay,
       procVars
  <2>3. \A q \in OsPids : proc'[q].used = proc[q].used
    BY <1>0, <2>2, SignalProperties
  <2> QED
    BY <1>f, <2>1, <2>2, <2>3 DEF agentVars, quotaVars
<1>5. CASE \/ \E t \in Threads : CompleteWrite(t) /\ UNCHANGED <<procVars, aim>>
           \/ UNCHANGED vars
  <2>1. UNCHANGED <<pc, held, agentVars, spent, quotaVars, procVars>>
    BY <1>5 DEF CompleteWrite, vars, loopVars
  <2> QED
    BY <1>f, <2>1 DEF agentVars, quotaVars, procVars
<1> QED
  BY <1>1, <1>2, <1>3, <1>4, <1>5 DEF Next, ApiNext

\* The whole budget is there when the kernel boots.
LEMMA BudgetInit == Init => BudgetInv
<1> SUFFICES ASSUME Init PROVE BudgetInv
  OBVIOUS
<1>1. \A w \in Workers : Due[w] = 0
  BY DEF Init, LoopInit, Due, HasChild
<1>2. Units(Due) = {}
  <2>1. \A w \in Workers : 1 .. Due[w] = {}
    BY <1>1
  <2> QED
    BY <2>1 DEF Units
<1>3. Cardinality(Units(Due)) = 0
  BY <1>2, FS_EmptySet
<1> QED
  BY <1>3, QuotaAssumption DEF Init, LoopInit, QuotaInit, BudgetInv

\* BudgetNeverUnderCharged holds in every reachable state: the LLM calls made,
\* what the children may still spend and the remainder never exceed the
\* ceiling, with children killed before, while and after they report, failed
\* forks, refunds and top-ups in any order.
THEOREM BudgetNeverOutspent == Spec => []BudgetNeverUnderCharged
<1>1. CostInv /\ BudgetInv => BudgetNeverUnderCharged
  <2> SUFFICES ASSUME CostInv, BudgetInv PROVE BudgetNeverUnderCharged
    OBVIOUS
  <2>1. Due \in [Workers -> 0 .. AgentQuota] /\ AgentQuota \in Nat
    BY DueType, LoopAssumption
  <2>2. \A w \in Workers : Outstanding[w] \in 0 .. Due[w]
    <3>1. \A w \in Workers : Outstanding[w] = Due[w] \/ Outstanding[w] = 0
      BY DEF Outstanding, Due, HasChild
    <3> QED
      BY <2>1, <3>1
  <2> DEFINE f == Due
             g == Outstanding
  <2> HIDE DEF f, g
  <2>3. f \in [Workers -> 0 .. AgentQuota] /\ \A w \in Workers : g[w] \in 0 .. f[w]
    BY <2>1, <2>2 DEF f, g
  <2>4. /\ Cardinality(Units(f)) \in Nat /\ Cardinality(Units(g)) <= Cardinality(Units(f))
        /\ IsFiniteSet(Units(g))
    BY <2>1, <2>3, UnitsFinite
  <2>5. Cardinality(Units(g)) \in Nat
    BY <2>4, FS_CardinalityType
  <2>6. spent \in Nat /\ remaining \in Nat /\ total \in Nat
    BY DEF CostInv, ProcDispatchInv, ProcInv, ApiInv, LoopTypeOK, QuotaTypeOK
  <2>7. spent + Cardinality(Units(f)) + remaining <= total
    BY DEF BudgetInv, f
  <2>8. spent + Cardinality(Units(g)) + remaining <= total
    BY <2>4, <2>5, <2>6, <2>7
  <2> QED
    BY <2>8 DEF BudgetNeverUnderCharged, g
<1> QED
  BY <1>1, CostInit, CostStep, BudgetInit, BudgetStep, PTL DEF Spec
=============================================================================
