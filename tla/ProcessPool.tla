---------------------------- MODULE ProcessPool ----------------------------
(***************************************************************************)
(* The process backend, gcos/kernel/process_pool.py: a worker reserves     *)
(* quota for the agent it holds, forks a child that runs the agent to its  *)
(* end, reads the result from a pipe, waits for the child and settles the  *)
(* reservation.                                                            *)
(*                                                                         *)
(* Fork, pipe, signal and wait are the operating system's.  A process is   *)
(*   free | running (the agent) | writing (its result) | exited (a zombie) *)
(* and a PID is free again, for anybody, once it was waited for.  A child  *)
(* has a copy of the PCB and of every pipe that is open when it is forked: *)
(* a reader sees the end of its pipe when no live process holds the other  *)
(* end.                                                                    *)
(***************************************************************************)
EXTENDS WorkerLoop

CONSTANTS
    OsPids,       \* the PIDs of the operating system
    NoPid,        \* no process
    StepCap,      \* _CHILD_STEP_CAP
    ForkMayFail   \* may pipe() or fork() raise?

ASSUME ProcessAssumption ==
    /\ NoPid \notin OsPids
    /\ StepCap \in Nat \ {0}
    /\ ForkMayFail \in BOOLEAN

VARIABLES
    job,        \* job[w]: the locals of _run_in_process
    quotaOf,    \* quotaOf[a]: quota_remaining of the parent's PCB
    begun,      \* the agents whose started_at is set
    children,   \* children[a]: the registry _children
    proc        \* proc[p]: the process whose PID is p

procVars == <<job, quotaOf, begun, children, proc>>

\* What a reader finds in a child's pipe: nothing or a part, or all of it.
Reports == {"cut", "full"}

Job == [quota : Nat, reserved : Nat, before : Nat, pid : OsPids \cup {NoPid},
        completed : BOOLEAN]

NoJob == [quota |-> 0, reserved |-> 0, before |-> 0, pid |-> NoPid,
          completed |-> FALSE]

Proc == [status : {"free", "running", "writing", "exited"},
         agent : Agents \cup {NoAgent}, state : AgentState, used : Nat,
         allow : Nat, ends : SUBSET Workers, report : Reports]

NoProc == [status |-> "free", agent |-> NoAgent, state |-> "NEW", used |-> 0,
           allow |-> 0, ends |-> {}, report |-> "cut"]

ProcTypeOK ==
    /\ job \in [Workers -> Job]
    /\ quotaOf \in [Agents -> Nat]
    /\ begun \subseteq Agents
    /\ children \in [Agents -> OsPids \cup {NoPid}]
    /\ proc \in [OsPids -> Proc]

ProcInit ==
    /\ job = [w \in Workers |-> NoJob]
    /\ quotaOf = [a \in Agents |-> AgentQuota]
    /\ begun = {}
    /\ children = [a \in Agents |-> NoPid]
    /\ proc = [p \in OsPids |-> NoProc]
-----------------------------------------------------------------------------
(***************************************************************************)
(* _dispatch and _run_in_process up to the fork                            *)
(***************************************************************************)
\* The parent's PCB becomes RUNNING only the first time.
Start(w) ==
    /\ At(w, "slice")
    /\ \/ /\ held[w] \in begun
          /\ UNCHANGED <<pcbVars, begun>>
       \/ /\ held[w] \notin begun
          /\ begun' = IF Accepts(held[w], "RUNNING") THEN begun \cup {held[w]}
                      ELSE begun
          /\ Transition(w, held[w], "RUNNING")
    /\ Goto(w, "reserve")
    /\ UNCHANGED <<queueVars, quotaVars, busVars, held, agentVars, stop, spent, job,
                   quotaOf, children, proc>>

\* Admission: whatever part of the agent's quota there is, unless there is
\* none.  The pipe is open from here on.
Admit(w) ==
    /\ At(w, "reserve")
    /\ LET x == held[w]
           n == Grant(quotaOf[x])
       IN  \/ /\ n = 0 /\ quotaOf[x] > 0
              /\ Transition(w, x, "BLOCKED")
              /\ Goto(w, "denied")
              /\ UNCHANGED <<quotaVars, job, quotaOf>>
           \/ /\ n > 0 \/ quotaOf[x] = 0
              /\ AcquireUpTo(quotaOf[x])
              /\ job' = [job EXCEPT ![w] = [quota |-> quotaOf[x], reserved |-> n,
                            before |-> calls[x], pid |-> NoPid, completed |-> FALSE]]
              /\ quotaOf' = [quotaOf EXCEPT ![x] = n]
              /\ Goto(w, "fork")
              /\ UNCHANGED pcbVars
    /\ UNCHANGED <<queueVars, busVars, held, agentVars, stop, spent, begun, children,
                   proc>>

\* Mutant of PutBack: the worker tries again with an agent it has put back.
PutBackRetries(w) ==
    /\ At(w, "denied")
    /\ Put(w, held[w])
    /\ Goto(w, "reserve")
    /\ UNCHANGED <<quotaVars, busVars, held, agentVars, stop, spent, procVars>>

\* Without budget the agent goes back on the queue while its worker sleeps,
\* still inside the dispatch.
PutBack(w) ==
    /\ At(w, "denied")
    /\ Put(w, held[w])
    /\ Goto(w, "late")
    /\ UNCHANGED <<quotaVars, busVars, held, agentVars, stop, spent, procVars>>

\* Back in _dispatch, which now looks at the agent again.
ConcludeLate(w) ==
    /\ At(w, "late")
    /\ \/ /\ Forwards(held[w])
          /\ Send(held[w], PipeTo[held[w]])
       \/ /\ ~Forwards(held[w])
          /\ UNCHANGED busVars
    /\ Goto(w, "finish")
    /\ UNCHANGED <<pcbVars, queueVars, quotaVars, held, agentVars, stop, spent,
                   procVars>>

\* The workers whose pipe has its write end open in the parent.
OpenPipes == {w \in Workers : pc[w] \in {"fork", "register"}}

Fork(w) ==
    /\ At(w, "fork")
    /\ \E p \in OsPids :
          /\ proc[p].status = "free"
          /\ proc' = [proc EXCEPT ![p] =
                [status |-> "running", agent |-> held[w], state |-> state[held[w]],
                 used |-> 0, allow |-> job[w].reserved, ends |-> OpenPipes,
                 report |-> "cut"]]
          /\ job' = [job EXCEPT ![w].pid = p]
    /\ Goto(w, "register")
    /\ UNCHANGED <<pcbVars, queueVars, quotaVars, busVars, held, agentVars, stop,
                   spent, quotaOf, begun, children>>

\* pipe() or fork() raises; nothing on the way out of the thread catches it.
ForkFails(w) ==
    /\ ForkMayFail
    /\ At(w, "fork")
    /\ Goto(w, "crash")
    /\ UNCHANGED <<pcbVars, queueVars, quotaVars, busVars, held, agentVars, stop,
                   spent, procVars>>

\* Mutant of Die: an exception goes past task_done().
DieUncounted(w) ==
    /\ At(w, "crash")
    /\ Goto(w, "exited")
    /\ UNCHANGED <<pcbVars, queueVars, quotaVars, busVars, held, agentVars, stop,
                   spent, procVars>>

\* task_done() in the finally clause; then the thread is gone.  That it still
\* holds its agent is history.
Die(w) ==
    /\ At(w, "crash")
    /\ TaskDone
    /\ Goto(w, "exited")
    /\ UNCHANGED <<pcbVars, quotaVars, busVars, held, agentVars, stop, spent,
                   procVars>>

(***************************************************************************)
(* The child                                                               *)
(***************************************************************************)
Finished(p) == proc[p].state \in TerminalStates \/ proc[p].used >= StepCap

\* One step of the runner on the copied PCB: refused, failed or answered.
ChildStep(p) ==
    /\ proc[p].status = "running"
    /\ ~Finished(p)
    /\ LET x == proc[p].agent
           refused == Refused(x, proc[p].used, proc[p].allow)
       IN  \/ /\ refused \/ Kind[x] = "coder"
              /\ proc' = [proc EXCEPT ![p].state = "ERROR"]
              /\ UNCHANGED spent
           \/ /\ ~refused
              /\ \E s \in Failures : proc' = [proc EXCEPT ![p].state = s]
              /\ UNCHANGED spent
           \/ /\ ~refused
              /\ \E o \in Outcomes(x) :
                    proc' = [proc EXCEPT
                        ![p].state = IF o = "TOOL" THEN "RUNNING" ELSE o,
                        ![p].used = @ + 1]
              /\ spent' = spent + 1
    /\ UNCHANGED <<pcbVars, queueVars, quotaVars, busVars, pc, held, agentVars, stop,
                   job, quotaOf, begun, children>>

ChildEnds(p) ==
    /\ proc[p].status = "running"
    /\ Finished(p)
    /\ proc' = [proc EXCEPT ![p].status = "writing"]
    /\ UNCHANGED <<pcbVars, queueVars, quotaVars, busVars, loopVars, job, quotaOf,
                   begun, children>>

\* The whole payload is in the pipe and the child is gone.
ChildExits(p) ==
    /\ proc[p].status = "writing"
    /\ proc' = [proc EXCEPT ![p].status = "exited", ![p].report = "full"]
    /\ UNCHANGED <<pcbVars, queueVars, quotaVars, busVars, loopVars, job, quotaOf,
                   begun, children>>

\* SIGKILL to the members of S: nothing, part or all of a payload that was
\* being written is in the pipe.
Signal(S) ==
    \E r \in [S -> Reports] :
        proc' = [p \in OsPids |->
            IF p \in S /\ proc[p].status = "running"
              THEN [proc[p] EXCEPT !.status = "exited"]
            ELSE IF p \in S /\ proc[p].status = "writing"
              THEN [proc[p] EXCEPT !.status = "exited", !.report = r[p]]
            ELSE proc[p]]

(***************************************************************************)
(* _run_in_process after the fork                                          *)
(***************************************************************************)
Register(w) ==
    /\ At(w, "register")
    /\ children' = [children EXCEPT ![held[w]] = job[w].pid]
    /\ Goto(w, "read")
    /\ UNCHANGED <<pcbVars, queueVars, quotaVars, busVars, held, agentVars, stop,
                   spent, job, quotaOf, begun, proc>>

\* Mutant of EndOfPipe: the parent's own write end stays open.
EndOfPipeNever(w) == w \notin Workers

EndOfPipe(w) ==
    \A p \in OsPids : w \in proc[p].ends => proc[p].status \notin {"running", "writing"}

\* The read loop ends, and _apply_result.
ReadResult(w) ==
    /\ At(w, "read")
    /\ EndOfPipe(w)
    /\ LET child == proc[job[w].pid]
       IN  \/ /\ child.report # "full"
              /\ Transition(w, held[w], "ERROR")
              /\ UNCHANGED <<calls, job>>
           \/ /\ child.report = "full"
              /\ Transition(w, held[w], child.state)
              /\ calls' = [calls EXCEPT ![held[w]] = job[w].before + child.used]
              /\ job' = [job EXCEPT ![w].completed = TRUE]
    /\ Goto(w, "reap")
    /\ UNCHANGED <<queueVars, quotaVars, busVars, held, inputOf, polls, stop, spent,
                   quotaOf, begun, children, proc>>

\* Mutant of Reap: the registry entry outlives the child.
ReapKeepsEntry(w) ==
    /\ At(w, "reap")
    /\ proc' = [proc EXCEPT ![job[w].pid] = NoProc]
    /\ Goto(w, "settle")
    /\ UNCHANGED <<pcbVars, queueVars, quotaVars, busVars, held, agentVars, stop,
                   spent, job, quotaOf, begun, children>>

\* Mutant of Reap: the child is not waited for.
ReapSkipsWait(w) ==
    /\ At(w, "reap")
    /\ children' = [children EXCEPT ![held[w]] = NoPid]
    /\ Goto(w, "settle")
    /\ UNCHANGED <<pcbVars, queueVars, quotaVars, busVars, held, agentVars, stop,
                   spent, job, quotaOf, begun, proc>>

\* waitpid and the removal from the registry, under one lock.
Reap(w) ==
    /\ At(w, "reap")
    /\ proc' = [proc EXCEPT ![job[w].pid] = NoProc]
    /\ children' = [children EXCEPT ![held[w]] = NoPid]
    /\ Goto(w, "settle")
    /\ UNCHANGED <<pcbVars, queueVars, quotaVars, busVars, held, agentVars, stop,
                   spent, job, quotaOf, begun>>

\* What is left of the quota q after n calls.
Less(q, n) == IF n < q THEN q - n ELSE 0

\* Mutant of Settle: a child that reported nothing is refunded too.
SettleAlways(w) ==
    /\ At(w, "settle")
    /\ LET made == Less(calls[held[w]], job[w].before)
       IN  /\ Refund(Less(job[w].reserved, made))
           /\ quotaOf' = [quotaOf EXCEPT ![held[w]] = Less(job[w].quota, made)]
    /\ job' = [job EXCEPT ![w] = NoJob]
    /\ Goto(w, "pipe")
    /\ UNCHANGED <<pcbVars, queueVars, busVars, held, agentVars, stop, spent, begun,
                   children, proc>>

\* Refund what a child that reported did not use; charge the whole
\* reservation of one that did not.
Settle(w) ==
    /\ At(w, "settle")
    /\ LET made == Less(calls[held[w]], job[w].before)
       IN  \/ /\ job[w].completed
              /\ Refund(Less(job[w].reserved, made))
              /\ quotaOf' = [quotaOf EXCEPT ![held[w]] = Less(job[w].quota, made)]
           \/ /\ ~job[w].completed
              /\ quotaOf' = [quotaOf EXCEPT
                                ![held[w]] = Less(job[w].quota, job[w].reserved)]
              /\ UNCHANGED quotaVars
    /\ job' = [job EXCEPT ![w] = NoJob]
    /\ Goto(w, "pipe")
    /\ UNCHANGED <<pcbVars, queueVars, busVars, held, agentVars, stop, spent, begun,
                   children, proc>>

Supervisor(w) ==
    \/ (LoopStep(w) \/ Conclude(w, FALSE) \/ Finish(w)) /\ UNCHANGED procVars
    \/ Start(w) \/ Admit(w) \/ PutBack(w) \/ ConcludeLate(w)
    \/ Fork(w) \/ ForkFails(w) \/ Die(w)
    \/ Register(w) \/ ReadResult(w) \/ Reap(w) \/ Settle(w)

Child(p) == ChildStep(p) \/ ChildEnds(p) \/ ChildExits(p)
=============================================================================
