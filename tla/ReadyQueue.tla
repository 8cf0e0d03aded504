----------------------------- MODULE ReadyQueue -----------------------------
(***************************************************************************)
(* The ready queue of gcos/kernel/ready_queue.py: a deque of PCBs and the  *)
(* number of PCBs that were popped and are not yet marked done.  Every     *)
(* method runs under one lock, so each is one action; only put() can be    *)
(* interrupted while it holds the lock, inside the transition() it calls.  *)
(***************************************************************************)
EXTENDS Pcb, Sequences, SequencesExt

CONSTANT Policy   \* "fcfs", "rr" or "priority": who is popped

ASSUME PolicyAssumption == Policy \in {"fcfs", "rr", "priority"}

VARIABLES
    queue,     \* the deque _q
    inFlight   \* the counter _in_flight

queueVars == <<queue, inFlight>>

QueueTypeOK ==
    /\ queue \in Seq(Agents)
    /\ inFlight \in Nat

QueueInit ==
    /\ queue = <<>>
    /\ inFlight = 0
-----------------------------------------------------------------------------
\* No thread is inside put(), so the lock can be taken.
LockFree == \A t \in Threads : ~pending[t].enqueue

\* Mutant of Put: a finalized PCB is not refused.
PutUnchecked(t, a) ==
    /\ LockFree
    /\ state' = [state EXCEPT ![a] = "READY"]
    /\ queue' = Append(queue, a)
    /\ UNCHANGED <<pending, inFlight>>

\* put(): refuse a finalized PCB, else make it READY and append it.
Put(t, a) ==
    /\ LockFree
    /\ UNCHANGED inFlight
    /\ \/ /\ IsTerminal(a)
          /\ UNCHANGED <<pcbVars, queue>>
       \/ /\ ~IsTerminal(a)
          /\ ~PreemptInTransition \/ state[a] = "READY"
          /\ state' = [state EXCEPT ![a] = "READY"]
          /\ queue' = Append(queue, a)
          /\ UNCHANGED pending
       \/ /\ ~IsTerminal(a)
          /\ PreemptInTransition
          /\ state[a] # "READY"
          /\ pending' = [pending EXCEPT
                ![t] = [agent |-> a, to |-> "READY", enqueue |-> TRUE]]
          /\ UNCHANGED <<state, queue>>

\* The assignment at the end of transition(), made without testing again,
\* and the append when the call came from put(): also when a kill fell between
\* put()'s own test and the one in transition(), which refuses then.
FinishWrite(t) ==
    /\ ~Settled(t)
    /\ \/ state' = [state EXCEPT ![pending[t].agent] = pending[t].to]
       \/ /\ pending[t].enqueue
          /\ IsTerminal(pending[t].agent)
          /\ UNCHANGED state
    /\ queue' = IF pending[t].enqueue
                THEN Append(queue, pending[t].agent) ELSE queue
    /\ pending' = [pending EXCEPT ![t] = NoWrite]
    /\ UNCHANGED inFlight

\* The entries the scheduler may select: popleft() under FCFS and RR, any
\* entry under Priority, whose key depends on the clock.
Selectable == IF Policy = "priority" THEN 1 .. Len(queue)
              ELSE {1} \cap (1 .. Len(queue))

\* Mutant of PopSelected: the entry is returned but stays in the deque.
PopKeeping(i) ==
    /\ LockFree
    /\ i \in Selectable
    /\ inFlight' = inFlight + 1
    /\ UNCHANGED queue

\* popleft() / pop_best(): select, remove and count as in flight.
PopSelected(i) ==
    /\ LockFree
    /\ i \in Selectable
    /\ queue' = RemoveAt(queue, i)
    /\ inFlight' = inFlight + 1

\* pop(pcb): remove one particular queued PCB, if it is there.
PopAgent(a) ==
    /\ LockFree
    /\ UNCHANGED inFlight
    /\ \/ \E i \in 1 .. Len(queue) :
             /\ queue[i] = a
             /\ \A j \in 1 .. i - 1 : queue[j] # a
             /\ queue' = RemoveAt(queue, i)
       \/ /\ \A i \in 1 .. Len(queue) : queue[i] # a
          /\ UNCHANGED queue

\* task_done(), which never counts below zero.
TaskDone ==
    /\ LockFree
    /\ inFlight' = IF inFlight > 0 THEN inFlight - 1 ELSE inFlight
    /\ UNCHANGED queue

IsDrained == queue = <<>> /\ inFlight = 0
=============================================================================
