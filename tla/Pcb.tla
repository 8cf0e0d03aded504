-------------------------------- MODULE Pcb --------------------------------
(***************************************************************************)
(* The agent control block of gcos/kernel/pcb.py: its state field and the  *)
(* transition() method that every other component calls.                   *)
(*                                                                         *)
(* transition() takes no lock.  It compares, tests for a terminal state    *)
(* and only then assigns, so the interpreter may run another thread        *)
(* between the test and the assignment.  PreemptInTransition says whether  *)
(* that happens: when TRUE a call leaves its accepted write in `pending'   *)
(* and a later step performs it, when FALSE the call is one step.          *)
(***************************************************************************)
EXTENDS Naturals, Pids

CONSTANTS
    Threads,              \* everything that calls transition()
    PreemptInTransition   \* may a thread switch fall inside transition()?

ASSUME PcbAssumption == PreemptInTransition \in BOOLEAN

VARIABLES
    state,    \* state[a]: the state field of the PCB of a
    pending   \* pending[t]: the write that t has decided on but not done

pcbVars == <<state, pending>>
-----------------------------------------------------------------------------
TerminalStates == {"DONE", "TIMEOUT", "ERROR", "ZOMBIE"}

LiveStates == {"NEW", "READY", "RUNNING", "WAITING", "BLOCKED"}

AgentState == LiveStates \cup TerminalStates

\* The documented graph.  An edge outside it is only logged, so it guards no
\* action here; the property OnlyLegalTransitions compares the two.
LegalTransitions(s) ==
    CASE s = "NEW"            -> {"READY", "WAITING", "RUNNING", "ZOMBIE"}
      [] s \in TerminalStates -> {}
      [] OTHER                -> AgentState \ {"NEW", s}

IsTerminal(a) == state[a] \in TerminalStates

\* `enqueue' marks the write made inside ReadyQueue.put, whose lock stays
\* held until the append that follows it.
PendingWrite == [agent : Agents, to : AgentState, enqueue : BOOLEAN]

NoWrite == [agent |-> NoAgent, to |-> "NEW", enqueue |-> FALSE]

\* t is between two calls of transition(), hence free to go on.
Settled(t) == pending[t] = NoWrite

PcbTypeOK ==
    /\ state \in [Agents -> AgentState]
    /\ pending \in [Threads -> PendingWrite \cup {NoWrite}]

PcbInit ==
    /\ state = [a \in Agents |-> "NEW"]
    /\ pending = [t \in Threads |-> NoWrite]
-----------------------------------------------------------------------------
\* Mutant of Accepts: terminal states are not absorbing.
AcceptsTerminal(a, s) == s # state[a]

\* The two refusals at the head of transition().
Accepts(a, s) == s # state[a] /\ ~IsTerminal(a)

\* Thread t calls transition(s) on the PCB of a.
Transition(t, a, s) ==
    \/ /\ ~Accepts(a, s)
       /\ UNCHANGED pcbVars
    \/ /\ Accepts(a, s)
       /\ ~PreemptInTransition
       /\ state' = [state EXCEPT ![a] = s]
       /\ UNCHANGED pending
    \/ /\ Accepts(a, s)
       /\ PreemptInTransition
       /\ pending' = [pending EXCEPT
                        ![t] = [agent |-> a, to |-> s, enqueue |-> FALSE]]
       /\ UNCHANGED state
=============================================================================
