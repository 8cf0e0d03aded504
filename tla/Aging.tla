------------------------------- MODULE Aging -------------------------------
(***************************************************************************)
(* The Priority scheduler of gcos/kernel/scheduler.py over time: whether   *)
(* aging keeps agents of low priority from starving under a stream of      *)
(* others.  The queue, the workers and the agents' steps are here what the *)
(* scheduler sees of them; ReadyQueue and WorkerLoop have their detail.    *)
(* There is one worker, with which the competition is hardest.             *)
(*                                                                         *)
(* One tick is 1 / aging_rate_per_s, ten seconds by default, so an agent   *)
(* gains one point of priority per tick.  Agents come without end: a job   *)
(* that is gone may come again as a new agent, with its own created_at.    *)
(* Every dispatch is one step (quantum 1); a consumer that polls for its   *)
(* input and is queued again is an agent that takes further steps.         *)
(***************************************************************************)
EXTENDS Naturals, Sequences, FiniteSets, SequencesExt

CONSTANTS
    Jobs,        \* the agents there may be at a time
    Priority,    \* Priority[j]: the base priority of agents in place j
    MaxBonus,    \* aging_max_bonus, in points
    StepTicks,   \* ticks a step may last: the LLM call has a timeout
    MaxSteps     \* steps an agent may take: its quota of calls

ASSUME AgingAssumption ==
    /\ IsFiniteSet(Jobs)
    /\ Priority \in [Jobs -> 0 .. 9]
    /\ MaxBonus \in Nat
    /\ StepTicks \in Nat /\ MaxSteps \in Nat \ {0}

VARIABLES
    phase,     \* phase[j]: absent | queued | running
    arrivals,  \* the agents present, by created_at
    waited,    \* waited[j]: ticks since created_at, as far as they count
    busy,      \* busy[j]: ticks that j's step has taken
    taken      \* taken[j]: steps j has begun

agingVars == <<phase, arrivals, waited, busy, taken>>

\* Agents, their order and their clocks keep to their domains.
AgingTypeOK ==
    /\ phase \in [Jobs -> {"absent", "queued", "running"}]
    /\ arrivals \in Seq(Jobs)
    /\ waited \in [Jobs -> 0 .. MaxBonus]
    /\ busy \in [Jobs -> 0 .. StepTicks]
    /\ taken \in [Jobs -> 0 .. MaxSteps]

AgingInit ==
    /\ phase = [j \in Jobs |-> "absent"]
    /\ arrivals = <<>>
    /\ waited = [j \in Jobs |-> 0]
    /\ busy = [j \in Jobs |-> 0]
    /\ taken = [j \in Jobs |-> 0]

In(p) == {j \in Jobs : phase[j] = p}
-----------------------------------------------------------------------------
\* Mutant of EffectivePriority: no aging.
StrictPriority(j) == Priority[j]

\* The bonus counts from created_at on, through the steps that were run.
EffectivePriority(j) == Priority[j] + waited[j]

\* The key's second part: the older agent goes first.
Older(i, j) == SelectInSeq(arrivals, LAMBDA x : x = i)
                   < SelectInSeq(arrivals, LAMBDA x : x = j)

\* The maximum that pop_best() removes.
Best(j) ==
    \A i \in In("queued") \ {j} :
        \/ EffectivePriority(j) > EffectivePriority(i)
        \/ EffectivePriority(j) = EffectivePriority(i) /\ Older(j, i)

\* spawn(): an agent arrives.
Arrive(j) ==
    /\ phase[j] = "absent"
    /\ phase' = [phase EXCEPT ![j] = "queued"]
    /\ arrivals' = Append(arrivals, j)
    /\ UNCHANGED <<waited, busy, taken>>

\* pick_next(), by the worker when it is idle.
PickBest(j) ==
    /\ phase[j] = "queued"
    /\ In("running") = {}
    /\ Best(j)
    /\ phase' = [phase EXCEPT ![j] = "running"]
    /\ busy' = [busy EXCEPT ![j] = 0]
    /\ taken' = [taken EXCEPT ![j] = @ + 1]
    /\ UNCHANGED <<arrivals, waited>>

\* The step ends: the agent is queued again or is gone for good.
StepOver(j) ==
    /\ phase[j] = "running"
    /\ busy' = [busy EXCEPT ![j] = 0]
    /\ \/ /\ taken[j] < MaxSteps
          /\ phase' = [phase EXCEPT ![j] = "queued"]
          /\ UNCHANGED <<arrivals, waited, taken>>
       \/ /\ phase' = [phase EXCEPT ![j] = "absent"]
          /\ arrivals' = RemoveFirst(arrivals, j)
          /\ waited' = [waited EXCEPT ![j] = 0]
          /\ taken' = [taken EXCEPT ![j] = 0]

\* Time passes.  The worker picks, if it can, in far less than a tick.
Elapse ==
    /\ In("queued") = {} \/ In("running") # {}
    /\ \A j \in In("running") : busy[j] < StepTicks
    /\ arrivals # <<>>
    /\ waited' = [j \in Jobs |-> IF phase[j] # "absent" /\ waited[j] < MaxBonus
                                 THEN waited[j] + 1 ELSE waited[j]]
    /\ busy' = [j \in Jobs |-> IF phase[j] = "running" THEN busy[j] + 1 ELSE busy[j]]
    /\ UNCHANGED <<phase, arrivals, taken>>

Serve(j) == PickBest(j) \/ StepOver(j)

AgingNext == Elapse \/ \E j \in Jobs : Arrive(j) \/ Serve(j)

\* Time goes on, however many steps are over within a tick; the worker
\* picks when it is idle, and steps end; that anybody arrives is not promised.
AgingFairness ==
    /\ SF_agingVars(Elapse)
    /\ WF_agingVars(\E j \in Jobs : PickBest(j))
    /\ \A j \in Jobs : WF_agingVars(StepOver(j))

AgingSpec == AgingInit /\ [][AgingNext]_agingVars /\ AgingFairness
-----------------------------------------------------------------------------
\* ARCHITECTURE.md: "Priority has wait-time aging so nothing starves".  Whoever
\* is queued is dispatched in the end.
NoStarvation == \A j \in Jobs : phase[j] = "queued" ~> phase[j] = "running"

\* i has so much priority and has been there so long that the capped bonus of j
\* cannot make up for it.
Outgrown(i, j) == Priority[i] + waited[i] >= Priority[j] + MaxBonus

\* What aging does achieve: agents of higher priority that keep arriving do not
\* by themselves starve an agent, as they would without aging.  Whoever is
\* queued is dispatched in the end, unless agents are served again and again
\* that stay so long that their own bonus puts them out of its reach.
OnlyAgedRivalsStarve ==
    \A j \in Jobs :
        phase[j] = "queued" ~> \/ phase[j] = "running"
                               \/ \E i \in In("running") : Outgrown(i, j)
=============================================================================
