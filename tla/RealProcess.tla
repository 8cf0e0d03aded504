---------------------------- MODULE RealProcess ----------------------------
(***************************************************************************)
(* The scheduler over real processes, gcos/osprims/realproc.py, with the   *)
(* job-control signals of gcos/osprims/preempt.py.  rr_order() forks       *)
(* CPU-bound children, freezes them and hands out slices, in rotation      *)
(* ("rr") or each child to its end ("fcfs"); cpu_share() ("share") lets    *)
(* children that spin for ever compete in cgroups.  Both must leave no     *)
(* process behind, whether they return or raise.                           *)
(*                                                                         *)
(* The children and what signals do to them are the operating system's; a  *)
(* child may also be killed by it (out of memory) at any time.             *)
(***************************************************************************)
EXTENDS Naturals, Sequences, FiniteSets, SequencesExt

CONSTANTS
    N,           \* n_procs
    Chunks,      \* chunks: units of work of a child
    MaxSlices    \* the deadline, in slices: at the latest, it comes after so many

ASSUME RealProcessAssumption ==
    N \in Nat \ {0} /\ Chunks \in Nat /\ MaxSlices \in Nat

Children == 1 .. N

VARIABLES
    mode,      \* which function is called, and its argument preempt
    at,        \* where it is: fork | freeze | head | grant | sleep | park |
               \*   clean | wait | measure | slay | collect | remove |
               \*   over (returned or raised) | abandoned (fork raised)
    k,         \* the child the loop over all children has come to
    pending,   \* pending
    i,         \* i
    exited,    \* exited
    order,     \* order
    stopped,   \* stopped[c]: _stopped of c's Preemptor
    alive,     \* alive[c]: _alive of c's Preemptor
    groups,    \* the cgroups of cpu_share() that exist
    task,      \* task[c]: the state of c in the operating system
    left       \* left[c]: the work c has yet to do

flags == <<stopped, alive>>
loopVars == <<pending, i, order>>
vars == <<mode, at, k, loopVars, exited, flags, groups, task, left>>

\* Every variable has a value of its domain; the index stays within the
\* children, though it is only brought back by the modulo at the loop's head.
TypeOK ==
    /\ mode \in {"rr", "fcfs", "share"}
    /\ at \in {"fork", "freeze", "head", "grant", "sleep", "park", "clean", "wait",
               "measure", "slay", "collect", "remove", "over", "abandoned"}
    /\ k \in 1 .. N + 1
    /\ pending \in Seq(Children) /\ Len(pending) <= N
    /\ i \in 0 .. N
    /\ exited \subseteq Children
    /\ order \in Seq(Children) /\ Len(order) <= MaxSlices
    /\ stopped \in [Children -> BOOLEAN] /\ alive \in [Children -> BOOLEAN]
    /\ groups \subseteq Children
    /\ task \in [Children -> {"unborn", "running", "stopped", "zombie", "gone"}]
    /\ left \in [Children -> 0 .. Chunks]

Init ==
    /\ mode \in {"rr", "fcfs", "share"}
    /\ at = "fork" /\ k = 1
    /\ pending = <<>> /\ i = 0 /\ order = <<>> /\ exited = {}
    /\ stopped = [c \in Children |-> FALSE]
    /\ alive = [c \in Children |-> TRUE]
    /\ groups = {}
    /\ task = [c \in Children |-> "unborn"]
    /\ left = [c \in Children |-> Chunks]
-----------------------------------------------------------------------------
(***************************************************************************)
(* The children                                                            *)
(***************************************************************************)
Work(c) ==
    /\ task[c] = "running" /\ mode # "share"
    /\ left[c] > 0
    /\ left' = [left EXCEPT ![c] = @ - 1]
    /\ UNCHANGED <<mode, at, k, loopVars, exited, flags, groups, task>>

Exit(c) ==
    /\ task[c] = "running" /\ mode # "share"
    /\ left[c] = 0
    /\ task' = [task EXCEPT ![c] = "zombie"]
    /\ UNCHANGED <<mode, at, k, loopVars, exited, flags, groups, left>>

Crash(c) ==
    /\ task[c] \in {"running", "stopped"}
    /\ task' = [task EXCEPT ![c] = "zombie"]
    /\ UNCHANGED <<mode, at, k, loopVars, exited, flags, groups, left>>
-----------------------------------------------------------------------------
(***************************************************************************)
(* Preemptor.  kill(2) fails only for a PID that was reaped; a signal to a *)
(* zombie is accepted and does nothing.                                    *)
(***************************************************************************)
Reachable(c) == task[c] # "gone"

Turned(c, from, to) ==
    IF task[c] \in from THEN [task EXCEPT ![c] = to] ELSE task

\* Preemptor.stop()
Stop(c) ==
    LET sent == alive[c] /\ ~stopped[c]
    IN  /\ task' = IF sent THEN Turned(c, {"running"}, "stopped") ELSE task
        /\ stopped' = [stopped EXCEPT ![c] = @ \/ (sent /\ Reachable(c))]
        /\ alive' = [alive EXCEPT ![c] = @ /\ (sent => Reachable(c))]

\* Preemptor.cont()
Cont(c) ==
    LET sent == alive[c] /\ stopped[c]
    IN  /\ task' = IF sent THEN Turned(c, {"stopped"}, "running") ELSE task
        /\ stopped' = [stopped EXCEPT ![c] = @ /\ ~(sent /\ Reachable(c))]
        /\ alive' = [alive EXCEPT ![c] = @ /\ (sent => Reachable(c))]

\* Mutant of Kill: a stopped child is only continued.
KillContinues(c) ==
    /\ task' = IF stopped[c] THEN Turned(c, {"stopped"}, "running")
               ELSE Turned(c, {"running"}, "zombie")
    /\ stopped' = [stopped EXCEPT ![c] = FALSE]
    /\ alive' = [alive EXCEPT ![c] = FALSE]

\* Preemptor.kill(): SIGCONT if it was stopped, then SIGKILL.
Kill(c) ==
    /\ task' = Turned(c, {"running", "stopped"}, "zombie")
    /\ stopped' = [stopped EXCEPT ![c] = FALSE]
    /\ alive' = [alive EXCEPT ![c] = FALSE]
-----------------------------------------------------------------------------
(***************************************************************************)
(* rr_order()                                                              *)
(***************************************************************************)
\* The loops over all children: go on to the next, or after the last to a
\* new point.
NextChild(p) ==
    IF k < N THEN k' = k + 1 /\ UNCHANGED at ELSE k' = 1 /\ at' = p

\* Cgroup(...) and add_pid(): the directory is made and the child moved there,
\* or the group is not enforced and everything about it does nothing.
MakeGroup(c) == groups' \in {groups, groups \cup {c}}

\* cpu_share() also makes the child's group.
Fork ==
    /\ at = "fork"
    /\ task' = [task EXCEPT ![k] = "running"]
    /\ IF mode = "share" THEN MakeGroup(k) ELSE UNCHANGED groups
    /\ NextChild(IF mode = "share" THEN "measure" ELSE "freeze")
    /\ UNCHANGED <<mode, loopVars, exited, flags, left>>

\* fork() raises.  Only cpu_share() forks inside its try.
ForkFails ==
    /\ at = "fork"
    /\ IF mode = "share" THEN at' = "slay" /\ k' = 1
       ELSE at' = "abandoned" /\ UNCHANGED k
    /\ UNCHANGED <<mode, loopVars, exited, flags, groups, task, left>>

\* "everyone starts frozen; the scheduler hands out slices"
Freeze ==
    /\ at = "freeze"
    /\ Stop(k)
    /\ NextChild("head")
    /\ pending' = [c \in Children |-> c]
    /\ UNCHANGED <<mode, i, order, exited, groups, left>>

Index == i % Len(pending)

\* The child whose turn it is.
Current == pending[Index + 1]

\* Mutant of Reaped: the child is reaped and not remembered.
ReapedForgotten ==
    /\ task[Current] = "zombie"
    /\ task' = [task EXCEPT ![Current] = "gone"]
    /\ pending' = RemoveAt(pending, Index + 1)
    /\ i' = Index
    /\ UNCHANGED exited

\* Mutant of Reaped: the index goes on although the list moved up.
ReapedSkips ==
    /\ task[Current] = "zombie"
    /\ task' = [task EXCEPT ![Current] = "gone"]
    /\ exited' = exited \cup {Current}
    /\ pending' = RemoveAt(pending, Index + 1)
    /\ i' = Index + 1

\* reaped() is true: waitpid took the child, which leaves the list.
Reaped ==
    /\ task[Current] = "zombie"
    /\ task' = [task EXCEPT ![Current] = "gone"]
    /\ exited' = exited \cup {Current}
    /\ pending' = RemoveAt(pending, Index + 1)
    /\ i' = Index

\* The head of the loop, before the deadline.
LoopHead ==
    /\ at = "head"
    /\ pending # <<>> /\ Len(order) < MaxSlices
    /\ \/ Reaped /\ UNCHANGED at
       \/ /\ task[Current] # "zombie"
          /\ at' = "grant"
          /\ i' = Index
          /\ UNCHANGED <<task, exited, pending>>
    /\ UNCHANGED <<mode, k, order, flags, groups, left>>

Grant ==
    /\ at = "grant"
    /\ order' = Append(order, Current)
    /\ Cont(Current)
    /\ at' = "sleep"
    /\ UNCHANGED <<mode, k, pending, i, exited, groups, left>>

\* The quantum is over: has the child ended?
Wake ==
    /\ at = "sleep"
    /\ \/ Reaped /\ at' = "head"
       \/ /\ task[Current] # "zombie"
          /\ at' = "park"
          /\ UNCHANGED <<task, exited, pending, i>>
    /\ UNCHANGED <<mode, k, order, flags, groups, left>>

\* Mutant of Park: the child runs on during the others' slices.
ParkLeavesRunning ==
    /\ at = "park"
    /\ i' = IF mode = "rr" THEN i + 1 ELSE i
    /\ at' = "head"
    /\ UNCHANGED <<mode, k, pending, order, exited, flags, task, groups, left>>

\* It has not, or not yet when it was looked at.
Park ==
    /\ at = "park"
    /\ Stop(Current)
    /\ i' = IF mode = "rr" THEN i + 1 ELSE i
    /\ at' = "head"
    /\ UNCHANGED <<mode, k, pending, order, exited, groups, left>>

\* Nobody is left, or the deadline has passed.
LoopEnds ==
    /\ at = "head"
    /\ at' = "clean" /\ k' = 1
    /\ UNCHANGED <<mode, loopVars, exited, flags, groups, task, left>>

\* An interrupt during the sleep of either function, where nearly all their time
\* goes.  One in the few instructions of the freeze loop, which is outside the
\* try, or between a fork and the note of its PID is not modelled.
Interrupt ==
    /\ \/ at = "sleep" /\ at' = "clean"
       \/ at = "measure" /\ at' = "slay"
    /\ k' = 1
    /\ UNCHANGED <<mode, loopVars, exited, flags, groups, task, left>>

\* finally: kill whoever is not known to have exited ...
Clean ==
    /\ at = "clean"
    /\ \/ k \in exited /\ NextChild("over") /\ UNCHANGED <<task, flags>>
       \/ k \notin exited /\ Kill(k) /\ at' = "wait" /\ UNCHANGED k
    /\ UNCHANGED <<mode, loopVars, exited, groups, left>>

\* ... and wait for it.
Wait ==
    /\ at = "wait"
    /\ task[k] = "zombie"
    /\ task' = [task EXCEPT ![k] = "gone"]
    /\ IF k < N THEN k' = k + 1 /\ at' = "clean" ELSE k' = 1 /\ at' = "over"
    /\ UNCHANGED <<mode, loopVars, exited, flags, groups, left>>
-----------------------------------------------------------------------------
(***************************************************************************)
(* cpu_share() after its children are forked                               *)
(***************************************************************************)
Measure ==
    /\ at = "measure"
    /\ at' = "slay"
    /\ UNCHANGED <<mode, k, loopVars, exited, flags, groups, task, left>>

\* finally, in three loops over the children that were forked: SIGKILL ...
Slay ==
    /\ at = "slay"
    /\ task' = Turned(k, {"running", "stopped"}, "zombie")
    /\ NextChild("collect")
    /\ UNCHANGED <<mode, loopVars, exited, flags, groups, left>>

\* ... waitpid ...
Collect ==
    /\ at = "collect"
    /\ task[k] \in {"unborn", "zombie"}
    /\ task' = Turned(k, {"zombie"}, "gone")
    /\ NextChild("remove")
    /\ UNCHANGED <<mode, loopVars, exited, flags, groups, left>>

\* Mutant of Rmdir: the group numbered one less.
RmdirPrevious(c) == groups' = groups \ {c - 1}

\* Cgroup.remove(): a group with a process in it stays, and nobody hears of it.
Rmdir(c) ==
    groups' = IF task[c] \in {"running", "stopped"} THEN groups ELSE groups \ {c}

\* ... and remove().
RemoveGroup ==
    /\ at = "remove"
    /\ Rmdir(k)
    /\ NextChild("over")
    /\ UNCHANGED <<mode, loopVars, exited, flags, task, left>>
-----------------------------------------------------------------------------
Child(c) == Work(c) \/ Exit(c) \/ Crash(c)

Parent ==
    \/ Fork \/ Freeze
    \/ LoopHead \/ Grant \/ Wake \/ Park \/ LoopEnds
    \/ Clean \/ Wait
    \/ Measure \/ Slay \/ Collect \/ RemoveGroup

Next ==
    \/ Parent
    \/ ForkFails \/ Interrupt
    \/ \E c \in Children : Child(c)

Spec == Init /\ [][Next]_vars

\* The caller's thread runs.  Nothing is assumed of the children, which may
\* get no processor time at all.
FairSpec == Spec /\ WF_vars(Parent)
-----------------------------------------------------------------------------
Running == {c \in Children : task[c] = "running"}

\* Preemption is real: from the first slice to the clean-up no child runs
\* outside its slice, so no two ever run at once.
OneAtATime ==
    /\ at \in {"head", "grant"} => Running = {}
    /\ at \in {"sleep", "park"} => Running \subseteq {Current}

\* No signal goes to a PID that waitpid() has given back, which by then may be
\* another process.
SignalsOnlyChildren ==
    /\ at \in {"grant", "sleep", "park"} => task[Current] # "gone"
    /\ at \in {"freeze", "slay"} => task[k] # "gone"
    /\ at = "clean" => k \in exited \/ task[k] # "gone"

\* "Always kill+reap every survivor": when either function is over, by return,
\* deadline or interrupt, every child is reaped and every group removed; and a
\* failed fork() leaves nobody frozen.
NothingLeft ==
    /\ at = "over" => groups = {} /\ \A c \in Children : task[c] \in {"unborn", "gone"}
    /\ at = "abandoned" => \A c \in Children : task[c] # "stopped"

\* block_count()
BlockCount(s) ==
    IF s = <<>> THEN 0 ELSE 1 + Cardinality({j \in 1 .. Len(s) - 1 : s[j] # s[j + 1]})

Turns(c) == Cardinality({j \in DOMAIN order : order[j] = c})

\* The recorded order is the policy's.  In rotation, of the children that are
\* still there none is more than one slice ahead of another, however the list
\* shrinks under the index; "FCFS (non-preemptive): each child runs to completion
\* -> exactly one block per child", though children may die at any moment.
FairTurns ==
    /\ mode = "rr" => \A c, d \in ToSet(pending) : Turns(c) <= Turns(d) + 1
    /\ mode = "fcfs" => BlockCount(order) = Cardinality(ToSet(order))

\* Both functions return: no wait for a child that nobody will end.
CallReturns == <>(at \in {"over", "abandoned"})
=============================================================================
