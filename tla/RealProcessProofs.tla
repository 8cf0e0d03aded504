------------------------- MODULE RealProcessProofs -------------------------
(***************************************************************************)
(* The scheduler over real processes, for every number of children, amount *)
(* of work and deadline.  RealInv says at each point of rr_order() and     *)
(* cpu_share() which children exist, which of them are frozen and what the *)
(* call knows of them; TurnInv adds how often each was run.                *)
(***************************************************************************)
EXTENDS RealProcess, ListProofs

Loop == {"head", "grant", "sleep", "park"}

\* Which function is at which point, and that only cpu_share() has groups.
Points ==
    /\ k \in Children
    /\ at \in Loop \cup {"freeze", "clean", "wait", "abandoned"} => mode # "share"
    /\ at \in {"measure", "slay", "collect", "remove"} => mode = "share"
    /\ mode # "share" => groups = {}

\* Children are forked in turn, nobody has touched them yet.
Forked ==
    /\ at = "fork" =>
          /\ exited = {} /\ i = 0 /\ order = <<>>
          /\ \A c \in Children :
                /\ alive[c] /\ ~stopped[c]
                /\ task[c] \in IF c < k THEN {"running", "zombie"} ELSE {"unborn"}
    /\ at = "abandoned" => \A c \in Children : task[c] # "stopped"

\* ... and frozen in turn.
Frozen ==
    at = "freeze" =>
       /\ exited = {} /\ i = 0 /\ order = <<>>
       /\ \A c \in Children :
             /\ alive[c] /\ (stopped[c] <=> c < k)
             /\ task[c] \in (IF c < k THEN {"stopped", "zombie"}
                             ELSE {"running", "zombie"})

\* In the loop the list holds, each once, those who were not yet reaped.
Listed ==
    at \in Loop =>
       /\ \A p, q \in DOMAIN pending : pending[p] = pending[q] => p = q
       /\ \A c \in Children :
             /\ c \in exited <=> task[c] = "gone"
             /\ c \in exited <=> \A p \in DOMAIN pending : pending[p] # c
             /\ alive[c]

\* All of them are frozen, except for the one in its slice.
Sliced ==
    /\ at \in {"head", "grant"} =>
          \A c \in Children \ exited : stopped[c] /\ task[c] \in {"stopped", "zombie"}
    /\ at \in {"sleep", "park"} =>
          /\ ~stopped[pending[i + 1]]
          /\ task[pending[i + 1]] \in {"running", "zombie"}
          /\ \A c \in Children \ exited :
                c # pending[i + 1] => stopped[c] /\ task[c] \in {"stopped", "zombie"}
    /\ at \in Loop => i <= Len(pending)
    /\ at \in {"grant", "sleep", "park"} => i < Len(pending)
    /\ at = "grant" => Len(order) < MaxSlices

\* Everybody is killed and reaped in turn: by rr_order() ...
Cleaned ==
    at \in {"clean", "wait"} =>
       \A c \in Children :
          IF c < k THEN task[c] = "gone"
          ELSE task[c] # "unborn" /\ (c \in exited <=> task[c] = "gone")

\* ... and by cpu_share(), in three loops.
Shared ==
    /\ at = "measure" => k = 1 /\ \A c \in Children : task[c] \in {"running", "zombie"}
    /\ at = "slay" =>
          \A c \in Children :
             task[c] \in {"unborn", "zombie"} \cup (IF c < k THEN {} ELSE {"running"})
    /\ at = "collect" =>
          \A c \in Children :
             task[c] \in {"unborn"} \cup (IF c < k THEN {"gone"} ELSE {"zombie"})
    /\ at \in {"remove", "over"} => \A c \in Children : task[c] \in {"unborn", "gone"}
    /\ at = "remove" => \A c \in groups : c >= k
    /\ at = "over" => groups = {}

RealInv ==
    /\ TypeOK
    /\ Points /\ Forked /\ Frozen /\ Listed /\ Sliced /\ Cleaned /\ Shared

\* How many places at the front of the list had their slice of this round.
Served == IF at \in {"sleep", "park"} THEN i + 1 ELSE i

\* In rotation, they had one slice more than those behind them.
Rotation ==
    IF at \in Loop
    THEN \A p, q \in DOMAIN pending :
            Turns(pending[p]) + (IF p <= Served THEN 0 ELSE 1)
              = Turns(pending[q]) + (IF q <= Served THEN 0 ELSE 1)
    ELSE \A c, d \in ToSet(pending) : Turns(c) <= Turns(d) + 1

\* One after another, only the first of the list may have run, and then last.
Succession ==
    /\ i = 0
    /\ BlockCount(order) = Cardinality(ToSet(order))
    /\ at \in Loop =>
          \A p \in DOMAIN pending :
             pending[p] \in ToSet(order) => p = 1 /\ order[Len(order)] = pending[1]

TurnInv ==
    /\ at = "freeze" => order = <<>>
    /\ mode = "rr" => Rotation
    /\ mode = "fcfs" => Succession

-----------------------------------------------------------------------------
\* i % len(pending), for the indices that occur.
LEMMA Modulo ==
    ASSUME NEW n \in Nat \ {0}, NEW j \in 0 .. n
    PROVE  j % n = IF j = n THEN 0 ELSE j
<1>1. n % n = 0
  OBVIOUS
<1>2. j \in Nat /\ j < n => j % n = j
  OBVIOUS
<1> QED
  BY <1>1, <1>2

\* The child whose turn it is: it is in the list, and was not reaped.
LEMMA CurrentListed ==
    ASSUME RealInv, at \in Loop, pending # <<>>
    PROVE  /\ Index = IF i = Len(pending) THEN 0 ELSE i
           /\ Index \in 0 .. Len(pending) - 1
           /\ Index + 1 \in DOMAIN pending
           /\ at # "head" => Index = i
           /\ Current = pending[Index + 1]
           /\ Current \in Children \ exited
           /\ task[Current] # "gone"
<1>1. pending \in Seq(Children) /\ Len(pending) \in Nat \ {0} /\ i \in 0 .. Len(pending)
  BY DEF RealInv, TypeOK, Sliced, Loop
<1>2. Index = IF i = Len(pending) THEN 0 ELSE i
  BY <1>1, Modulo DEF Index
<1>3. Index \in 0 .. Len(pending) - 1 /\ Index + 1 \in DOMAIN pending
  BY <1>1, <1>2
<1>4. at # "head" => Index = i
  BY <1>1, <1>2 DEF RealInv, Sliced, Loop
<1>5. Current \in Children
  BY <1>1, <1>3 DEF Current
<1>6. Current \notin exited /\ task[Current] # "gone"
  BY <1>3, <1>5 DEF RealInv, Listed, Current
<1> QED
  BY <1>2, <1>3, <1>4, <1>5, <1>6 DEF Current

\* stop() and cont() of a child that is there.
LEMMA Signals ==
    ASSUME TypeOK, NEW c \in Children, alive[c], task[c] # "gone"
    PROVE  /\ Stop(c) /\ ~stopped[c] =>
                 /\ task' = IF task[c] = "running" THEN [task EXCEPT ![c] = "stopped"]
                            ELSE task
                 /\ stopped' = [stopped EXCEPT ![c] = TRUE]
                 /\ alive' = alive
           /\ Cont(c) /\ stopped[c] =>
                 /\ task' = IF task[c] = "stopped" THEN [task EXCEPT ![c] = "running"]
                            ELSE task
                 /\ stopped' = [stopped EXCEPT ![c] = FALSE]
                 /\ alive' = alive
<1>1. [alive EXCEPT ![c] = TRUE] = alive
  BY DEF TypeOK
<1>2. ASSUME Stop(c), ~stopped[c]
      PROVE  /\ task' = IF task[c] = "running" THEN [task EXCEPT ![c] = "stopped"] ELSE task
             /\ stopped' = [stopped EXCEPT ![c] = TRUE]
             /\ alive' = [alive EXCEPT ![c] = TRUE]
  BY <1>2 DEF Stop, Reachable, Turned
<1>3. ASSUME Cont(c), stopped[c]
      PROVE  /\ task' = IF task[c] = "stopped" THEN [task EXCEPT ![c] = "running"] ELSE task
             /\ stopped' = [stopped EXCEPT ![c] = FALSE]
             /\ alive' = [alive EXCEPT ![c] = TRUE]
  BY <1>3 DEF Cont, Reachable, Turned
<1> QED
  BY <1>1, <1>2, <1>3

-----------------------------------------------------------------------------
\* Nobody is forked yet.
LEMMA RealInit == Init => RealInv
BY RealProcessAssumption
DEF Init, RealInv, TypeOK, Children, Points, Forked, Frozen, Listed, Sliced, Cleaned,
    Shared, Loop

\* A child works, ends or is killed by the system: only the running and the
\* stopped can, and nobody relies on anybody being alive.
LEMMA ChildKeeps ==
    ASSUME RealInv, NEW c \in Children, Child(c)
    PROVE  RealInv'
<1>1. CASE Work(c)
  <2>1. left' \in [Children -> 0 .. Chunks]
    BY <1>1, RealProcessAssumption DEF RealInv, TypeOK, Work
  <2>2. UNCHANGED <<mode, at, k, loopVars, exited, flags, groups, task>>
    BY <1>1 DEF Work
  <2>3. TypeOK'
    BY <2>1, <2>2 DEF RealInv, TypeOK, loopVars, flags
  <2>4. Points' /\ Forked' /\ Frozen' /\ Listed' /\ Cleaned' /\ Shared'
    BY <2>2 DEF RealInv, Points, Forked, Frozen, Listed, Cleaned, Shared, loopVars, flags
  <2>5. Sliced'
    BY <2>2 DEF RealInv, Sliced, loopVars, flags
  <2> QED
    BY <2>3, <2>4, <2>5 DEF RealInv
<1>2. CASE Exit(c) \/ Crash(c)
  <2>1. /\ task[c] \in {"running", "stopped"}
        /\ task' = [task EXCEPT ![c] = "zombie"]
        /\ UNCHANGED <<mode, at, k, loopVars, exited, flags, groups, left>>
    BY <1>2 DEF Exit, Crash
  <2>2. TypeOK'
    BY <2>1 DEF RealInv, TypeOK, loopVars, flags
  <2>3. Points' /\ Forked' /\ Frozen'
    BY <2>1 DEF RealInv, TypeOK, loopVars, flags, Points, Forked, Frozen
  <2>4. Listed' /\ Cleaned' /\ Shared'
    BY <2>1 DEF RealInv, TypeOK, loopVars, flags, Listed, Cleaned, Shared
  <2>5. Sliced'
    BY <2>1 DEF RealInv, TypeOK, loopVars, flags, Sliced
  <2> QED
    BY <2>2, <2>3, <2>4, <2>5 DEF RealInv
<1> QED
  BY <1>1, <1>2 DEF Child

\* Children are forked one after another.
LEMMA ForkKeeps ==
    ASSUME RealInv, Fork \/ ForkFails
    PROVE  RealInv'
<1> USE RealProcessAssumption
<1>1. CASE Fork
  <2>1. /\ at = "fork" /\ at' \in {"fork", "freeze", "measure"}
        /\ k' \in Children
        /\ at' = "fork" => k' = k + 1
        /\ at' # "fork" => k = N /\ k' = 1
        /\ at' = "freeze" => mode # "share"
        /\ at' = "measure" => mode = "share"
    BY <1>1 DEF Fork, NextChild, RealInv, Points, Children
  <2>2. /\ task' = [task EXCEPT ![k] = "running"]
        /\ groups' \subseteq Children
        /\ mode # "share" => groups' = groups
        /\ UNCHANGED <<mode, loopVars, exited, flags, left>>
    BY <1>1 DEF Fork, MakeGroup, RealInv, TypeOK, Points
  <2>3. TypeOK'
    BY <2>1, <2>2 DEF RealInv, TypeOK, Children, loopVars, flags
  <2>4. Points' /\ Listed' /\ Sliced' /\ Cleaned'
    BY <2>1, <2>2 DEF RealInv, Points, Listed, Sliced, Cleaned, Loop
  <2>5. Forked' /\ Frozen' /\ Shared'
    BY <2>1, <2>2 DEF RealInv, TypeOK, Forked, Frozen, Shared, Points, Children,
       loopVars, flags
  <2> QED
    BY <2>3, <2>4, <2>5 DEF RealInv
<1>2. CASE ForkFails
  <2>1. /\ at = "fork" /\ k' \in Children
        /\ \/ at' = "slay" /\ k' = 1 /\ mode = "share"
           \/ at' = "abandoned" /\ mode # "share"
        /\ UNCHANGED <<mode, loopVars, exited, flags, groups, task, left>>
    BY <1>2 DEF ForkFails, RealInv, Points, Children
  <2>2. TypeOK'
    BY <2>1 DEF RealInv, TypeOK, Children, loopVars, flags
  <2>3. Points' /\ Frozen' /\ Listed' /\ Sliced' /\ Cleaned'
    BY <2>1 DEF RealInv, Points, Frozen, Listed, Sliced, Cleaned, Loop
  <2>4. Forked' /\ Shared'
    BY <2>1, SMTT(30) DEF RealInv, TypeOK, Forked, Shared, Children
  <2> QED
    BY <2>2, <2>3, <2>4 DEF RealInv
<1> QED
  BY <1>1, <1>2

\* Children are frozen one after another; the last one frozen, the list holds
\* them all.
LEMMA FreezeKeeps ==
    ASSUME RealInv, Freeze
    PROVE  RealInv'
<1> USE RealProcessAssumption
<1>1. /\ at = "freeze" /\ at' \in {"freeze", "head"} /\ k' \in Children
      /\ at' = "freeze" => k' = k + 1
      /\ at' = "head" => k = N
      /\ mode # "share"
  BY DEF Freeze, NextChild, RealInv, Points, Children
<1>2. /\ k \in Children /\ alive[k] /\ ~stopped[k] /\ task[k] \in {"running", "zombie"}
  BY <1>1 DEF RealInv, TypeOK, Points, Frozen
<1>3. /\ task' = IF task[k] = "running" THEN [task EXCEPT ![k] = "stopped"] ELSE task
      /\ stopped' = [stopped EXCEPT ![k] = TRUE]
      /\ alive' = alive
      /\ UNCHANGED <<mode, i, order, exited, groups, left>>
  BY <1>2, Signals DEF Freeze, RealInv
<1>4. /\ pending' \in Seq(Children) /\ Len(pending') = N
      /\ DOMAIN pending' = Children
      /\ \A c \in Children : pending'[c] = c
  BY DEF Freeze, Children
<1>5. TypeOK'
  BY <1>1, <1>2, <1>3, <1>4, SMTT(30) DEF RealInv, TypeOK, Children
<1>6. Points' /\ Forked' /\ Cleaned' /\ Shared'
  BY <1>1, <1>3 DEF RealInv, Points, Forked, Cleaned, Shared, Loop
<1>7. Frozen'
  BY <1>1, <1>2, <1>3 DEF RealInv, TypeOK, Frozen, Children
<1>8. ASSUME NEW c \in Children, at' = "head"
      PROVE  /\ alive'[c] /\ stopped'[c] /\ task'[c] \in {"stopped", "zombie"}
             /\ c \notin exited'
  BY <1>1, <1>2, <1>3, <1>8 DEF RealInv, TypeOK, Frozen, Children
<1>9. Listed'
  BY <1>1, <1>4, <1>8 DEF Listed, Loop
<1>10. Sliced'
  <2>1. i' = 0
    BY <1>1, <1>3 DEF RealInv, Frozen
  <2> QED
    BY <1>1, <1>4, <1>8, <2>1 DEF Sliced, Loop
<1> QED
  BY <1>5, <1>6, <1>7, <1>9, <1>10 DEF RealInv

\* A child that ended is taken off the list, and nobody else.
LEMMA ReapedKeeps ==
    ASSUME RealInv, at \in {"head", "sleep"}, pending # <<>>, Reaped, at' = "head",
           UNCHANGED <<mode, k, order, flags, groups, left>>
    PROVE  RealInv'
<1> USE RealProcessAssumption
<1>1. at \in Loop
  BY DEF Loop
<1>2. /\ Index \in 0 .. Len(pending) - 1 /\ Index + 1 \in DOMAIN pending
      /\ Current = pending[Index + 1] /\ Current \in Children \ exited
      /\ at = "sleep" => Index = i
  BY <1>1, CurrentListed
<1> DEFINE n == Index + 1
           x == Current
<1>3. /\ pending \in Seq(Children) /\ Len(pending) \in Nat /\ Len(pending) <= N
      /\ DOMAIN pending = 1 .. Len(pending)
  BY DEF RealInv, TypeOK
<1>4. /\ n \in 1 .. Len(pending) /\ x = pending[n] /\ x \in Children /\ x \notin exited
      /\ task[x] = "zombie"
      /\ task' = [task EXCEPT ![x] = "gone"]
      /\ exited' = exited \cup {x}
      /\ pending' = RemoveAt(pending, n)
      /\ i' = n - 1
      /\ at = "sleep" => n = i + 1
  BY <1>2, <1>3 DEF Reaped
<1> HIDE DEF n, x
<1>5. /\ pending' \in Seq(Children)
      /\ Len(pending') = Len(pending) - 1
      /\ \A p \in 1 .. Len(pending) - 1 :
            pending'[p] = IF p < n THEN pending[p] ELSE pending[p + 1]
  BY <1>3, <1>4, RemoveAtProperties
<1>6. /\ \A p \in DOMAIN pending' :
            \E q \in DOMAIN pending \ {n} :
               pending'[p] = pending[q] /\ q = IF p < n THEN p ELSE p + 1
      /\ \A q \in DOMAIN pending \ {n} : \E p \in DOMAIN pending' : pending'[p] = pending[q]
  BY <1>3, <1>4, Remaining
<1>7. mode # "share"
  BY <1>1 DEF RealInv, Points
<1>8. TypeOK'
  BY <1>3, <1>4, <1>5 DEF RealInv, TypeOK, flags
<1>9. Points' /\ Forked' /\ Frozen' /\ Cleaned' /\ Shared'
  BY <1>7 DEF RealInv, Points, Forked, Frozen, Cleaned, Shared, Loop
<1>10. Listed'
  <2>1. \A p, q \in DOMAIN pending : pending[p] = pending[q] => p = q
    BY <1>1 DEF RealInv, Listed
  <2>2. ASSUME NEW p \in DOMAIN pending', NEW q \in DOMAIN pending',
               pending'[p] = pending'[q]
        PROVE  p = q
    <3>1. PICK v \in DOMAIN pending \ {n} :
             pending'[p] = pending[v] /\ v = IF p < n THEN p ELSE p + 1
      BY <1>6
    <3>2. PICK w \in DOMAIN pending \ {n} :
             pending'[q] = pending[w] /\ w = IF q < n THEN q ELSE q + 1
      BY <1>6
    <3>3. v = w
      BY <2>1, <2>2, <3>1, <3>2
    <3>4. p \in Nat /\ q \in Nat /\ n \in Nat
      BY <1>3, <1>4, <1>5
    <3> QED
      BY <3>1, <3>2, <3>3, <3>4
  <2>3. ASSUME NEW c \in Children
        PROVE  /\ c \in exited' <=> task'[c] = "gone"
               /\ alive'[c]
    BY <1>1, <1>4 DEF RealInv, TypeOK, Listed, flags
  <2>4. ASSUME NEW c \in Children
        PROVE  c \in exited' <=> \A p \in DOMAIN pending' : pending'[p] # c
    <3>1. c \in exited <=> \A p \in DOMAIN pending : pending[p] # c
      BY <1>1 DEF RealInv, Listed
    <3>2. (\E p \in DOMAIN pending' : pending'[p] = c)
             <=> (\E q \in DOMAIN pending \ {n} : pending[q] = c)
      BY <1>6
    <3> QED
      BY <1>3, <1>4, <2>1, <3>1, <3>2
  <2> QED
    BY <2>2, <2>3, <2>4 DEF Listed
<1>11. Sliced'
  <2>1. ASSUME NEW c \in Children \ exited'
        PROVE  stopped'[c] /\ task'[c] \in {"stopped", "zombie"}
    <3>1. c \in Children \ exited /\ c # x /\ task'[c] = task[c] /\ stopped' = stopped
      BY <1>4 DEF RealInv, TypeOK, flags
    <3>2. at = "sleep" => x = pending[i + 1]
      BY <1>4
    <3> QED
      BY <3>1, <3>2 DEF RealInv, Sliced
  <2>2. i' <= Len(pending')
    BY <1>3, <1>4, <1>5
  <2> QED
    BY <2>1, <2>2 DEF Sliced, Loop
<1> QED
  BY <1>8, <1>9, <1>10, <1>11 DEF RealInv

\* The steps of the loop that hand out slices.
LEMMA LoopKeeps ==
    ASSUME RealInv, LoopHead \/ Grant \/ Wake \/ Park
    PROVE  RealInv'
<1> USE RealProcessAssumption
<1>1. /\ at \in Loop /\ mode # "share"
      /\ pending # <<>>
      /\ pending \in Seq(Children) /\ Len(pending) \in Nat /\ Len(pending) <= N
  BY DEF LoopHead, Grant, Wake, Park, Loop, RealInv, TypeOK, Points, Sliced
<1>2. /\ Index \in 0 .. Len(pending) - 1 /\ Index + 1 \in DOMAIN pending
      /\ Current = pending[Index + 1] /\ Current \in Children \ exited
      /\ at # "head" => Index = i
      /\ task[Current] # "gone" /\ alive[Current]
  BY <1>1, CurrentListed DEF RealInv, Listed
<1>3. CASE LoopHead
  <2>1. CASE Reaped /\ UNCHANGED at
    BY <2>1, <1>1, <1>3, ReapedKeeps DEF LoopHead
  <2>2. CASE ~(Reaped /\ UNCHANGED at)
    <3>1. /\ at = "head" /\ at' = "grant" /\ i' = Index /\ Len(order) < MaxSlices
          /\ UNCHANGED <<mode, k, order, stopped, alive, groups, left, task, exited, pending>>
      BY <1>3, <2>2 DEF LoopHead, flags
    <3>2. TypeOK'
      BY <3>1, <1>1, <1>2 DEF RealInv, TypeOK
    <3>3. Points' /\ Forked' /\ Frozen' /\ Listed' /\ Cleaned' /\ Shared'
      BY <3>1, <1>1 DEF RealInv, Points, Forked, Frozen, Listed, Cleaned, Shared, Loop
    <3>4. Sliced'
      BY <3>1, <1>1, <1>2 DEF RealInv, Sliced, Loop
    <3> QED
      BY <3>2, <3>3, <3>4 DEF RealInv
  <2> QED
    BY <2>1, <2>2
<1>4. CASE Grant
  <2> DEFINE x == Current
  <2>1. /\ at = "grant" /\ at' = "sleep" /\ order' = Append(order, x)
        /\ UNCHANGED <<mode, k, pending, i, exited, groups, left>>
        /\ x \in Children /\ x \notin exited /\ x = pending[i + 1]
    BY <1>2, <1>4 DEF Grant
  <2>2. stopped[x] /\ task[x] \in {"stopped", "zombie"}
    BY <2>1 DEF RealInv, Sliced
  <2>3. /\ task' = IF task[x] = "stopped" THEN [task EXCEPT ![x] = "running"] ELSE task
        /\ stopped' = [stopped EXCEPT ![x] = FALSE]
        /\ alive' = alive
    BY <1>2, <1>4, <2>1, <2>2, Signals DEF Grant, RealInv
  <2> HIDE DEF x
  <2>4. TypeOK'
    <3>1. order' \in Seq(Children) /\ Len(order') <= MaxSlices
      BY <2>1 DEF RealInv, TypeOK, Sliced
    <3> QED
      BY <2>1, <2>3, <3>1 DEF RealInv, TypeOK
  <2>5. Points' /\ Forked' /\ Frozen' /\ Cleaned' /\ Shared'
    BY <2>1, <1>1 DEF RealInv, Points, Forked, Frozen, Cleaned, Shared, Loop
  <2>6. Listed'
    BY <2>1, <2>2, <2>3 DEF RealInv, TypeOK, Listed, Loop
  <2>7. Sliced'
    <3>1. ASSUME NEW c \in Children \ exited', c # x
          PROVE  stopped'[c] /\ task'[c] \in {"stopped", "zombie"}
      BY <2>1, <2>3, <3>1 DEF RealInv, TypeOK, Sliced
    <3>2. ~stopped'[x] /\ task'[x] \in {"running", "zombie"}
      BY <2>1, <2>2, <2>3 DEF RealInv, TypeOK
    <3>3. i' < Len(pending')
      BY <2>1 DEF RealInv, Sliced
    <3> QED
      BY <2>1, <3>1, <3>2, <3>3, <1>1 DEF RealInv, TypeOK, Sliced, Loop
  <2> QED
    BY <2>4, <2>5, <2>6, <2>7 DEF RealInv
<1>5. CASE Wake
  <2>1. CASE Reaped /\ at' = "head"
    BY <2>1, <1>1, <1>5, ReapedKeeps DEF Wake
  <2>2. CASE ~(Reaped /\ at' = "head")
    <3>1. /\ at = "sleep" /\ at' = "park"
          /\ UNCHANGED <<mode, k, order, stopped, alive, groups, left, task, exited,
                         pending, i>>
      BY <1>5, <2>2 DEF Wake, flags
    <3>2. TypeOK'
      BY <3>1 DEF RealInv, TypeOK
    <3>3. Points' /\ Forked' /\ Frozen' /\ Listed' /\ Cleaned' /\ Shared'
      BY <3>1, <1>1 DEF RealInv, Points, Forked, Frozen, Listed, Cleaned, Shared, Loop
    <3>4. Sliced'
      BY <3>1 DEF RealInv, Sliced, Loop
    <3> QED
      BY <3>2, <3>3, <3>4 DEF RealInv
  <2> QED
    BY <2>1, <2>2
<1>6. CASE Park
  <2> DEFINE x == Current
  <2>1. /\ at = "park" /\ at' = "head"
        /\ i' \in {i, i + 1}
        /\ UNCHANGED <<mode, k, pending, order, exited, groups, left>>
        /\ x \in Children /\ x \notin exited /\ x = pending[i + 1]
    BY <1>2, <1>6 DEF Park
  <2>2. ~stopped[x] /\ task[x] \in {"running", "zombie"}
    BY <2>1 DEF RealInv, Sliced
  <2>3. /\ task' = IF task[x] = "running" THEN [task EXCEPT ![x] = "stopped"] ELSE task
        /\ stopped' = [stopped EXCEPT ![x] = TRUE]
        /\ alive' = alive
    BY <1>2, <1>6, <2>1, <2>2, Signals DEF Park, RealInv
  <2> HIDE DEF x
  <2>4. i' \in 0 .. N /\ i' <= Len(pending')
    BY <2>1, <1>1 DEF RealInv, TypeOK, Sliced
  <2>5. TypeOK'
    BY <2>1, <2>3, <2>4 DEF RealInv, TypeOK
  <2>6. Points' /\ Forked' /\ Frozen' /\ Cleaned' /\ Shared'
    BY <2>1, <1>1 DEF RealInv, Points, Forked, Frozen, Cleaned, Shared, Loop
  <2>7. Listed'
    BY <2>1, <2>2, <2>3 DEF RealInv, TypeOK, Listed, Loop
  <2>8. ASSUME NEW c \in Children \ exited'
        PROVE  stopped'[c] /\ task'[c] \in {"stopped", "zombie"}
    BY <2>1, <2>2, <2>3 DEF RealInv, TypeOK, Sliced
  <2>9. Sliced'
    BY <2>1, <2>4, <2>8 DEF Sliced, Loop
  <2> QED
    BY <2>5, <2>6, <2>7, <2>9 DEF RealInv
<1> QED
  BY <1>3, <1>4, <1>5, <1>6

\* The end of either function, and of its try block.
LEMMA EndsKeep ==
    ASSUME RealInv, LoopEnds \/ Interrupt \/ Measure
    PROVE  RealInv'
<1> USE RealProcessAssumption
<1>1. /\ UNCHANGED <<mode, pending, i, order, exited, stopped, alive, groups, task, left>>
      /\ k' = 1
      /\ \/ at \in {"head", "sleep"} /\ at' = "clean"
         \/ at = "measure" /\ at' = "slay"
  BY DEF LoopEnds, Interrupt, Measure, RealInv, Shared, loopVars, flags
<1>2. TypeOK'
  BY <1>1 DEF RealInv, TypeOK
<1>3. Points' /\ Forked' /\ Frozen' /\ Listed' /\ Sliced'
  BY <1>1 DEF RealInv, Points, Forked, Frozen, Listed, Sliced, Loop, Children
<1>4. Shared'
  BY <1>1 DEF RealInv, Shared, Children
<1>5. Cleaned'
  BY <1>1 DEF RealInv, Cleaned, Listed, Sliced, Loop, Children
<1> QED
  BY <1>2, <1>3, <1>4, <1>5 DEF RealInv

\* The clean-up of rr_order().
LEMMA CleanKeeps ==
    ASSUME RealInv, Clean \/ Wait
    PROVE  RealInv'
<1> USE RealProcessAssumption
<1>1. at \in {"clean", "wait"} /\ k \in 1 .. N /\ mode # "share" /\ groups = {}
  BY DEF Clean, Wait, RealInv, Points, Children
<1>2. CASE Clean /\ k \notin exited
  <2>1. /\ at' = "wait" /\ k' = k
        /\ task' = IF task[k] \in {"running", "stopped"}
                   THEN [task EXCEPT ![k] = "zombie"] ELSE task
        /\ stopped' = [stopped EXCEPT ![k] = FALSE]
        /\ alive' = [alive EXCEPT ![k] = FALSE]
        /\ UNCHANGED <<mode, pending, i, order, exited, groups, left>>
    BY <1>2 DEF Clean, Kill, Turned, loopVars
  <2>2. TypeOK'
    BY <2>1, <1>1 DEF RealInv, TypeOK, Children
  <2>3. Points' /\ Forked' /\ Frozen' /\ Listed' /\ Sliced' /\ Shared'
    BY <2>1, <1>1 DEF RealInv, Points, Forked, Frozen, Listed, Sliced, Shared, Loop
  <2>4. Cleaned'
    BY <2>1, <1>1 DEF RealInv, TypeOK, Cleaned, Children
  <2> QED
    BY <2>2, <2>3, <2>4 DEF RealInv
<1>3. CASE Wait \/ (Clean /\ k \in exited)
  <2>1. /\ \/ k < N /\ k' = k + 1 /\ at' = "clean"
           \/ k = N /\ k' = 1 /\ at' = "over"
        /\ task' = [task EXCEPT ![k] = "gone"]
        /\ UNCHANGED <<mode, pending, i, order, exited, stopped, alive, groups, left>>
    BY <1>1, <1>3 DEF Clean, Wait, NextChild, RealInv, TypeOK, Cleaned, Children,
       loopVars, flags
  <2>2. TypeOK'
    BY <2>1, <1>1, SMTT(30) DEF RealInv, TypeOK, Children
  <2>3. Points' /\ Forked' /\ Frozen' /\ Listed' /\ Sliced'
    BY <2>1, <1>1 DEF RealInv, Points, Forked, Frozen, Listed, Sliced, Loop, Children
  <2>4. Cleaned' /\ Shared'
    BY <2>1, <1>1 DEF RealInv, TypeOK, Cleaned, Shared, Children
  <2> QED
    BY <2>2, <2>3, <2>4 DEF RealInv
<1> QED
  BY <1>2, <1>3

\* The clean-up of cpu_share().
LEMMA ShareKeeps ==
    ASSUME RealInv, Slay \/ Collect \/ RemoveGroup
    PROVE  RealInv'
<1> USE RealProcessAssumption
<1>1. /\ mode = "share" /\ k \in 1 .. N
      /\ k' \in Children
      /\ UNCHANGED <<mode, pending, i, order, exited, stopped, alive, left>>
  BY DEF Slay, Collect, RemoveGroup, NextChild, RealInv, Points, Children, loopVars, flags
<1>2. CASE Slay
  <2>1. /\ at = "slay"
        /\ \/ k < N /\ k' = k + 1 /\ at' = "slay"
           \/ k = N /\ k' = 1 /\ at' = "collect"
        /\ task' = IF task[k] \in {"running", "stopped"}
                   THEN [task EXCEPT ![k] = "zombie"] ELSE task
        /\ groups' = groups
    BY <1>1, <1>2 DEF Slay, NextChild, Turned
  <2>2. TypeOK'
    <3>1. task' \in [Children -> {"unborn", "running", "stopped", "zombie", "gone"}]
      BY <2>1 DEF RealInv, TypeOK
    <3>2. /\ at' \in {"slay", "collect"} /\ k' \in 1 .. N + 1
          /\ UNCHANGED <<mode, pending, i, order, exited, stopped, alive, groups, left>>
      BY <2>1, <1>1 DEF Children
    <3> QED
      BY <3>1, <3>2 DEF RealInv, TypeOK
  <2>3. Points' /\ Forked' /\ Frozen' /\ Listed' /\ Sliced' /\ Cleaned'
    BY <2>1, <1>1 DEF RealInv, Points, Forked, Frozen, Listed, Sliced, Cleaned, Loop
  <2>4. Shared'
    BY <2>1, <1>1 DEF RealInv, TypeOK, Shared, Children
  <2> QED
    BY <2>2, <2>3, <2>4 DEF RealInv
<1>3. CASE Collect
  <2>1. /\ at = "collect"
        /\ \/ k < N /\ k' = k + 1 /\ at' = "collect"
           \/ k = N /\ k' = 1 /\ at' = "remove"
        /\ task' = IF task[k] = "zombie" THEN [task EXCEPT ![k] = "gone"] ELSE task
        /\ groups' = groups
        /\ task[k] \in {"unborn", "zombie"}
    BY <1>1, <1>3 DEF Collect, NextChild, Turned
  <2>2. TypeOK'
    BY <2>1, <1>1, SMTT(30) DEF RealInv, TypeOK, Children
  <2>3. Points' /\ Forked' /\ Frozen' /\ Listed' /\ Sliced' /\ Cleaned'
    BY <2>1, <1>1 DEF RealInv, Points, Forked, Frozen, Listed, Sliced, Cleaned, Loop
  <2>4. Shared'
    BY <2>1, <1>1 DEF RealInv, TypeOK, Shared, Children
  <2> QED
    BY <2>2, <2>3, <2>4 DEF RealInv
<1>4. CASE RemoveGroup
  <2>1. /\ at = "remove"
        /\ \/ k < N /\ k' = k + 1 /\ at' = "remove"
           \/ k = N /\ k' = 1 /\ at' = "over"
        /\ task' = task
    BY <1>1, <1>4 DEF RemoveGroup, NextChild
  <2>2. groups' = groups \ {k}
    BY <2>1, <1>1, <1>4 DEF RemoveGroup, Rmdir, RealInv, Shared, Children
  <2>3. TypeOK'
    BY <2>1, <2>2, <1>1 DEF RealInv, TypeOK, Children
  <2>4. Points' /\ Forked' /\ Frozen' /\ Listed' /\ Sliced' /\ Cleaned'
    BY <2>1, <2>2, <1>1 DEF RealInv, Points, Forked, Frozen, Listed, Sliced, Cleaned, Loop
  <2>5. Shared'
    BY <2>1, <2>2, <1>1 DEF RealInv, TypeOK, Shared, Children
  <2> QED
    BY <2>3, <2>4, <2>5 DEF RealInv
<1> QED
  BY <1>2, <1>3, <1>4

-----------------------------------------------------------------------------
\* RealInv is inductive.
LEMMA RealStep == RealInv /\ [Next]_vars => RealInv'
<1> SUFFICES ASSUME RealInv, [Next]_vars PROVE RealInv'
  OBVIOUS
<1>1. CASE Next
  BY <1>1, ChildKeeps, ForkKeeps, FreezeKeeps, LoopKeeps, EndsKeep, CleanKeeps, ShareKeeps
  DEF Next, Parent
<1>2. CASE UNCHANGED vars
  <2>1. UNCHANGED <<mode, at, k, pending, i, order, exited, stopped, alive, groups, task, left>>
    BY <1>2 DEF vars, loopVars, flags
  <2>2. TypeOK'
    BY <2>1 DEF RealInv, TypeOK
  <2>3. Points' /\ Forked' /\ Frozen' /\ Listed' /\ Sliced' /\ Cleaned' /\ Shared'
    BY <2>1 DEF RealInv, Points, Forked, Frozen, Listed, Sliced, Cleaned, Shared
  <2> QED
    BY <2>2, <2>3 DEF RealInv
<1> QED
  BY <1>1, <1>2

\* The invariant of rr_order() and cpu_share() holds at all their points.
LEMMA RealInvariant == Spec => []RealInv
<1> QED
  BY RealInit, RealStep, PTL DEF Spec

\* All state of rr_order() and cpu_share() keeps to its domain; above all the
\* index, which only the next round's modulo brings back into the list.
THEOREM RealTypeCorrect == Spec => []TypeOK
<1>1. RealInv => TypeOK
  BY DEF RealInv
<1> QED
  BY <1>1, RealInvariant, PTL

\* Preemption is real for any number of children: outside its slice none runs.
THEOREM OneChildAtATime == Spec => []OneAtATime
<1>1. RealInv => OneAtATime
  <2> SUFFICES ASSUME RealInv PROVE OneAtATime
    OBVIOUS
  <2>1. at \in {"head", "grant"} => Running = {}
    BY DEF RealInv, Listed, Sliced, Running, Loop
  <2>2. ASSUME at \in {"sleep", "park"}
        PROVE  Running \subseteq {Current}
    <3>1. at \in Loop /\ pending # <<>>
      BY <2>2 DEF Loop, RealInv, TypeOK, Sliced
    <3>2. Current = pending[i + 1]
      BY <2>2, <3>1, CurrentListed
    <3> QED
      BY <2>2, <3>1, <3>2 DEF RealInv, Listed, Sliced, Running
  <2> QED
    BY <2>1, <2>2 DEF OneAtATime
<1> QED
  BY <1>1, RealInvariant, PTL

\* No signal ever goes to a PID that waitpid() has given back.
THEOREM SignalsReachChildren == Spec => []SignalsOnlyChildren
<1>1. RealInv => SignalsOnlyChildren
  <2> SUFFICES ASSUME RealInv PROVE SignalsOnlyChildren
    OBVIOUS
  <2>1. ASSUME at \in {"grant", "sleep", "park"} PROVE task[Current] # "gone"
    <3>1. at \in Loop /\ pending # <<>>
      BY <2>1 DEF Loop, RealInv, TypeOK, Sliced
    <3> QED
      BY <3>1, CurrentListed
  <2>2. at \in {"freeze", "slay"} => task[k] # "gone"
    BY DEF RealInv, Points, Frozen, Shared
  <2>3. at = "clean" => k \in exited \/ task[k] # "gone"
    BY RealProcessAssumption DEF RealInv, Points, Cleaned, Children
  <2> QED
    BY <2>1, <2>2, <2>3 DEF SignalsOnlyChildren
<1> QED
  BY <1>1, RealInvariant, PTL

\* However the call ends, every child is reaped and every group removed.
THEOREM NoChildLeft == Spec => []NothingLeft
<1>1. RealInv => NothingLeft
  BY DEF RealInv, Forked, Shared, NothingLeft
<1> QED
  BY <1>1, RealInvariant, PTL

-----------------------------------------------------------------------------
(***************************************************************************)
(* The order of the slices.                                                *)
(***************************************************************************)
\* How often a value occurs, and how many do: with one more at the end.
LEMMA OneMore ==
    ASSUME NEW S, NEW s \in Seq(S), NEW x \in S
    PROVE  LET count(t, c) == Cardinality({j \in DOMAIN t : t[j] = c})
               t == Append(s, x)
           IN  /\ \A c \in S : count(s, c) \in Nat
               /\ \A c \in S : count(t, c) = count(s, c) + (IF c = x THEN 1 ELSE 0)
               /\ ToSet(t) = ToSet(s) \cup {x}
<1> DEFINE at1(t, c) == {j \in DOMAIN t : t[j] = c}
           t == Append(s, x)
           n == Len(s) + 1
<1>1. /\ Len(s) \in Nat /\ DOMAIN s = 1 .. Len(s)
      /\ DOMAIN t = 1 .. n /\ t[n] = x
      /\ \A j \in DOMAIN s : t[j] = s[j]
  OBVIOUS
<1> HIDE DEF t
<1>2. IsFiniteSet(DOMAIN s)
  BY <1>1, FS_Interval
<1>3. ASSUME NEW c \in S
      PROVE  /\ Cardinality(at1(s, c)) \in Nat
             /\ Cardinality(at1(t, c))
                  = Cardinality(at1(s, c)) + (IF c = x THEN 1 ELSE 0)
  <2> DEFINE before == at1(s, c)
             after == at1(t, c)
  <2>1. IsFiniteSet(before)
    BY <1>2, FS_Subset
  <2>2. after = IF c = x THEN before \cup {n} ELSE before
    BY <1>1
  <2>3. n \notin before
    BY <1>1
  <2> HIDE DEF before, after
  <2>4. Cardinality(before) \in Nat
    BY <2>1, FS_CardinalityType
  <2>5. Cardinality(after) = Cardinality(before) + (IF c = x THEN 1 ELSE 0)
    <3>1. Cardinality(before \cup {n}) = Cardinality(before) + 1
      BY <2>1, <2>3, FS_AddElement
    <3> QED
      BY <2>2, <2>4, <3>1
  <2> QED
    BY <2>4, <2>5 DEF before, after
<1>4. ToSet(t) = ToSet(s) \cup {x}
  BY <1>1 DEF ToSet
<1> QED
  BY <1>3, <1>4 DEF t

\* A slice more is a block more, unless it goes to the child that ran last.
LEMMA BlockCountGrows ==
    ASSUME NEW S, NEW s \in Seq(S), NEW x \in S
    PROVE  /\ BlockCount(s) \in Nat
           /\ s # <<>> /\ s[Len(s)] = x => BlockCount(Append(s, x)) = BlockCount(s)
           /\ x \notin ToSet(s) => BlockCount(Append(s, x)) = BlockCount(s) + 1
<1> DEFINE seams(t) == {j \in 1 .. Len(t) - 1 : t[j] # t[j + 1]}
           t == Append(s, x)
           n == Len(s)
<1>1. /\ n \in Nat /\ DOMAIN s = 1 .. n
      /\ Len(t) = n + 1 /\ t[n + 1] = x /\ t # <<>>
      /\ \A j \in 1 .. n : t[j] = s[j]
      /\ s = <<>> <=> n = 0
  OBVIOUS
<1> HIDE DEF t
<1>2. IsFiniteSet(seams(s)) /\ Cardinality(seams(s)) \in Nat
  <2>1. IsFiniteSet(1 .. n - 1)
    BY <1>1, FS_Interval
  <2> QED
    BY <2>1, FS_Subset, FS_CardinalityType
<1>3. /\ BlockCount(t) = 1 + Cardinality(seams(t))
      /\ s # <<>> => BlockCount(s) = 1 + Cardinality(seams(s))
      /\ s = <<>> => BlockCount(s) = 0
  BY <1>1 DEF BlockCount
<1>4. /\ s = <<>> => seams(t) = {}
      /\ s # <<>> => seams(t) = IF s[n] = x THEN seams(s) ELSE seams(s) \cup {n}
      /\ n \notin seams(s)
  BY <1>1
<1>5. s # <<>> => s[n] \in ToSet(s)
  BY <1>1 DEF ToSet
<1> DEFINE before == seams(s)
           after == seams(t)
<1> HIDE DEF before, after
<1>6. /\ s = <<>> => Cardinality(after) = 0
      /\ s # <<>> => Cardinality(after) = Cardinality(before) + (IF s[n] = x THEN 0 ELSE 1)
  <2>1. IsFiniteSet(before) /\ Cardinality(before) \in Nat
    BY <1>2 DEF before
  <2>2. /\ s = <<>> => after = {}
        /\ s # <<>> => after = IF s[n] = x THEN before ELSE before \cup {n}
        /\ n \notin before
    BY <1>4 DEF before, after
  <2> QED
    <3>1. Cardinality(before \cup {n}) = Cardinality(before) + 1
      BY <2>1, <2>2, FS_AddElement
    <3>2. s = <<>> => Cardinality(after) = 0
      BY <2>2, FS_EmptySet
    <3>3. CASE s # <<>> /\ s[n] = x
      BY <2>1, <2>2, <3>3
    <3>4. CASE s # <<>> /\ s[n] # x
      BY <2>1, <2>2, <3>1, <3>4
    <3> QED
      BY <3>2, <3>3, <3>4
<1>7. /\ Cardinality(before) \in Nat
      /\ BlockCount(t) = 1 + Cardinality(after)
      /\ BlockCount(s) = IF s = <<>> THEN 0 ELSE 1 + Cardinality(before)
  BY <1>2, <1>3 DEF before, after
<1> QED
  BY <1>5, <1>6, <1>7 DEF t

\* The slices of a child are counted.
LEMMA TurnsCounted ==
    ASSUME TypeOK
    PROVE  /\ \A c \in Children : Turns(c) \in Nat
           /\ order = <<>> => \A c \in Children : Turns(c) = 0
           /\ \A x \in Children :
                 order' = Append(order, x) =>
                    \A c \in Children : Turns(c)' = Turns(c) + (IF c = x THEN 1 ELSE 0)
           /\ order' = order => \A c : Turns(c)' = Turns(c)
<1>1. order \in Seq(Children) /\ 1 \in Children
  BY RealProcessAssumption DEF TypeOK, Children
<1>2. \A c \in Children : Turns(c) \in Nat
  BY <1>1, OneMore DEF Turns
<1>3. ASSUME order = <<>>, NEW c \in Children PROVE Turns(c) = 0
  <2>1. {j \in DOMAIN order : order[j] = c} = {}
    BY <1>3
  <2> QED
    BY <2>1, FS_EmptySet DEF Turns
<1>4. ASSUME NEW x \in Children, order' = Append(order, x), NEW c \in Children
      PROVE  Turns(c)' = Turns(c) + (IF c = x THEN 1 ELSE 0)
  BY <1>1, <1>4, OneMore DEF Turns
<1>5. ASSUME order' = order, NEW c PROVE Turns(c)' = Turns(c)
  BY <1>5 DEF Turns
<1> QED
  BY <1>2, <1>3, <1>4, <1>5

\* Before the first slice nobody had a turn.
LEMMA NoTurnsYet ==
    ASSUME RealInv', order' = <<>>, i' = 0, at' \notin {"sleep", "park"}
    PROVE  TurnInv'
<1>1. TypeOK'
  BY DEF RealInv
<1>2. (\A c \in Children : Turns(c) = 0)'
  <2>1. ASSUME NEW c \in Children PROVE Turns(c)' = 0
    <3>1. {j \in DOMAIN order' : order'[j] = c} = {}
      BY <1>1
    <3> QED
      BY <3>1, FS_EmptySet DEF Turns
  <2> QED
    BY <2>1
<1>3. Rotation'
  <2>1. /\ pending' \in Seq(Children) /\ Served' = 0
        /\ \A p \in DOMAIN pending' : p > 0 /\ pending'[p] \in Children
        /\ ToSet(pending)' \subseteq Children
    BY <1>1 DEF TypeOK, Served, ToSet
  <2> QED
    BY <1>2, <2>1 DEF Rotation
<1>4. Succession'
  <2>1. ToSet(order)' = {} /\ BlockCount(order)' = 0
    BY DEF ToSet, BlockCount
  <2> QED
    BY <2>1, FS_EmptySet DEF Succession
<1> QED
  BY <1>3, <1>4 DEF TurnInv

\* Whoever is reaped leaves places and turns of the others as they are.
LEMMA ReapedTurns ==
    ASSUME RealInv, TurnInv, at \in {"head", "sleep"}, pending # <<>>,
           Reaped, at' = "head", UNCHANGED <<mode, order>>
    PROVE  TurnInv'
<1> DEFINE n == Index + 1
<1>1. at \in Loop
  BY DEF Loop
<1>2. /\ Index \in 0 .. Len(pending) - 1
      /\ i = Len(pending) => Index = 0
      /\ i # Len(pending) => Index = i
      /\ at = "sleep" => Index = i
  BY <1>1, CurrentListed
<1>3. /\ pending \in Seq(Children) /\ Len(pending) \in Nat
      /\ DOMAIN pending = 1 .. Len(pending)
      /\ i \in Nat /\ i <= Len(pending)
      /\ \A p \in DOMAIN pending : pending[p] \in Children
  BY <1>1 DEF RealInv, TypeOK, Sliced
<1>4. /\ n \in 1 .. Len(pending)
      /\ pending' = RemoveAt(pending, n)
      /\ i' = n - 1
      /\ i = Len(pending) => at = "sleep" \/ n = 1
      /\ i # Len(pending) \/ at = "sleep" => n = i + 1
  <2>1. pending' = RemoveAt(pending, n) /\ i' = Index
    BY DEF Reaped
  <2>2. Len(pending) \in Nat
    BY <1>3
  <2>3. n \in 1 .. Len(pending) /\ n - 1 = Index
    BY <1>2, <2>2
  <2>4. /\ i = Len(pending) => at = "sleep" \/ n = 1
        /\ i # Len(pending) \/ at = "sleep" => n = i + 1
    BY <1>2
  <2> QED
    BY <2>1, <2>3, <2>4
<1> HIDE DEF n
<1>5. \A p \in DOMAIN pending' :
         \E q \in DOMAIN pending \ {n} :
            pending'[p] = pending[q] /\ q = IF p < n THEN p ELSE p + 1
  <2>1. pending \in Seq(Children)
    BY <1>3
  <2>2. n \in 1 .. Len(pending) /\ pending' = RemoveAt(pending, n)
    BY <1>4
  <2> QED
    BY <2>1, <2>2, Remaining
<1>6. DOMAIN pending' \subseteq Nat
  <2>1. pending' \in Seq(Children)
    BY <1>3, <1>4, RemoveAtProperties
  <2> QED
    BY <2>1
<1>7. \A c : Turns(c)' = Turns(c)
  BY TurnsCounted DEF RealInv
<1>8. \A c \in Children : Turns(c) \in Nat
  BY TurnsCounted DEF RealInv
<1>9. ASSUME mode' = "rr"
      PROVE  Rotation'
  <2>1. Served = (IF at = "sleep" THEN n ELSE i) /\ Served' = n - 1
    BY <1>4 DEF Served
  <2>2. \A p, q \in DOMAIN pending :
            Turns(pending[p]) + (IF p <= Served THEN 0 ELSE 1)
              = Turns(pending[q]) + (IF q <= Served THEN 0 ELSE 1)
    BY <1>1, <1>9 DEF TurnInv, Rotation
  <2>3. ASSUME NEW p \in DOMAIN pending', NEW q \in DOMAIN pending'
        PROVE  Turns(pending'[p]) + (IF p <= n - 1 THEN 0 ELSE 1)
                 = Turns(pending'[q]) + (IF q <= n - 1 THEN 0 ELSE 1)
    <3>1. PICK v \in DOMAIN pending \ {n} :
             pending'[p] = pending[v] /\ v = IF p < n THEN p ELSE p + 1
      BY <1>5
    <3>2. PICK w \in DOMAIN pending \ {n} :
             pending'[q] = pending[w] /\ w = IF q < n THEN q ELSE q + 1
      BY <1>5
    <3>3. /\ p \in Nat /\ q \in Nat /\ n \in Nat /\ v \in Nat /\ w \in Nat
          /\ v <= Len(pending) /\ w <= Len(pending)
      <4>1. Len(pending) \in Nat /\ DOMAIN pending = 1 .. Len(pending)
        BY <1>3
      <4>2. n \in 1 .. Len(pending)
        BY <1>4
      <4> QED
        BY <1>6, <4>1, <4>2
    <3>4. /\ Turns(pending[v]) \in Nat /\ Turns(pending[w]) \in Nat
          /\ Turns(pending[v]) + (IF v <= Served THEN 0 ELSE 1)
               = Turns(pending[w]) + (IF w <= Served THEN 0 ELSE 1)
      BY <1>3, <1>8, <2>2
    <3>5. CASE at = "head" /\ i = Len(pending)
      <4>1. n = 1 /\ v <= Served /\ w <= Served /\ p >= 1 /\ q >= 1
        BY <1>3, <1>4, <2>1, <3>1, <3>2, <3>3, <3>5
      <4> QED
        BY <3>1, <3>2, <3>3, <3>4, <4>1
    <3>6. CASE ~(at = "head" /\ i = Len(pending))
      <4>1. n = i + 1 /\ i \in Nat
        BY <1>3, <1>4, <3>6
      <4>3. Served = n - 1 \/ Served = n
        BY <2>1, <4>1
      <4>2. (v <= Served <=> p <= n - 1) /\ (w <= Served <=> q <= n - 1)
        BY <3>1, <3>2, <3>3, <4>1, <4>3
      <4> QED
        BY <3>1, <3>2, <3>4, <4>2
    <3> QED
      BY <3>5, <3>6
  <2> QED
    BY <1>7, <2>1, <2>3 DEF Rotation, Loop
<1>10. ASSUME mode' = "fcfs"
       PROVE  Succession'
  <2>1. /\ i = 0 /\ BlockCount(order) = Cardinality(ToSet(order))
        /\ \A p \in DOMAIN pending :
              pending[p] \in ToSet(order) => p = 1 /\ order[Len(order)] = pending[1]
    BY <1>1, <1>10 DEF TurnInv, Succession
  <2>2. n = 1 /\ i' = 0
    BY <1>3, <1>4, <2>1
  <2>3. ASSUME NEW p \in DOMAIN pending' PROVE pending'[p] \notin ToSet(order)
    <3>1. PICK v \in DOMAIN pending \ {n} : pending'[p] = pending[v]
      BY <1>5
    <3> QED
      BY <2>1, <2>2, <3>1
  <2> QED
    BY <2>1, <2>2, <2>3 DEF Succession
<1> QED
  BY <1>9, <1>10 DEF TurnInv

\* The slice of a child: in rotation its place joins those that were served;
\* otherwise it is the first of the list, and a new block only when it is new.
LEMMA GrantTurns ==
    ASSUME RealInv, TurnInv, Grant
    PROVE  TurnInv'
<1>1. at = "grant" /\ at' = "sleep" /\ at \in Loop /\ pending # <<>>
  BY DEF Grant, Loop, RealInv, TypeOK, Sliced
<1> DEFINE x == Current
<1>2. x = pending[i + 1] /\ i + 1 \in DOMAIN pending /\ x \in Children
  BY <1>1, CurrentListed
<1>3. /\ order' = Append(order, x)
      /\ UNCHANGED <<mode, pending, i>>
      /\ pending \in Seq(Children) /\ Len(pending) \in Nat /\ i \in Nat
      /\ DOMAIN pending = 1 .. Len(pending)
      /\ order \in Seq(Children) /\ Len(order) \in Nat
      /\ \A p \in DOMAIN pending : pending[p] \in Children
      /\ \A p, q \in DOMAIN pending : pending[p] = pending[q] => p = q
  BY <1>1 DEF Grant, RealInv, TypeOK, Listed
<1> HIDE DEF x
<1>4. /\ \A c \in Children : Turns(c)' = Turns(c) + (IF c = x THEN 1 ELSE 0)
      /\ \A c \in Children : Turns(c) \in Nat
  BY <1>2, <1>3, TurnsCounted DEF RealInv
<1>5. ASSUME mode' = "rr"
      PROVE  Rotation'
  <2>1. Served = i /\ Served' = i + 1
    BY <1>1, <1>3 DEF Served
  <2>2. ASSUME NEW p \in DOMAIN pending
        PROVE  Turns(pending[p])' + (IF p <= i + 1 THEN 0 ELSE 1)
                 = Turns(pending[p]) + (IF p <= i THEN 0 ELSE 1)
    <3>1. CASE p = i + 1
      BY <1>2, <1>3, <1>4, <3>1
    <3>2. CASE p # i + 1
      <4>1. pending[p] # x /\ (p <= i + 1 <=> p <= i)
        BY <1>2, <1>3, <3>2
      <4>2. Turns(pending[p])' = Turns(pending[p])
        BY <1>3, <1>4, <4>1
      <4> QED
        BY <4>1, <4>2
    <3> QED
      BY <3>1, <3>2
  <2>3. \A p, q \in DOMAIN pending :
            Turns(pending[p]) + (IF p <= i THEN 0 ELSE 1)
              = Turns(pending[q]) + (IF q <= i THEN 0 ELSE 1)
    BY <1>1, <1>3, <1>5, <2>1 DEF TurnInv, Rotation
  <2>4. \A p, q \in DOMAIN pending :
            Turns(pending[p])' + (IF p <= i + 1 THEN 0 ELSE 1)
              = Turns(pending[q])' + (IF q <= i + 1 THEN 0 ELSE 1)
    BY <2>2, <2>3
  <2> QED
    BY <1>1, <1>3, <2>1, <2>4 DEF Rotation, Loop
<1>6. ASSUME mode' = "fcfs"
      PROVE  Succession'
  <2>1. /\ i = 0 /\ BlockCount(order) = Cardinality(ToSet(order))
        /\ \A p \in DOMAIN pending :
              pending[p] \in ToSet(order) => p = 1 /\ order[Len(order)] = pending[1]
    BY <1>1, <1>3, <1>6 DEF TurnInv, Succession
  <2>2. /\ ToSet(order') = ToSet(order) \cup {x}
        /\ order'[Len(order')] = x /\ x = pending[1] /\ 1 \in DOMAIN pending
    BY <1>2, <1>3, <2>1, OneMore
  <2>3. BlockCount(order') = Cardinality(ToSet(order'))
    <3>1. CASE x \in ToSet(order)
      <4>1. order[Len(order)] = x /\ ToSet(order') = ToSet(order)
        BY <2>1, <2>2, <3>1
      <4>2. order # <<>>
        BY <3>1 DEF ToSet
      <4> QED
        BY <1>2, <1>3, <2>1, <4>1, <4>2, BlockCountGrows
    <3>2. CASE x \notin ToSet(order)
      <4>1. IsFiniteSet(ToSet(order))
        <5>1. ToSet(order) \subseteq Children
          BY <1>3 DEF ToSet
        <5>2. IsFiniteSet(Children)
          BY FS_Interval, RealProcessAssumption DEF Children
        <5> QED
          BY <5>1, <5>2, FS_Subset
      <4>2. Cardinality(ToSet(order) \cup {x}) = Cardinality(ToSet(order)) + 1
        BY <3>2, <4>1, FS_AddElement
      <4> QED
        <5>1. BlockCount(order') = BlockCount(order) + 1
          BY <1>2, <1>3, <3>2, BlockCountGrows
        <5> QED
          BY <2>1, <2>2, <4>2, <5>1
    <3> QED
      BY <3>1, <3>2
  <2>4. ASSUME NEW p \in DOMAIN pending, pending[p] \in ToSet(order')
        PROVE  p = 1
    BY <1>3, <2>1, <2>2, <2>4
  <2> QED
    BY <1>3, <2>1, <2>2, <2>3, <2>4 DEF Succession
<1> QED
  BY <1>1, <1>5, <1>6 DEF TurnInv

\* In the loop the list is in step, so it is when the loop ends.
LEMMA RotationFair ==
    ASSUME RealInv, Rotation
    PROVE  \A c, d \in ToSet(pending) : Turns(c) <= Turns(d) + 1
<1>1. CASE at \in Loop
  <2>1. /\ \A p \in DOMAIN pending : pending[p] \in Children
        /\ \A c \in Children : Turns(c) \in Nat
    BY TurnsCounted DEF RealInv, TypeOK
  <2>2. \A p, q \in DOMAIN pending :
            Turns(pending[p]) + (IF p <= Served THEN 0 ELSE 1)
              = Turns(pending[q]) + (IF q <= Served THEN 0 ELSE 1)
    BY <1>1 DEF Rotation
  <2>3. \A p, q \in DOMAIN pending : Turns(pending[p]) <= Turns(pending[q]) + 1
    BY <2>1, <2>2
  <2> QED
    BY <2>3 DEF ToSet
<1>2. CASE at \notin Loop
  BY <1>2 DEF Rotation
<1> QED
  BY <1>1, <1>2

\* The order of the slices is the policy's: the invariant behind it.
LEMMA TurnStep == RealInv /\ RealInv' /\ TurnInv /\ [Next]_vars => TurnInv'
<1> SUFFICES ASSUME RealInv, RealInv', TurnInv, [Next]_vars PROVE TurnInv'
  OBVIOUS
<1>1. CASE Fork \/ ForkFails \/ Freeze
  <2>1. order' = <<>> /\ i' = 0 /\ at' \notin {"sleep", "park"}
    BY <1>1 DEF Fork, ForkFails, Freeze, NextChild, RealInv, Forked, Frozen, loopVars
  <2> QED
    BY <2>1, NoTurnsYet
<1>2. CASE LoopHead \/ Wake
  <2>1. /\ at \in {"head", "sleep"} /\ at \in Loop /\ pending # <<>>
        /\ UNCHANGED <<mode, order>>
    BY <1>2 DEF LoopHead, Wake, RealInv, TypeOK, Sliced, Loop
  <2>2. CASE Reaped /\ at' = "head"
    BY <2>1, <2>2, ReapedTurns
  <2>3. CASE ~(Reaped /\ at' = "head")
    <3>1. /\ \/ at = "head" /\ at' = "grant" /\ i' = Index
             \/ at = "sleep" /\ at' = "park" /\ i' = i
          /\ UNCHANGED pending
      BY <1>2, <2>3 DEF LoopHead, Wake
    <3>2. i' = (IF at = "head" /\ i = Len(pending) THEN 0 ELSE i) /\ Len(pending) \in Nat
      <4>1. /\ Index = (IF i = Len(pending) THEN 0 ELSE i)
            /\ at # "head" => Index = i
        BY <2>1, CurrentListed
      <4>2. Len(pending) \in Nat
        BY DEF RealInv, TypeOK
      <4> QED
        BY <3>1, <4>1, <4>2
    <3>3. \A c : Turns(c)' = Turns(c)
      BY <2>1, TurnsCounted DEF RealInv
    <3>4. ASSUME mode = "rr" PROVE Rotation'
      <4>1. \A p, q \in DOMAIN pending :
                Turns(pending[p]) + (IF p <= Served THEN 0 ELSE 1)
                  = Turns(pending[q]) + (IF q <= Served THEN 0 ELSE 1)
        BY <2>1, <3>4 DEF TurnInv, Rotation
      <4>2. at' \in Loop
        BY <3>1 DEF Loop
      <4>3. CASE at = "head" /\ i = Len(pending)
        <5>1. Served = Len(pending) /\ Served' = 0
          BY <3>1, <3>2, <4>3 DEF Served
        <5>2. \A p \in DOMAIN pending : p \in Nat /\ p >= 1 /\ p <= Len(pending)
          BY DEF RealInv, TypeOK
        <5>3. \A p, q \in DOMAIN pending :
                 Turns(pending[p]) + (IF p <= 0 THEN 0 ELSE 1)
                   = Turns(pending[q]) + (IF q <= 0 THEN 0 ELSE 1)
          <6>1. \A p \in DOMAIN pending : Turns(pending[p]) \in Nat
            <7>1. \A p \in DOMAIN pending : pending[p] \in Children
              BY DEF RealInv, TypeOK
            <7> QED
              BY <7>1, TurnsCounted DEF RealInv
          <6> QED
            BY <4>1, <5>1, <5>2, <6>1
        <5> QED
          BY <3>1, <3>3, <4>2, <5>1, <5>3 DEF Rotation
      <4>4. CASE ~(at = "head" /\ i = Len(pending))
        <5>1. Served' = Served
          BY <3>1, <3>2, <4>4 DEF Served
        <5> QED
          BY <3>1, <3>3, <4>1, <4>2, <5>1 DEF Rotation
      <4> QED
        BY <4>3, <4>4
    <3>5. ASSUME mode = "fcfs" PROVE Succession'
      <4>1. i = 0 /\ i' = 0
        BY <3>2, <3>5 DEF TurnInv, Succession
      <4> QED
        BY <2>1, <3>1, <3>5, <4>1 DEF TurnInv, Succession
    <3> QED
      BY <2>1, <3>1, <3>4, <3>5 DEF TurnInv
  <2> QED
    BY <2>2, <2>3
<1>3. CASE Grant
  BY <1>3, GrantTurns
<1>4. CASE Park
  <2>1. /\ at = "park" /\ at' = "head" /\ at \in Loop /\ at' \in Loop
        /\ i' = (IF mode = "rr" THEN i + 1 ELSE i)
        /\ UNCHANGED <<mode, pending, order>>
    BY <1>4 DEF Park, Loop
  <2>2. \A c : Turns(c)' = Turns(c)
    BY <2>1, TurnsCounted DEF RealInv
  <2>3. ASSUME mode = "rr" PROVE Rotation'
    <3>1. Served = i + 1 /\ Served' = i + 1
      BY <2>1, <2>3 DEF Served
    <3> QED
      BY <2>1, <2>2, <2>3, <3>1 DEF TurnInv, Rotation
  <2>4. ASSUME mode = "fcfs" PROVE Succession'
    BY <2>1, <2>4 DEF TurnInv, Succession
  <2> QED
    BY <2>1, <2>3, <2>4 DEF TurnInv
<1>5. CASE LoopEnds \/ Interrupt \/ Clean \/ Wait \/ Measure \/ Slay \/ Collect \/ RemoveGroup
  <2>1. /\ at' \notin Loop /\ at' # "freeze"
        /\ UNCHANGED <<mode, pending, i, order>>
    BY <1>5 DEF LoopEnds, Interrupt, Clean, Wait, Measure, Slay, Collect, RemoveGroup,
       NextChild, Loop, loopVars
  <2>2. \A c : Turns(c)' = Turns(c)
    BY <2>1, TurnsCounted DEF RealInv
  <2>3. ASSUME mode = "rr" PROVE Rotation'
    <3>1. \A c, d \in ToSet(pending) : Turns(c) <= Turns(d) + 1
      BY <2>3, RotationFair DEF TurnInv
    <3> QED
      BY <2>1, <2>2, <3>1 DEF Rotation, ToSet
  <2>4. ASSUME mode = "fcfs" PROVE Succession'
    BY <2>1, <2>4 DEF TurnInv, Succession
  <2> QED
    BY <2>1, <2>3, <2>4 DEF TurnInv
<1>6. CASE (\E c \in Children : Child(c)) \/ UNCHANGED vars
  <2>1. UNCHANGED <<mode, at, pending, i, order>>
    BY <1>6 DEF Child, Work, Exit, Crash, vars, loopVars
  <2>2. \A c : Turns(c)' = Turns(c)
    BY <2>1, TurnsCounted DEF RealInv
  <2>3. mode = "rr" => Rotation'
    BY <2>1, <2>2 DEF TurnInv, Rotation, Served, ToSet
  <2>4. mode = "fcfs" => Succession'
    BY <2>1 DEF TurnInv, Succession
  <2> QED
    BY <2>1, <2>3, <2>4 DEF TurnInv
<1> QED
  BY <1>1, <1>2, <1>3, <1>4, <1>5, <1>6 DEF Next, Parent

\* The recorded order is the policy's, for any number of children: in rotation
\* none is more than a slice ahead, one after another each has one block.
THEOREM TurnsAreFair == Spec => []FairTurns
<1>1. Init => TurnInv
  <2> SUFFICES ASSUME Init PROVE TurnInv
    OBVIOUS
  <2>1. RealInv
    BY RealInit
  <2>2. Rotation
    <3>1. at \notin Loop /\ ToSet(pending) = {}
      BY DEF Init, Loop, ToSet
    <3> QED
      BY <3>1 DEF Rotation
  <2>3. Succession
    <3>1. i = 0 /\ at \notin Loop /\ ToSet(order) = {} /\ BlockCount(order) = 0
      BY DEF Init, Loop, ToSet, BlockCount
    <3> QED
      BY <3>1, FS_EmptySet DEF Succession
  <2> QED
    BY <2>2, <2>3 DEF TurnInv, Init
<1>2. RealInv /\ TurnInv => FairTurns
  BY RotationFair DEF TurnInv, Succession, FairTurns
<1> QED
  BY <1>1, <1>2, TurnStep, RealInvariant, PTL DEF Spec
=============================================================================
