--------------------------- MODULE ServiceProofs ---------------------------
(***************************************************************************)
(* Two services that agents share and that share nothing with each other:  *)
(* the throttle in front of the LLM service, for any finite set of         *)
(* threads, any rate, burst and number of permits; and the sandbox, for    *)
(* any number of coders, settings and runs.                                *)
(***************************************************************************)
EXTENDS Batcher, Sandbox, FiniteSetTheorems, TLAPS

(***************************************************************************)
(* The throttle: its types, its cap on concurrency and its rate.           *)
(***************************************************************************)
Permitted == {c \in Clients : point[c] \in {"count", "call", "leave", "release"}}
Counted == {c \in Clients : point[c] \in {"call", "leave"}}

\* Permits are in the semaphore or with a thread; the counter counts threads
\* that all have one.
ThrottleInv ==
    /\ ThrottleTypeOK
    /\ permits + Cardinality(Permitted) = MaxConcurrent
    /\ inFlight = Cardinality(Counted)
    /\ peak <= MaxConcurrent

LEMMA FiniteClients == IsFiniteSet(Permitted) /\ IsFiniteSet(Counted)
<1>1. Permitted \subseteq Clients /\ Counted \subseteq Clients
  BY DEF Permitted, Counted
<1> QED
  BY <1>1, BatcherAssumption, FS_Subset

\* Every counted thread has a permit.
LEMMA CountedPermitted ==
  Cardinality(Counted) \in Nat /\ Cardinality(Permitted) \in Nat
    /\ Cardinality(Counted) <= Cardinality(Permitted)
<1>1. Counted \subseteq Permitted
  BY DEF Counted, Permitted
<1> QED
  BY <1>1, FiniteClients, FS_Subset, FS_CardinalityType

LEMMA InitThrottle == ThrottleInit => ThrottleInv
<1> SUFFICES ASSUME ThrottleInit PROVE ThrottleInv
  OBVIOUS
<1>1. Permitted = {} /\ Counted = {}
  BY DEF ThrottleInit, Permitted, Counted
<1>2. ThrottleTypeOK
  BY BatcherAssumption DEF ThrottleInit, ThrottleTypeOK, Points
<1> QED
  BY <1>1, <1>2, FS_EmptySet, BatcherAssumption DEF ThrottleInit, ThrottleInv

\* While a thread that is about to be counted has a permit, one more than the
\* threads counted now fits.
LEMMA RoomForOne ==
  ASSUME NEW c \in Clients, point[c] = "count"
  PROVE  Cardinality(Counted) + 1 <= Cardinality(Permitted)
<1>1. Counted \cup {c} \subseteq Permitted /\ c \notin Counted
  BY DEF Counted, Permitted
<1>2. Cardinality(Counted \cup {c}) = Cardinality(Counted) + 1
  BY <1>1, FiniteClients, FS_AddElement
<1>3. Cardinality(Counted \cup {c}) <= Cardinality(Permitted)
  BY <1>1, FiniteClients, FS_Subset
<1> QED
  BY <1>2, <1>3

LEMMA NextThrottle == ThrottleInv /\ [ThrottleNext]_throttleVars => ThrottleInv'
<1> SUFFICES ASSUME ThrottleInv, [ThrottleNext]_throttleVars PROVE ThrottleInv'
  OBVIOUS
<1> USE BatcherAssumption DEF bucketVars, statVars
<1>1. /\ point \in [Clients -> Points] /\ tokens \in 0 .. Capacity /\ since \in 0 .. Capacity
      /\ permits \in 0 .. MaxConcurrent /\ inFlight \in Nat /\ peak \in Nat
      /\ calls \in [Clients -> 0 .. MaxCalls] /\ granted \in [1 .. Rate -> Nat]
  BY DEF ThrottleInv, ThrottleTypeOK
<1>2. /\ permits + Cardinality(Permitted) = MaxConcurrent
      /\ inFlight = Cardinality(Counted) /\ peak <= MaxConcurrent
  BY DEF ThrottleInv
<1>3. CASE Drip
  <2>1. since' \in 0 .. Capacity /\ granted' \in [1 .. Rate -> Nat]
    BY <1>1, <1>3 DEF Drip
  <2>2. Permitted' = Permitted /\ Counted' = Counted
    BY <1>3 DEF Drip, Permitted, Counted
  <2> QED
    BY <1>1, <1>2, <1>3, <2>1, <2>2 DEF Drip, ThrottleInv, ThrottleTypeOK
<1>4. ASSUME NEW c \in Clients, Chat(c) PROVE ThrottleInv'
  <2>1. /\ point' \in [Clients -> Points] /\ calls' \in [Clients -> 0 .. MaxCalls]
    BY <1>1, <1>4 DEF Chat, GoOn, Points
  <2>2. Permitted' = Permitted /\ Counted' = Counted
    BY <1>1, <1>4 DEF Chat, GoOn, Permitted, Counted
  <2> QED
    BY <1>1, <1>2, <1>4, <2>1, <2>2 DEF Chat, ThrottleInv, ThrottleTypeOK
<1>5. ASSUME NEW c \in Clients, TakeToken(c) PROVE ThrottleInv'
  <2>1. Refilled \in 0 .. Capacity
    BY <1>1 DEF Refilled
  <2>2. /\ point' \in [Clients -> Points] /\ tokens' \in 0 .. Capacity
        /\ since' \in 0 .. Capacity
    <3>1. point' \in [Clients -> Points]
      BY <1>1, <1>5 DEF TakeToken, GoOn, Points
    <3>2. (tokens' = Refilled - 1 /\ Refilled >= 1) \/ tokens' = Refilled
      BY <1>5 DEF TakeToken
    <3> QED
      BY <1>5, <2>1, <3>1, <3>2 DEF TakeToken
  <2>3. granted' \in [1 .. Rate -> Nat]
    <3>1. \/ granted' = [i \in 1 .. Rate |-> granted[i] + 1]
          \/ granted' = granted
      BY <1>5 DEF TakeToken
    <3> QED
      BY <1>1, <3>1, SMTT(30)
  <2>4. Permitted' = Permitted /\ Counted' = Counted
    BY <1>1, <1>5 DEF TakeToken, GoOn, Permitted, Counted
  <2> QED
    BY <1>1, <1>2, <1>5, <2>2, <2>3, <2>4 DEF TakeToken, ThrottleInv, ThrottleTypeOK
<1>6. ASSUME NEW c \in Clients, TakePermit(c) PROVE ThrottleInv'
  <2>1. point' \in [Clients -> Points] /\ permits' \in 0 .. MaxConcurrent
    BY <1>1, <1>6 DEF TakePermit, GoOn, Points
  <2>2. c \notin Permitted /\ Permitted' = Permitted \cup {c} /\ Counted' = Counted
    BY <1>1, <1>6 DEF TakePermit, GoOn, Permitted, Counted
  <2>3. Cardinality(Permitted') = Cardinality(Permitted) + 1
    BY <2>2, FiniteClients, FS_AddElement
  <2>4. permits' + Cardinality(Permitted') = MaxConcurrent
    BY <1>1, <1>2, <1>6, <2>3, CountedPermitted DEF TakePermit
  <2> QED
    BY <1>1, <1>2, <1>6, <2>1, <2>2, <2>4 DEF TakePermit, ThrottleInv, ThrottleTypeOK
<1>7. ASSUME NEW c \in Clients, CountIn(c) PROVE ThrottleInv'
  <2>1. point' \in [Clients -> Points]
    BY <1>1, <1>7 DEF CountIn, GoOn, Points
  <2>2. c \notin Counted /\ Counted' = Counted \cup {c} /\ Permitted' = Permitted
    BY <1>1, <1>7 DEF CountIn, GoOn, Permitted, Counted
  <2>3. Cardinality(Counted') = Cardinality(Counted) + 1
    BY <2>2, FiniteClients, FS_AddElement
  <2>4. inFlight + 1 <= MaxConcurrent
    BY <1>1, <1>2, <1>7, RoomForOne, CountedPermitted DEF CountIn
  <2>5. inFlight' \in Nat /\ peak' \in Nat /\ peak' <= MaxConcurrent
    BY <1>1, <1>2, <1>7, <2>4 DEF CountIn
  <2> QED
    BY <1>1, <1>2, <1>7, <2>1, <2>2, <2>3, <2>5 DEF CountIn, ThrottleInv, ThrottleTypeOK
<1>8. ASSUME NEW c \in Clients, CallEnds(c) PROVE ThrottleInv'
  <2>1. point' \in [Clients -> Points]
    BY <1>1, <1>8 DEF CallEnds, GoOn, Points
  <2>2. Permitted' = Permitted /\ Counted' = Counted
    BY <1>1, <1>8 DEF CallEnds, GoOn, Permitted, Counted
  <2> QED
    BY <1>1, <1>2, <1>8, <2>1, <2>2 DEF CallEnds, ThrottleInv, ThrottleTypeOK
<1>9. ASSUME NEW c \in Clients, CountOut(c) PROVE ThrottleInv'
  <2>1. point' \in [Clients -> Points]
    BY <1>1, <1>9 DEF CountOut, GoOn, Points
  <2>2. c \in Counted /\ Counted' = Counted \ {c} /\ Permitted' = Permitted
    BY <1>1, <1>9 DEF CountOut, GoOn, Permitted, Counted
  <2>3. Cardinality(Counted') = Cardinality(Counted) - 1 /\ Cardinality(Counted') \in Nat
    BY <2>2, FiniteClients, FS_RemoveElement, FS_CardinalityType
  <2>4. inFlight' = Cardinality(Counted') /\ inFlight' \in Nat
    BY <1>2, <1>9, <2>3 DEF CountOut
  <2> QED
    BY <1>1, <1>2, <1>9, <2>1, <2>2, <2>4 DEF CountOut, ThrottleInv, ThrottleTypeOK
<1>10. ASSUME NEW c \in Clients, Release(c) PROVE ThrottleInv'
  <2>1. point' \in [Clients -> Points]
    BY <1>1, <1>10 DEF Release, GoOn, Points
  <2>2. c \in Permitted /\ Permitted' = Permitted \ {c} /\ Counted' = Counted
    BY <1>1, <1>10 DEF Release, GoOn, Permitted, Counted
  <2>3. Cardinality(Permitted') = Cardinality(Permitted) - 1 /\ Cardinality(Permitted') \in Nat
    BY <2>2, FiniteClients, FS_RemoveElement, FS_CardinalityType
  <2>4. permits' \in 0 .. MaxConcurrent /\ permits' + Cardinality(Permitted') = MaxConcurrent
    BY <1>1, <1>2, <1>10, <2>3, CountedPermitted DEF Release
  <2> QED
    BY <1>1, <1>2, <1>10, <2>1, <2>2, <2>4 DEF Release, ThrottleInv, ThrottleTypeOK
<1>11. CASE UNCHANGED throttleVars
  BY <1>1, <1>2, <1>11 DEF throttleVars, ThrottleInv, ThrottleTypeOK, Permitted, Counted
<1> QED
  BY <1>3, <1>4, <1>5, <1>6, <1>7, <1>8, <1>9, <1>10, <1>11 DEF ThrottleNext, Advance

\* The throttle's types: tokens and permits stay within the bucket and the
\* semaphore, and the counter of calls never drops below zero.
THEOREM ThrottleTypeCorrect == ThrottleSpec => []ThrottleTypeOK
<1>1. ThrottleInv => ThrottleTypeOK
  BY DEF ThrottleInv
<1> QED
  BY <1>1, InitThrottle, NextThrottle, PTL DEF ThrottleSpec

\* chat(): never more than max_concurrent requests, in_flight is the number of
\* calls under way whatever they raise, and no statistic says otherwise.
THEOREM NeverOverConcurrent == ThrottleSpec => []ConcurrencyCapped
<1>1. ThrottleInv => ConcurrencyCapped
  <2> SUFFICES ASSUME ThrottleInv PROVE ConcurrencyCapped
    OBVIOUS
  <2> DEFINE Calling == {c \in Clients : point[c] = "call"}
  <2>1. Calling \subseteq Counted
    BY DEF Counted
  <2>2. IsFiniteSet(Calling) /\ Cardinality(Calling) <= Cardinality(Counted)
    BY <2>1, FiniteClients, FS_Subset
  <2>3. Cardinality(Calling) \in Nat
    BY <2>2, FS_CardinalityType
  <2>4. permits \in Nat
    BY BatcherAssumption DEF ThrottleInv, ThrottleTypeOK
  <2>5. Cardinality(Counted) <= MaxConcurrent
    BY <2>4, CountedPermitted, BatcherAssumption DEF ThrottleInv
  <2>6. Cardinality(Calling) <= MaxConcurrent
    BY <2>2, <2>3, <2>5, CountedPermitted, BatcherAssumption
  <2> QED
    BY <2>5, <2>6 DEF ThrottleInv, Counted, InFlightCounts, ConcurrencyCapped
<1> QED
  BY <1>1, InitThrottle, NextThrottle, PTL DEF ThrottleSpec

-----------------------------------------------------------------------------
\* What was granted since the i-th last tick began and what could be granted
\* now: a full bucket and a token for each tick since.
BucketInv ==
    \A i \in 1 .. Rate : granted[i] + Refilled <= Capacity + Rate - i

\* A grant moves a token from one side to the other; a tick adds at most one
\* and moves the window on by one.
LEMMA NextBucket ==
    ASSUME ThrottleTypeOK, BucketInv, [ThrottleNext]_throttleVars
    PROVE  BucketInv'
<1> USE BatcherAssumption
<1>1. /\ tokens \in 0 .. Capacity /\ since \in 0 .. Capacity
      /\ granted \in [1 .. Rate -> Nat] /\ Refilled \in 0 .. Capacity
  BY DEF ThrottleTypeOK, Refilled
<1>2. CASE Drip
  <2>1. Refilled' \in 0 .. Capacity /\ Refilled' <= Refilled + 1
    BY <1>1, <1>2 DEF Drip, Refilled
  <2>2. ASSUME NEW i \in 1 .. Rate
        PROVE  granted'[i] + Refilled' <= Capacity + Rate - i
    <3>1. CASE i = Rate
      <4>1. granted'[i] = 0
        BY <1>2, <3>1 DEF Drip
      <4>2. Capacity + Rate - i = Capacity
        BY <3>1
      <4>3. Refilled' \in Int /\ Refilled' <= Capacity
        BY <2>1
      <4>4. \A r \in Int : 0 + r = r
        OBVIOUS
      <4> QED
        BY <4>1, <4>2, <4>3, <4>4
    <3>2. CASE i # Rate
      <4>1. i + 1 \in 1 .. Rate /\ granted'[i] = granted[i + 1]
        BY <1>2, <3>2 DEF Drip
      <4>2. granted[i + 1] + Refilled <= Capacity + Rate - (i + 1)
        BY <4>1 DEF BucketInv
      <4> QED
        BY <1>1, <2>1, <4>1, <4>2
    <3> QED
      BY <3>1, <3>2
  <2> QED
    BY <2>2 DEF BucketInv
<1>3. ASSUME NEW c \in Clients, TakeToken(c) PROVE BucketInv'
  <2>1. CASE Refilled >= 1
    <3>1. /\ Refilled' = Refilled - 1
          /\ granted' = [i \in 1 .. Rate |-> granted[i] + 1]
      BY <1>1, <1>3, <2>1 DEF TakeToken, Refilled
    <3> QED
      BY <1>1, <2>1, <3>1 DEF BucketInv
  <2>2. CASE Refilled < 1
    <3>1. Refilled' = Refilled /\ granted' = granted
      BY <1>1, <1>3, <2>2 DEF TakeToken, Refilled
    <3> QED
      BY <3>1 DEF BucketInv
  <2> QED
    BY <1>1, <2>1, <2>2
<1>4. CASE UNCHANGED bucketVars
  BY <1>4 DEF bucketVars, BucketInv, Refilled
<1> QED
  BY <1>2, <1>3, <1>4
  DEF ThrottleNext, Advance, Chat, TakePermit, CountIn, CallEnds, CountOut, Release, throttleVars

\* TokenBucket.acquire(): no second sees more grants than a full bucket and
\* the refill allow, for every rate, burst and number of threads.
THEOREM RateLimited == ThrottleSpec => []GrantsBounded
<1>1. ThrottleInit => BucketInv
  BY BatcherAssumption DEF ThrottleInit, BucketInv, Refilled
<1>2. ThrottleTypeOK /\ BucketInv => GrantsBounded
  <2> SUFFICES ASSUME ThrottleTypeOK, BucketInv, NEW i \in 1 .. Rate
               PROVE  granted[i] <= Capacity + Rate - i
    BY DEF GrantsBounded
  <2>1. granted[i] \in Nat /\ Refilled \in Nat
    BY BatcherAssumption DEF ThrottleTypeOK, Refilled
  <2>2. granted[i] + Refilled <= Capacity + Rate - i
    BY DEF BucketInv
  <2> QED
    BY <2>1, <2>2, BatcherAssumption
<1> QED
  BY <1>1, <1>2, ThrottleTypeCorrect, NextBucket, PTL DEF ThrottleSpec

-----------------------------------------------------------------------------
(***************************************************************************)
(* The sandbox: its types, and that no program runs unprotected without    *)
(* the operator's consent, none is left behind and every verdict is true.  *)
(***************************************************************************)
Consent == preference = "subprocess" \/ (preference = "auto" /\ ~failClosed)

\* The weak runner is chosen by consent.  A thread that cleans up knows how its
\* run ended: it gave up on the program, or has an exit code.
ConsentInv ==
    /\ TypeOK
    /\ \A c \in Coders : runner[c] = "subprocess" => Consent
    /\ \A c \in Coders : at[c] = "kill" => killed[c]
    /\ \A c \in Coders : at[c] = "remove" => killed[c] \/ code[c] # "unknown"

LEMMA InitConsent == Init => ConsentInv
  BY SandboxAssumption DEF Init, ConsentInv, TypeOK, Nothing

LEMMA NextConsent == ConsentInv /\ [Next]_vars => ConsentInv'
<1> SUFFICES ASSUME ConsentInv, [Next]_vars PROVE ConsentInv'
  OBVIOUS
<1> USE SandboxAssumption DEF ConsentInv, Consent
<1> USE DEF TypeOK, settings, daemonVars, statusVars, runVars
<1>1. CASE Flap
  <2>1. seen' \in [0 .. TTL -> SUBSET BOOLEAN]
    BY <1>1, ZenonT(60) DEF Flap
  <2> QED
    BY <1>1, <2>1 DEF Flap
<1>2. CASE Tick
  <2>1. age' \in 0 .. TTL + 1
    BY <1>2 DEF Tick
  <2>2. seen' \in [0 .. TTL -> SUBSET BOOLEAN]
    BY <1>2 DEF Tick
  <2> QED
    BY <1>2, <2>1, <2>2 DEF Tick, Nothing
<1>3. ASSUME NEW refresh \in BOOLEAN, SandboxInfo(refresh) PROVE ConsentInv'
  <2>1. cached' \in {"yes", "no", "none"} /\ age' \in 0 .. TTL + 1
    BY <1>3 DEF SandboxInfo, Answer
  <2>2. shown' \in [runner : {"docker", "subprocess", "unavailable", "none"},
                    isolation : {"STRONG", "WEAK", "NONE", "none"}]
    BY <1>3 DEF SandboxInfo, Posture
  <2> QED
    BY <1>3, <2>1, <2>2 DEF SandboxInfo
<1>4. ASSUME NEW c \in Coders, Ends(c) PROVE ConsentInv'
  BY <1>4 DEF Ends
<1>5. ASSUME NEW c \in Coders, MakeRunner(c) PROVE ConsentInv'
  <2>1. runs' \in [Coders -> 0 .. MaxRuns] /\ lost' \subseteq Coders
    BY <1>5 DEF MakeRunner
  <2>2. /\ killed' \in [Coders -> BOOLEAN] /\ present' \in [Coders -> BOOLEAN]
        /\ code' \in [Coders -> {"ok", "failed", "unknown"}]
        /\ program' \in [Coders -> {"none", "running", "ok", "failed", "killed"}]
    BY <1>5 DEF MakeRunner
  <2>3. /\ at' \in [Coders -> {"idle", "connect", "start", "wait", "kill", "remove"}]
        /\ runner' \in [Coders -> {"none", "docker", "subprocess"}]
        /\ result' \in [Coders -> {"none", "ok", "failed", "timeout", "raised"}]
        /\ \A d \in Coders : runner'[d] = "subprocess" => Consent
    BY <1>5, ZenonT(60) DEF MakeRunner, Goto, Raise
  <2>4. /\ \A d \in Coders : at'[d] \in {"kill", "remove"} => d # c /\ at'[d] = at[d]
        /\ \A d \in Coders : d # c => killed'[d] = killed[d] /\ code'[d] = code[d]
    BY <1>5 DEF MakeRunner, Goto, Raise
  <2> QED
    BY <1>5, <2>1, <2>2, <2>3, <2>4 DEF MakeRunner
<1>6. ASSUME NEW c \in Coders, RunPython(c) PROVE ConsentInv'
  <2>1. CASE Connect(c)
    <3>1. /\ at' \in [Coders -> {"idle", "connect", "start", "wait", "kill", "remove"}]
          /\ result' \in [Coders -> {"none", "ok", "failed", "timeout", "raised"}]
      BY <2>1, ZenonT(60) DEF Connect, Goto, Raise
    <3>2. /\ runner' \in [Coders -> {"none", "docker", "subprocess"}]
          /\ \A d \in Coders : runner'[d] = "subprocess" => runner[d] = "subprocess"
      BY <2>1, ZenonT(60) DEF Connect
    <3>3. \A d \in Coders : at'[d] \in {"kill", "remove"} => at'[d] = at[d]
      BY <2>1 DEF Connect, Goto, Raise
    <3> QED
      BY <2>1, <3>1, <3>2, <3>3 DEF Connect
  <2>2. CASE Start(c)
    BY <2>2 DEF Start, Goto
  <2>3. CASE StartFails(c)
    <3>1. /\ at' \in [Coders -> {"idle", "connect", "start", "wait", "kill", "remove"}]
          /\ result' \in [Coders -> {"none", "ok", "failed", "timeout", "raised"}]
          /\ \A d \in Coders : at'[d] \in {"kill", "remove"} => at'[d] = at[d]
      BY <2>3 DEF StartFails, Goto, Raise
    <3>2. /\ program' \in [Coders -> {"none", "running", "ok", "failed", "killed"}]
          /\ present' \in [Coders -> BOOLEAN] /\ lost' \subseteq Coders
      BY <2>3, ZenonT(60) DEF StartFails
    <3> QED
      BY <2>3, <3>1, <3>2 DEF StartFails
  <2>4. CASE Wait(c)
    BY <2>4 DEF Wait, Goto
  <2>5. CASE WaitFails(c)
    <3>1. /\ at' \in [Coders -> {"idle", "connect", "start", "wait", "kill", "remove"}]
          /\ killed' \in [Coders -> BOOLEAN] /\ killed'[c] /\ at'[c] = "kill"
          /\ \A d \in Coders : d # c => at'[d] = at[d] /\ killed'[d] = killed[d]
      BY <2>5 DEF WaitFails, Goto
    <3> QED
      BY <2>5, <3>1 DEF WaitFails
  <2>6. CASE KillProgram(c)
    <3>1. /\ at' \in [Coders -> {"idle", "connect", "start", "wait", "kill", "remove"}]
          /\ \A d \in Coders : d # c => at'[d] = at[d]
          /\ at'[c] = "remove" /\ killed[c]
      BY <2>6 DEF KillProgram, Goto
    <3>2. /\ program' \in [Coders -> {"none", "running", "ok", "failed", "killed"}]
          /\ lost' \subseteq Coders
      BY <2>6, ZenonT(60) DEF KillProgram, Killed
    <3> QED
      BY <2>6, <3>1, <3>2 DEF KillProgram
  <2>7. CASE Cleanup(c)
    <3>1. Verdict(c) \in {"ok", "failed", "timeout"}
      BY <2>7 DEF Cleanup, Verdict
    <3>2. /\ at' \in [Coders -> {"idle", "connect", "start", "wait", "kill", "remove"}]
          /\ result' \in [Coders -> {"none", "ok", "failed", "timeout", "raised"}]
          /\ \A d \in Coders : at'[d] \in {"kill", "remove"} => at'[d] = at[d]
      BY <2>7, <3>1 DEF Cleanup, Goto
    <3>3. /\ program' \in [Coders -> {"none", "running", "ok", "failed", "killed"}]
          /\ present' \in [Coders -> BOOLEAN] /\ lost' \subseteq Coders
      BY <2>7, ZenonT(60) DEF Cleanup, Killed
    <3> QED
      BY <2>7, <3>2, <3>3 DEF Cleanup
  <2> QED
    BY <1>6, <2>1, <2>2, <2>3, <2>4, <2>5, <2>6, <2>7 DEF RunPython
<1>7. CASE UNCHANGED vars
  BY <1>7 DEF vars
<1> QED
  BY <1>1, <1>2, <1>3, <1>4, <1>5, <1>6, <1>7 DEF Next

\* Every variable of the sandbox keeps to its domain; in particular a verdict
\* is never the exit code of a program that was killed.
THEOREM SandboxTypeCorrect == Spec => []TypeOK
<1>1. ConsentInv => TypeOK
  BY DEF ConsentInv
<1> QED
  BY <1>1, InitConsent, NextConsent, PTL DEF Spec

\* make_runner() and the runners: no program runs in the weak runner unless
\* the operator consented, at whatever moment the Docker daemon goes away.
THEOREM NoWeakRunWithoutConsent == Spec => []WeakOnlyByConsent
<1>1. ConsentInv => WeakOnlyByConsent
  BY DEF ConsentInv, Consent, WeakOnlyByConsent
<1> QED
  BY <1>1, InitConsent, NextConsent, PTL DEF Spec

-----------------------------------------------------------------------------
(***************************************************************************)
(* How a run ends                                                          *)
(***************************************************************************)
\* Before the start there is nothing to clean up.  A run that cleans up has the
\* program's own exit code, or has killed the program, or lost a call.  What an
\* idle thread last reported is true of its last program.
RunInv(c) ==
    /\ at[c] \in {"connect", "start"} => ~present[c] /\ program[c] = "none" /\ c \notin lost
    /\ at[c] = "remove" /\ ~killed[c] => program[c] = code[c] /\ program[c] # "running"
    /\ at[c] = "remove" /\ c \notin lost => program[c] # "running"
    /\ at[c] = "idle" /\ result[c] \in {"ok", "failed"} => program[c] = result[c]
    /\ at[c] = "idle" /\ c \notin lost => ~present[c] /\ program[c] # "running"

EndInv == ConsentInv /\ \A c \in Coders : RunInv(c)

LEMMA InitEnd == Init => EndInv
  BY InitConsent DEF Init, EndInv, RunInv

\* A step of one coder, or of the surroundings, leaves the others alone.
LEMMA OthersKeepRunInv ==
  ASSUME NEW d \in Coders, RunInv(d),
         at'[d] = at[d], killed'[d] = killed[d], code'[d] = code[d],
         result'[d] = result[d], program'[d] = program[d], present'[d] = present[d],
         d \in lost' <=> d \in lost
  PROVE  RunInv(d)'
  BY DEF RunInv

LEMMA NextEnd == EndInv /\ [Next]_vars => EndInv'
<1> SUFFICES ASSUME EndInv, [Next]_vars PROVE EndInv'
  OBVIOUS
<1>1. ConsentInv'
  BY NextConsent DEF EndInv
<1> SUFFICES ASSUME NEW d \in Coders PROVE RunInv(d)'
  BY <1>1 DEF EndInv
<1>2. TypeOK /\ ConsentInv /\ RunInv(d)
  BY DEF EndInv, ConsentInv
<1> USE DEF settings, daemonVars, statusVars, runVars
<1>3. CASE Flap \/ Tick \/ (\E refresh \in BOOLEAN : SandboxInfo(refresh)) \/ UNCHANGED vars
  BY <1>2, <1>3 DEF Flap, Tick, SandboxInfo, vars, RunInv
<1>4. ASSUME NEW c \in Coders, Ends(c) \/ MakeRunner(c) \/ RunPython(c), c # d PROVE RunInv(d)'
  <2>1. /\ at'[d] = at[d] /\ killed'[d] = killed[d] /\ code'[d] = code[d]
        /\ result'[d] = result[d] /\ program'[d] = program[d] /\ present'[d] = present[d]
        /\ d \in lost' <=> d \in lost
    <3> USE <1>2 DEF TypeOK, Goto, Raise, Killed
    <3>1. CASE Ends(c)
      BY <1>4, <3>1 DEF Ends
    <3>2. CASE MakeRunner(c)
      BY <1>4, <3>2, ZenonT(60) DEF MakeRunner
    <3>3. CASE Connect(c) \/ Start(c) \/ StartFails(c)
      BY <1>4, <3>3 DEF Connect, Start, StartFails
    <3>4. CASE Wait(c) \/ WaitFails(c)
      BY <1>4, <3>4 DEF Wait, WaitFails
    <3>5. CASE KillProgram(c) \/ Cleanup(c)
      BY <1>4, <3>5 DEF KillProgram, Cleanup
    <3> QED
      BY <1>4, <3>1, <3>2, <3>3, <3>4, <3>5 DEF RunPython
  <2> QED
    BY <1>2, <2>1, OthersKeepRunInv
<1>5. CASE Ends(d)
  BY <1>2, <1>5 DEF Ends, RunInv, TypeOK
<1>6. CASE MakeRunner(d)
  BY <1>2, <1>6 DEF MakeRunner, RunInv, TypeOK, Goto, Raise
<1>7. CASE Connect(d)
  BY <1>2, <1>7 DEF Connect, RunInv, TypeOK, Goto, Raise
<1>8. CASE Start(d)
  BY <1>2, <1>8 DEF Start, RunInv, TypeOK, Goto
<1>9. CASE StartFails(d)
  BY <1>2, <1>9 DEF StartFails, RunInv, TypeOK, Goto, Raise
<1>10. CASE Wait(d)
  BY <1>2, <1>10 DEF Wait, RunInv, TypeOK, Goto
<1>11. CASE WaitFails(d)
  BY <1>2, <1>11 DEF WaitFails, RunInv, TypeOK, Goto
<1>12. CASE KillProgram(d)
  BY <1>2, <1>12 DEF KillProgram, Killed, RunInv, TypeOK, ConsentInv, Goto
<1>13. CASE Cleanup(d)
  BY <1>2, <1>13 DEF Cleanup, Killed, Verdict, RunInv, TypeOK, Goto
<1> QED
  BY <1>3, <1>4, <1>5, <1>6, <1>7, <1>8, <1>9, <1>10, <1>11, <1>12, <1>13
     DEF Next, RunPython

\* run_python(): what an agent is told of its program is true, also when the
\* end, the timeout and the loss of the daemon come together.
THEOREM VerdictsHonest == Spec => []VerdictHonest
<1>1. EndInv => VerdictHonest
  BY DEF EndInv, RunInv, VerdictHonest
<1> QED
  BY <1>1, InitEnd, NextEnd, PTL DEF Spec

\* run_python(): unless a call to the daemon got no answer, nothing is left of a
\* run, on whatever path it came to its end.
THEOREM RunsLeaveNothing == Spec => []NothingLeftBehind
<1>1. EndInv => NothingLeftBehind
  BY DEF EndInv, RunInv, NothingLeftBehind
<1> QED
  BY <1>1, InitEnd, NextEnd, PTL DEF Spec

-----------------------------------------------------------------------------
(***************************************************************************)
(* The status page                                                         *)
(***************************************************************************)
\* A cached probe that is still used was true at the tick it was made, and the
\* history tells what the daemon was then.
ProbeInv ==
    /\ TypeOK
    /\ daemon \in seen[0]
    /\ cached # "none" /\ age <= TTL => \E up \in seen[age] : cached = Answer(up)
    /\ PostureFresh

LEMMA InitProbe == Init => ProbeInv
<1> SUFFICES ASSUME Init PROVE ProbeInv
  OBVIOUS
<1>1. TypeOK
  BY InitConsent DEF ConsentInv
<1> QED
  BY <1>1, SandboxAssumption DEF Init, ProbeInv, PostureFresh

LEMMA NextProbe == ProbeInv /\ TypeOK' /\ [Next]_vars => ProbeInv'
<1> SUFFICES ASSUME ProbeInv, TypeOK', [Next]_vars PROVE ProbeInv'
  OBVIOUS
<1> USE SandboxAssumption DEF settings, daemonVars, statusVars, runVars
<1>1. TypeOK
  BY DEF ProbeInv
<1>2. /\ seen \in [0 .. TTL -> SUBSET BOOLEAN] /\ daemon \in BOOLEAN
      /\ age \in 0 .. TTL + 1 /\ 0 \in 0 .. TTL
  BY <1>1 DEF TypeOK
<1>3. CASE Flap
  <2>1. daemon' \in seen'[0] /\ \A n \in 0 .. TTL : seen[n] \subseteq seen'[n]
    BY <1>2, <1>3 DEF Flap
  <2>2. \A x : Posture(x)' = Posture(x)
    BY <1>3 DEF Flap, Posture
  <2>3. PostureFresh'
    BY <1>3, <2>1, <2>2 DEF Flap, ProbeInv, PostureFresh, Nothing, Answer
  <2>4. (cached # "none" /\ age <= TTL => \E up \in seen[age] : cached = Answer(up))'
    BY <1>2, <1>3, <2>1 DEF Flap, ProbeInv, Answer
  <2> QED
    BY <2>1, <2>3, <2>4 DEF ProbeInv
<1>4. CASE Tick
  <2>1. daemon' \in seen'[0]
    BY <1>2, <1>4 DEF Tick
  <2>2. ASSUME cached' # "none", age' <= TTL PROVE \E up \in seen'[age'] : cached' = Answer(up)
    <3>1. age' = age + 1 /\ age <= TTL /\ cached # "none" /\ cached' = cached
      BY <1>2, <1>4, <2>2 DEF Tick
    <3>2. seen'[age + 1] = seen[age]
      BY <1>2, <1>4, <2>2, <3>1 DEF Tick
    <3> QED
      BY <3>1, <3>2 DEF ProbeInv
  <2>3. PostureFresh'
    BY <1>4 DEF Tick, PostureFresh, Nothing
  <2> QED
    BY <2>1, <2>2, <2>3 DEF ProbeInv, Answer
<1>5. ASSUME NEW refresh \in BOOLEAN, SandboxInfo(refresh) PROVE ProbeInv'
  <2>1. daemon' \in seen'[0] /\ seen' = seen
    BY <1>5 DEF SandboxInfo, ProbeInv
  <2>2. age' \in 0 .. TTL /\ \E up \in seen[age'] : cached' = Answer(up)
    BY <1>2, <1>5 DEF SandboxInfo, Stale, ProbeInv
  <2>3. \A x : Posture(x)' = Posture(x)
    BY <1>5 DEF SandboxInfo, Posture
  <2>4. shown' = Posture(cached')
    BY <1>5 DEF SandboxInfo
  <2> QED
    BY <2>1, <2>2, <2>3, <2>4 DEF ProbeInv, PostureFresh, Answer
<1>6. CASE UNCHANGED <<settings, daemonVars, statusVars>>
  BY <1>6 DEF ProbeInv, PostureFresh, Posture, Answer, Nothing
<1>7. ASSUME NEW c \in Coders, Ends(c) \/ MakeRunner(c) \/ RunPython(c)
      PROVE  UNCHANGED <<settings, daemonVars, statusVars>>
  BY <1>7 DEF Ends, MakeRunner, RunPython, Connect, Start, StartFails, Wait, WaitFails,
              KillProgram, Cleanup
<1> QED
  BY <1>3, <1>4, <1>5, <1>6, <1>7 DEF Next, vars

\* sandbox_info(): the status page shows no posture older than the probe's time
\* to live.
THEOREM PostureIsFresh == Spec => []PostureFresh
<1>1. ConsentInv => TypeOK
  BY DEF ConsentInv
<1>2. ProbeInv => PostureFresh
  BY DEF ProbeInv
<1> QED
  BY <1>1, <1>2, InitConsent, NextConsent, InitProbe, NextProbe, PTL DEF Spec
=============================================================================
