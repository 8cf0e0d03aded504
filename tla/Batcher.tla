------------------------------ MODULE Batcher ------------------------------
(***************************************************************************)
(* The throttle in front of the LLM service, gcos/backend/batcher.py: a    *)
(* token bucket, a semaphore and statistics, passed by every thread that   *)
(* calls chat().                                                           *)
(*                                                                         *)
(* Time advances in ticks of 1 / rate_per_s, so that one tick refills one  *)
(* token and one second is Rate ticks.  The bucket is refilled only when   *)
(* somebody asks, from the time since it was last asked.                   *)
(***************************************************************************)
EXTENDS Naturals, FiniteSets

CONSTANTS
    Clients,         \* the threads that call chat()
    Rate,            \* rate_per_s
    Capacity,        \* the bucket's capacity: burst, or the rate
    MaxConcurrent,   \* max_concurrent
    MaxCalls         \* bound: calls a thread makes

ASSUME BatcherAssumption ==
    /\ IsFiniteSet(Clients)
    /\ Rate \in Nat \ {0} /\ Capacity \in Nat \ {0}
    /\ MaxConcurrent \in Nat \ {0} /\ MaxCalls \in Nat

VARIABLES
    point,      \* point[c]: idle | bucket | semaphore | count | call | leave | release
    tokens,     \* _tokens
    since,      \* ticks since _last, as far as they still matter
    permits,    \* permits of the semaphore
    inFlight,   \* stats.in_flight
    peak,       \* stats.peak_in_flight
    calls,      \* calls[c]: how often c has called chat()
    granted     \* history: granted[i]: tokens handed out in the last Rate - i + 1 ticks

bucketVars == <<tokens, since, granted>>
statVars == <<inFlight, peak>>
throttleVars == <<point, bucketVars, permits, statVars, calls>>

Points == {"idle", "bucket", "semaphore", "count", "call", "leave", "release"}

\* Threads, bucket, semaphore and statistics keep to their domains.
ThrottleTypeOK ==
    /\ point \in [Clients -> Points]
    /\ tokens \in 0 .. Capacity /\ since \in 0 .. Capacity
    /\ permits \in 0 .. MaxConcurrent
    /\ inFlight \in Nat /\ peak \in Nat
    /\ calls \in [Clients -> 0 .. MaxCalls]
    /\ granted \in [1 .. Rate -> Nat]

ThrottleInit ==
    /\ point = [c \in Clients |-> "idle"]
    /\ tokens = Capacity /\ since = 0
    /\ permits = MaxConcurrent
    /\ inFlight = 0 /\ peak = 0
    /\ calls = [c \in Clients |-> 0]
    /\ granted = [i \in 1 .. Rate |-> 0]
-----------------------------------------------------------------------------
GoOn(c, p) == point' = [point EXCEPT ![c] = p]

\* Time passes: the window moves on by a tick.
Drip ==
    /\ since' = IF since < Capacity THEN since + 1 ELSE since
    /\ granted' = [i \in 1 .. Rate |-> IF i = Rate THEN 0 ELSE granted[i + 1]]
    /\ UNCHANGED <<point, tokens, permits, statVars, calls>>

Chat(c) ==
    /\ point[c] = "idle"
    /\ calls[c] < MaxCalls
    /\ calls' = [calls EXCEPT ![c] = @ + 1]
    /\ GoOn(c, "bucket")
    /\ UNCHANGED <<bucketVars, permits, statVars>>

\* Mutant of Refilled: the bucket overflows.
RefilledOver == tokens + since

\* The refill at the head of every attempt.
Refilled == IF tokens + since > Capacity THEN Capacity ELSE tokens + since

\* One round of TokenBucket.acquire(1), under its lock.  Without a token the
\* thread sleeps and tries again, in no particular order with the others.
TakeToken(c) ==
    /\ point[c] = "bucket"
    /\ since' = 0
    /\ \/ /\ Refilled >= 1
          /\ tokens' = Refilled - 1
          /\ granted' = [i \in 1 .. Rate |-> granted[i] + 1]
          /\ GoOn(c, "semaphore")
       \/ /\ Refilled < 1
          /\ tokens' = Refilled
          /\ UNCHANGED <<point, granted>>
    /\ UNCHANGED <<permits, statVars, calls>>

TakePermit(c) ==
    /\ point[c] = "semaphore"
    /\ permits >= 1
    /\ permits' = permits - 1
    /\ GoOn(c, "count")
    /\ UNCHANGED <<bucketVars, statVars, calls>>

\* The statistics, under their lock, then the request.
CountIn(c) ==
    /\ point[c] = "count"
    /\ inFlight' = inFlight + 1
    /\ peak' = IF inFlight + 1 > peak THEN inFlight + 1 ELSE peak
    /\ GoOn(c, "call")
    /\ UNCHANGED <<bucketVars, permits, calls>>

\* The request returns or raises; both ways lead through the finally clause.
CallEnds(c) ==
    /\ point[c] = "call"
    /\ GoOn(c, "leave")
    /\ UNCHANGED <<bucketVars, permits, statVars, calls>>

\* Mutant of CountOut: a failed call is not counted out.
CountOutOrNot(c) ==
    /\ point[c] = "leave"
    /\ inFlight' \in {inFlight, inFlight - 1}
    /\ GoOn(c, "release")
    /\ UNCHANGED <<bucketVars, permits, peak, calls>>

CountOut(c) ==
    /\ point[c] = "leave"
    /\ inFlight' = inFlight - 1
    /\ GoOn(c, "release")
    /\ UNCHANGED <<bucketVars, permits, peak, calls>>

\* Mutant of Release: a failed call keeps its permit.
ReleaseOrNot(c) ==
    /\ point[c] = "release"
    /\ permits' \in {permits, permits + 1}
    /\ GoOn(c, "idle")
    /\ UNCHANGED <<bucketVars, statVars, calls>>

Release(c) ==
    /\ point[c] = "release"
    /\ permits' = permits + 1
    /\ GoOn(c, "idle")
    /\ UNCHANGED <<bucketVars, statVars, calls>>

Advance(c) ==
    \/ TakeToken(c) \/ TakePermit(c) \/ CountIn(c)
    \/ CallEnds(c) \/ CountOut(c) \/ Release(c)

ThrottleNext == Drip \/ \E c \in Clients : Chat(c) \/ Advance(c)

ThrottleSpec == ThrottleInit /\ [][ThrottleNext]_throttleVars

\* Time passes while somebody waits for it, threads run, requests have a
\* timeout.
ThrottleFairness ==
    /\ WF_throttleVars(Drip /\ \E c \in Clients : point[c] = "bucket")
    /\ \A c \in Clients : WF_throttleVars(Advance(c))
-----------------------------------------------------------------------------
\* stats.in_flight counts the calls under way, through failures as well.
InFlightCounts == inFlight = Cardinality({c \in Clients : point[c] \in {"call", "leave"}})

\* The service never has more than max_concurrent requests from this kernel,
\* and the counter says how many there are: it neither drifts when calls fail
\* nor, with its peak, ever reports more than were allowed.
ConcurrencyCapped ==
    /\ Cardinality({c \in Clients : point[c] = "call"}) <= MaxConcurrent
    /\ InFlightCounts
    /\ inFlight <= MaxConcurrent /\ peak <= MaxConcurrent

\* The bucket's guarantee: in any second, and in any part of one, at most a
\* full bucket and what drips in meanwhile, however late the bucket is asked
\* and by whom.
GrantsBounded == \A i \in 1 .. Rate : granted[i] <= Capacity + Rate - i

\* Every chat() returns: no permit or token is lost to a thread that failed.
EveryCallReturns == \A c \in Clients : point[c] = "bucket" ~> point[c] = "idle"
=============================================================================
