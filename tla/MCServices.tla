----------------------------- MODULE MCServices -----------------------------
(***************************************************************************)
(* What agents wait for and depend on: the Priority scheduler with aging,  *)
(* the throttle in front of the LLM service, and the sandbox.  They share  *)
(* no state, so a behaviour of all three is an interleaving of one         *)
(* behaviour of each, and a property of one of them holds of the whole if  *)
(* it holds while the others rest.  Only such behaviours are explored.     *)
(*                                                                         *)
(* The scheduler has an agent of default priority among two that keep      *)
(* coming, one as high as can be and one almost.  A step of theirs lasts   *)
(* up to the 30 seconds of an LLM call's timeout, which is three ticks, so *)
(* four steps are enough for them to earn the whole bonus themselves.      *)
(* Three threads pass the throttle.  A coder runs programs under every     *)
(* setting; coders share nothing but the daemon, which may do to one what  *)
(* it does to all.                                                         *)
(***************************************************************************)
EXTENDS Batcher, Aging, Sandbox, TLC

CONSTANTS c1, c2, c3, low, high, top

DefaultAmongHigh == low :> 5 @@ high :> 8 @@ top :> 9

\* The lowest priority against a stream of the highest.
LowestAmongTop == low :> 0 @@ high :> 9 @@ top :> 9

ServicesInit == ThrottleInit /\ AgingInit /\ Init

\* One of the settings under which the sandbox may rest.
SandboxRests == Init /\ preference = "auto" /\ failClosed /\ daemon

ServicesNext ==
    \/ ThrottleNext /\ AgingInit /\ SandboxRests /\ UNCHANGED <<agingVars, vars>>
    \/ AgingNext /\ ThrottleInit /\ SandboxRests /\ UNCHANGED <<throttleVars, vars>>
    \/ Next /\ ThrottleInit /\ AgingInit /\ UNCHANGED <<throttleVars, agingVars>>

ServicesSpec ==
    /\ ServicesInit
    /\ [][ServicesNext]_<<throttleVars, agingVars, vars>>
    /\ ThrottleFairness /\ AgingFairness /\ Fairness
=============================================================================
