------------------------------- MODULE Quota -------------------------------
(***************************************************************************)
(* The OS-wide budget of LLM calls, gcos/kernel/quota.py.  Every method    *)
(* runs under one lock, so each is one action.                             *)
(***************************************************************************)
EXTENDS Naturals

CONSTANTS
    QuotaTotal,   \* quota_total of the kernel's configuration
    MaxTotal      \* bound: top-ups stop when the ceiling reaches it

ASSUME QuotaAssumption ==
    /\ QuotaTotal \in Nat
    /\ MaxTotal \in Nat

VARIABLES
    total,      \* the ceiling _total
    remaining   \* the counter _remaining

quotaVars == <<total, remaining>>

QuotaTypeOK ==
    /\ total \in Nat
    /\ remaining \in 0 .. total

QuotaInit ==
    /\ total = QuotaTotal
    /\ remaining = QuotaTotal
-----------------------------------------------------------------------------
\* Mutant of Acquire: the balance is not looked at.
AcquireUnchecked ==
    /\ remaining' = remaining - 1
    /\ UNCHANGED total

\* acquire(1) and acquire_blocking(1) when a unit is there.
Acquire ==
    /\ remaining >= 1
    /\ remaining' = remaining - 1
    /\ UNCHANGED total

\* acquire(1) returning False; acquire_blocking(1) at its timeout.
Exhausted ==
    /\ remaining < 1
    /\ UNCHANGED quotaVars

\* acquire_up_to(n): what is there, up to n.
Grant(n) == IF n < remaining THEN n ELSE remaining

AcquireUpTo(n) ==
    /\ remaining' = remaining - Grant(n)
    /\ UNCHANGED total

\* Mutant of Refund: the units are not given back.
RefundLost(n) == UNCHANGED quotaVars

\* refund(n): never above the ceiling.
Refund(n) ==
    /\ remaining' = IF remaining + n > total THEN total ELSE remaining + n
    /\ UNCHANGED total

\* topup(1): raise the ceiling and the balance together.
Topup ==
    /\ total < MaxTotal
    /\ total' = total + 1
    /\ remaining' = remaining + 1
=============================================================================
