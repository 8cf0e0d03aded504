---------------------------- MODULE ContextPager ----------------------------
(***************************************************************************)
(* The memory manager of gcos/memory for one agent: the pages of its       *)
(* conversation, the pager that brings them within a token budget before   *)
(* each LLM call, the eviction policies it tries in order, the swap files  *)
(* and swap_in(), which an operator may call at any time.                  *)
(*                                                                         *)
(* A page tells of one turn or, when it is a summary, of several; turns    *)
(* are numbered through all boots.  Pages with role "system" are the       *)
(* pinned prompt and the summaries, so the tests of `pinned' and           *)
(* `summarized' cover that of the role.  last_access is the reading of a   *)
(* clock that advances with every use.                                     *)
(***************************************************************************)
EXTENDS Quota, Sequences, FiniteSets, SequencesExt

CONSTANTS
    Policies,       \* the pager's policies, in the order they are tried
    Budget,         \* budget_tokens
    PinnedTokens,   \* estimate for a pinned prompt; 0 for an agent without one
    PromptTokens,   \* estimate for the prompt sent along with the first call
    ReplyTokens,    \* tokens a reply may count; 0 where Solar reports none
    Estimate,       \* estimate_tokens of a page without a count
    SummaryTokens,  \* tokens of a summary
    Rounds,         \* the pager's guard, 16
    MaxTurns,       \* bound: replies, over all boots
    MaxSwapIns      \* bound: calls of swap_in()

ASSUME PagerAssumption ==
    /\ Policies \in Seq([kind : {"lru", "swap", "summarize"}, keep : Nat,
                         batch : Nat \ {0}])
    /\ \A n \in {Budget, PinnedTokens, PromptTokens, Rounds, MaxTurns, MaxSwapIns} :
          n \in Nat
    /\ ReplyTokens \subseteq Nat
    /\ Estimate \in Nat \ {0} /\ SummaryTokens \in Nat \ {0}

VARIABLES
    pages,      \* context_pages
    files,      \* the swap files of this PID, oldest first
    clock,      \* time.time()
    turns,      \* turns recorded since the first boot
    born,       \* turns recorded before this boot
    at,         \* where assemble() and the LLM call that follows are
    next,       \* the policy that is tried next
    guard,      \* rounds the pager may still make
    batch,      \* the pages that are being summarized
    restore,    \* the pages that a running swap_in() has yet to append
    swapIns,    \* calls of swap_in() so far
    dropped,    \* history: turns that LRU dropped
    summaries,  \* history: summaries that Solar wrote since boot
    disturbed   \* history: swap_in() appended during this assemble()

loopVars == <<next, guard>>
swapInVars == <<restore, swapIns, disturbed>>
convVars == <<turns, born>>
vars == <<quotaVars, pages, files, clock, convVars, at, loopVars, batch, swapInVars,
          dropped, summaries>>

Page == [turns : SUBSET Nat, tokens : Nat, pinned : BOOLEAN, summarized : BOOLEAN,
         access : Nat]

Init ==
    /\ QuotaInit
    /\ pages = <<>> /\ files = <<>> /\ restore = <<>> /\ batch = <<>>
    /\ clock = 1 /\ turns = 0 /\ born = 0 /\ swapIns = 0
    /\ at = "idle" /\ next = 1 /\ guard = 0
    /\ dropped = {} /\ summaries = 0 /\ disturbed = FALSE
-----------------------------------------------------------------------------
NewPage(t, n, time) ==
    [turns |-> {t}, tokens |-> n, pinned |-> FALSE, summarized |-> FALSE,
     access |-> time]

\* _page_tokens
PageTokens(p) == IF p.tokens > 0 THEN p.tokens ELSE Estimate

\* context_size
SizeOf(s) == FoldLeft(LAMBDA sum, p : sum + PageTokens(p), 0, s)

Size == SizeOf(pages)

\* Over budget, together with the prompt that goes along with the first call.
Over == Size + (IF turns = born THEN PromptTokens ELSE 0) > Budget

Evictable == {i \in DOMAIN pages : ~pages[i].pinned}

Unsummarized == {i \in Evictable : ~pages[i].summarized}

\* The first n of the pages at the positions S, sorted by last_access.
Oldest(S, n) ==
    LET before(i) == {j \in S : \/ pages[j].access < pages[i].access
                                \/ pages[j].access = pages[i].access /\ j < i}
        size == IF n < Cardinality(S) THEN n ELSE Cardinality(S)
    IN  [k \in 1 .. size |-> pages[CHOOSE i \in S : Cardinality(before(i)) = k - 1]]

\* list.remove for each page of b: the first page that equals it.
Without(s, b) == FoldLeft(LAMBDA rest, p : RemoveFirst(rest, p), s, b)

TurnsOf(s) == UNION {p.turns : p \in ToSet(s)}
-----------------------------------------------------------------------------
(***************************************************************************)
(* assemble(): the policy loop                                             *)
(***************************************************************************)
\* A coder's system prompt is put in front before the first assemble().
Assemble ==
    /\ at = "idle"
    /\ turns < MaxTurns
    /\ at' = "evict" /\ next' = 1 /\ guard' = Rounds
    /\ disturbed' = FALSE
    /\ pages' = IF PinnedTokens > 0 /\ \A p \in ToSet(pages) : ~p.pinned
                THEN <<[turns |-> {}, tokens |-> PinnedTokens, pinned |-> TRUE,
                        summarized |-> FALSE, access |-> clock]>> \o pages
                ELSE pages
    /\ clock' = clock + 1
    /\ UNCHANGED <<quotaVars, files, convVars, batch, restore, swapIns, dropped,
                   summaries>>

\* The loop goes on to its next policy.
Trying(kind) ==
    /\ at = "evict"
    /\ Over /\ guard > 0
    /\ next <= Len(Policies)
    /\ Policies[next].kind = kind

Freed == next' = 1 /\ guard' = guard - 1

\* Mutant of FreedNothing: the loop ends with the first policy that fails.
FreedNothingGivesUp == next' = Len(Policies) + 1 /\ UNCHANGED guard

\* Mutant of FreedNothing: the same policy is tried for ever.
FreedNothingStays == UNCHANGED <<next, guard>>

FreedNothing == next' = next + 1 /\ UNCHANGED guard

EvictLru ==
    /\ Trying("lru")
    /\ \/ /\ Cardinality(Evictable) <= Policies[next].keep
          /\ FreedNothing
          /\ UNCHANGED <<pages, dropped>>
       \/ /\ Cardinality(Evictable) > Policies[next].keep
          /\ Freed
          /\ LET victim == Oldest(Evictable, 1)
             IN  /\ pages' = Without(pages, victim)
                 /\ dropped' = dropped \cup TurnsOf(victim)
    /\ UNCHANGED <<quotaVars, files, clock, convVars, at, batch, swapInVars,
                   summaries>>

\* Mutant of EvictSwap: the pages are not written.
EvictSwapUnwritten ==
    /\ Trying("swap")
    /\ Cardinality(Evictable) > Policies[next].keep
    /\ Freed
    /\ pages' = Without(pages, Oldest(Evictable, Policies[next].batch))
    /\ UNCHANGED <<quotaVars, files, clock, convVars, at, batch, swapInVars, dropped,
                   summaries>>

EvictSwap ==
    /\ Trying("swap")
    /\ \/ /\ Cardinality(Evictable) <= Policies[next].keep
          /\ FreedNothing
          /\ UNCHANGED <<pages, files>>
       \/ /\ Cardinality(Evictable) > Policies[next].keep
          /\ Freed
          /\ LET out == Oldest(Evictable, Policies[next].batch)
             IN  /\ files' = Append(files, out)
                 /\ pages' = Without(pages, out)
    /\ UNCHANGED <<quotaVars, clock, convVars, at, batch, swapInVars, dropped,
                   summaries>>

\* Too few pages, or no quota: nothing freed.  Else the call is paid for; the
\* client is there, as every executor passes one, so no factory can fail here.
EvictSummarize ==
    /\ Trying("summarize")
    /\ LET n == Policies[next].batch
       IN  \/ /\ Cardinality(Unsummarized) < n
              /\ FreedNothing
              /\ UNCHANGED <<quotaVars, at, batch>>
           \/ /\ Cardinality(Unsummarized) >= n
              /\ Exhausted
              /\ FreedNothing
              /\ UNCHANGED <<at, batch>>
           \/ /\ Cardinality(Unsummarized) >= n
              /\ Acquire
              /\ batch' = Oldest(Unsummarized, n)
              /\ at' = "summarize"
              /\ UNCHANGED loopVars
    /\ UNCHANGED <<pages, files, clock, convVars, swapInVars, dropped, summaries>>

\* Mutant of Summarized: the summary goes to the end.
SummarizedLast(s, b, summary) == Append(Without(s, b), summary)

\* The summary takes the place of the first page of the batch.
Summarized(s, b, summary) ==
    LET i == SelectInSeq(s, LAMBDA p : p = b[1])
        rest == Without(s, b)
    IN  IF i <= Len(rest) THEN InsertAt(rest, i, summary) ELSE Append(rest, summary)

SummaryReturns ==
    /\ at = "summarize"
    /\ pages' = Summarized(pages, batch,
            [turns |-> TurnsOf(batch), tokens |-> SummaryTokens, pinned |-> FALSE,
             summarized |-> TRUE, access |-> clock])
    /\ clock' = clock + 1
    /\ summaries' = summaries + 1
    /\ batch' = <<>>
    /\ at' = "evict"
    /\ IF Len(batch) > 1 THEN Freed ELSE FreedNothing
    /\ UNCHANGED <<quotaVars, files, convVars, swapInVars, dropped>>

\* The call raised: the unit is given back and the agent's step fails.
SummaryFails ==
    /\ at = "summarize"
    /\ Refund(1)
    /\ batch' = <<>>
    /\ at' = "failed"
    /\ UNCHANGED <<pages, files, clock, convVars, loopVars, swapInVars, dropped,
                   summaries>>

\* The loop ends: everything fits, the guard is used up or no policy helps.
\* The messages are made of the pages, which are touched one after another.
Send ==
    /\ at = "evict"
    /\ ~Over \/ guard = 0 \/ next > Len(Policies)
    /\ pages' = [i \in DOMAIN pages |-> [pages[i] EXCEPT !.access = clock + i]]
    /\ clock' = clock + Len(pages) + 1
    /\ at' = "chat"
    /\ UNCHANGED <<quotaVars, files, convVars, loopVars, batch, swapInVars, dropped,
                   summaries>>

(***************************************************************************)
(* The LLM call that assemble() was for                                    *)
(***************************************************************************)
\* The prompt is recorded with the first reply; then reply and observation.
Reply ==
    /\ at = "chat"
    /\ \E n \in ReplyTokens :
          LET first == turns = born
              new == IF first THEN <<PromptTokens, n, 0>> ELSE <<n, 0>>
          IN  /\ pages' = pages \o [i \in DOMAIN new |->
                                NewPage(turns + i, new[i], clock + i)]
              /\ turns' = turns + Len(new)
              /\ clock' = clock + Len(new) + 1
    /\ at' = "idle"
    /\ UNCHANGED <<quotaVars, files, born, loopVars, batch, swapInVars, dropped,
                   summaries>>

ChatFails ==
    /\ at = "chat"
    /\ at' = "failed"
    /\ UNCHANGED <<quotaVars, pages, files, clock, convVars, loopVars, batch,
                   swapInVars, dropped, summaries>>

(***************************************************************************)
(* swap_in() and the next boot                                             *)
(***************************************************************************)
SwapIn ==
    /\ swapIns < MaxSwapIns
    /\ restore = <<>>
    /\ files # <<>>
    /\ restore' = FlattenSeq(files)
    /\ swapIns' = swapIns + 1
    /\ UNCHANGED <<quotaVars, pages, files, clock, convVars, at, loopVars, batch,
                   disturbed, dropped, summaries>>

RestorePage ==
    /\ restore # <<>>
    /\ pages' = Append(pages, Head(restore))
    /\ restore' = Tail(restore)
    /\ disturbed' = TRUE
    /\ UNCHANGED <<quotaVars, files, clock, convVars, at, loopVars, batch, swapIns,
                   dropped, summaries>>

\* Everything but the swap files is gone, and PIDs are handed out anew.
Reboot ==
    /\ turns > born
    /\ born' = turns
    /\ pages' = <<>> /\ restore' = <<>> /\ batch' = <<>>
    /\ at' = "idle" /\ next' = 1 /\ guard' = 0
    /\ dropped' = {} /\ summaries' = 0 /\ disturbed' = FALSE
    /\ total' = QuotaTotal /\ remaining' = QuotaTotal
    /\ UNCHANGED <<files, clock, turns, swapIns>>

Pager ==
    \/ EvictLru \/ EvictSwap \/ EvictSummarize
    \/ SummaryReturns \/ SummaryFails \/ Send

Next ==
    \/ Assemble \/ Pager \/ Reply \/ ChatFails
    \/ SwapIn \/ RestorePage
    \/ Reboot

Spec == Init /\ [][Next]_vars

\* A step under way goes on, its LLM call ends by itself or by its timeout,
\* and swap_in() runs to its return.
Fairness == WF_vars(Pager) /\ WF_vars(RestorePage)

FairSpec == Spec /\ Fairness
-----------------------------------------------------------------------------
\* Pages, swap files and locals keep to their domains.
TypeOK ==
    /\ QuotaTypeOK
    /\ pages \in Seq(Page) /\ batch \in Seq(Page) /\ restore \in Seq(Page)
    /\ files \in Seq(Seq(Page))
    /\ at \in {"idle", "evict", "summarize", "chat", "failed"}
    /\ next \in 1 .. Len(Policies) + 1
    /\ guard \in 0 .. Rounds

\* No turn of the conversation disappears except by an LRU drop: it is told by
\* a page in the context, by a summary there, or by a swap file, whatever
\* summarizing, swapping and restoring happened to it in between.  The pinned
\* prompt is in every context that is sent.
NothingVanishes ==
    /\ \A t \in born + 1 .. turns :
          t \in TurnsOf(pages) \cup dropped \cup UNION {TurnsOf(f) : f \in ToSet(files)}
    /\ at = "chat" /\ PinnedTokens > 0 => \E p \in ToSet(pages) : p.pinned

\* Without swap_in() the context tells the turns in their order, although the
\* victims are chosen by their last access and summaries take their place.
InTurnOrder ==
    swapIns = 0 =>
        \A i, j \in DOMAIN pages : i < j =>
            \A t \in pages[i].turns, u \in pages[j].turns : t < u

\* What policy p could free nothing of.
Stuck(p) ==
    \/ p.kind \in {"lru", "swap"} /\ Cardinality(Evictable) <= p.keep
    \/ p.kind = "summarize" /\ (Cardinality(Unsummarized) < p.batch \/ remaining < 1)

\* Messages over budget are sent only when every policy is at its end or the
\* guard is used up: the loop starts again with the cheapest policy after each
\* success and gives up only after a whole round without one.
FitsOrStuck ==
    at = "chat" /\ ~disturbed /\ Over =>
        guard = 0 \/ \A i \in DOMAIN Policies : Stuck(Policies[i])

\* The OS pays for its own summaries: each costs one unit, a failed one none.
SummariesPaid ==
    remaining + summaries + (IF at = "summarize" THEN 1 ELSE 0) = total

\* The policy loop ends, whatever swap_in() adds meanwhile.
AssembleEnds == at = "evict" ~> at \in {"chat", "failed", "idle"}
=============================================================================
