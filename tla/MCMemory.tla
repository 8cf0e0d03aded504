------------------------------ MODULE MCMemory ------------------------------
(***************************************************************************)
(* Everything that holds data: the context pager, the shared-memory ring   *)
(* and the page store.  They share no state and do not call each other, so *)
(* a behaviour of all three is an interleaving of one behaviour of each,   *)
(* and a property of one of them holds of the whole if it holds while the  *)
(* others rest.  Only such behaviours are explored.                        *)
(*                                                                         *)
(* The policies are the three of default_policies(), in their order, with  *)
(* floors and batches under which each of them comes into play: LRU stops  *)
(* at three pages, two can be summarized, and swapping stops at two.  The  *)
(* messages leave the ring exactly full, wrap both prefix and payload, and *)
(* do not all fit.  The bodies are empty, less than a page, a whole page   *)
(* and more than one, and fill the store exactly or not.                   *)
(***************************************************************************)
EXTENDS ContextPager, ShmRing, PageStore

CONSTANTS k1, k2

Lru(keep) == [kind |-> "lru", keep |-> keep, batch |-> 1]
Swap(keep, n) == [kind |-> "swap", keep |-> keep, batch |-> n]
Summarize(n) == [kind |-> "summarize", keep |-> 0, batch |-> n]

TightPolicies == <<Lru(3), Summarize(2), Swap(2, 2)>>

MCMessages == {<<>>, <<7>>, <<1, 2>>, <<9, 8, 7, 6, 5>>, <<1, 2, 3, 4, 5, 6, 7, 8>>}

MCBodies == {<<>>, <<1>>, <<1, 2>>, <<3, 2, 1>>}

MemoryInit == Init /\ RingInit /\ StoreInit

MemoryNext ==
    \/ Next /\ RingInit /\ StoreInit /\ UNCHANGED <<ringVars, storeVars>>
    \/ RingNext /\ Init /\ StoreInit /\ UNCHANGED <<vars, storeVars>>
    \/ StoreNext /\ Init /\ RingInit /\ UNCHANGED <<vars, ringVars>>

MemorySpec == MemoryInit /\ [][MemoryNext]_<<vars, ringVars, storeVars>> /\ Fairness
=============================================================================
