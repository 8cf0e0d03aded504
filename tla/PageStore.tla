----------------------------- MODULE PageStore -----------------------------
(***************************************************************************)
(* The demand-paged store of gcos/osprims/vmem.py: page bodies in a mapped *)
(* file, from which slots are given out from low to high addresses and     *)
(* never reused, not even when a key is stored again.  The mapping is      *)
(* shared, so what was written stays in the file's pages when madvise      *)
(* takes the memory away; that it is read back from there is the kernel's  *)
(* doing.                                                                  *)
(***************************************************************************)
EXTENDS Naturals, Sequences, FiniteSets

CONSTANTS
    Keys,       \* the keys of pages
    Bodies,     \* page bodies, sequences of bytes
    PageSize,   \* PAGE
    Slots,      \* capacity_pages; mmap refuses none
    OwnsPath,   \* the file is a temporary one of the store's own
    MaxOuts     \* bound: pages paged out

ASSUME StoreAssumption ==
    /\ IsFiniteSet(Keys) /\ Bodies \subseteq Seq(Nat)
    /\ PageSize \in Nat \ {0} /\ Slots \in Nat \ {0} /\ MaxOuts \in Nat
    /\ OwnsPath \in BOOLEAN

VARIABLES
    stage,      \* how far __init__() is, or that the store is closed
    held,       \* of the backing file and its descriptor, what there is
    mm,         \* the mapped bytes
    nextOff,    \* _next_off
    refs,       \* the PageRef of each key in _pages
    pageOuts,   \* _page_outs
    faultIns,   \* _fault_ins
    answer      \* history: what the last call returned or raised

resourceVars == <<stage, held>>
storeVars == <<resourceVars, mm, nextOff, refs, pageOuts, faultIns, answer>>

Offsets == 0 .. Slots * PageSize - 1

PageRef == [offset : Nat, length : Nat, slots : Nat \ {0}, resident : BOOLEAN]

Answers == [kind : {"none", "stored", "MemoryError", "KeyError"}, body : {<<>>}]
               \cup [kind : {"body"}, body : Seq(Nat)]

Answer(kind, b) == [kind |-> kind, body |-> b]

\* Mapping, references and counters keep to their domains.
StoreTypeOK ==
    /\ stage \in {"new", "made", "sized", "opened", "ready", "failed", "closed"}
    /\ held \subseteq {"file", "fd"}
    /\ mm \in [Offsets -> Nat]
    /\ nextOff \in 0 .. Slots * PageSize
    /\ DOMAIN refs \subseteq Keys /\ refs \in [DOMAIN refs -> PageRef]
    /\ pageOuts \in Nat /\ faultIns \in Nat
    /\ answer \in Answers

StoreInit ==
    /\ stage = "new"
    /\ held = {}
    /\ mm = [i \in Offsets |-> 0]
    /\ nextOff = 0
    /\ refs = <<>>
    /\ pageOuts = 0 /\ faultIns = 0
    /\ answer = Answer("none", <<>>)
-----------------------------------------------------------------------------
(***************************************************************************)
(* __init__(), whose steps may each fail, and close()                      *)
(***************************************************************************)
\* What goes with the store: its descriptor, and a file of its own.
Own == {"fd"} \cup (IF OwnsPath THEN {"file"} ELSE {})

\* mkstemp, for a store without a path; open() and truncate(); os.open; mmap.
Construct ==
    /\ \/ stage = "new" /\ stage' = "made" /\ held' = Own \ {"fd"}
       \/ stage = "made" /\ stage' = "sized" /\ held' = {"file"}
       \/ stage = "sized" /\ stage' = "opened" /\ held' = {"file", "fd"}
       \/ stage = "opened" /\ stage' = "ready" /\ UNCHANGED held
    /\ UNCHANGED <<mm, nextOff, refs, pageOuts, faultIns, answer>>

\* The except clause.
Abandon ==
    /\ stage \in {"made", "sized", "opened"}
    /\ stage' = "failed"
    /\ held' = held \ Own
    /\ UNCHANGED <<mm, nextOff, refs, pageOuts, faultIns, answer>>

CloseStore ==
    /\ stage = "ready"
    /\ stage' = "closed"
    /\ held' = held \ Own
    /\ UNCHANGED <<mm, nextOff, refs, pageOuts, faultIns, answer>>

(***************************************************************************)
(* store(), page_out() and read()                                          *)
(***************************************************************************)
\* Mutant of SlotsFor: rounded down.
SlotsForDown(b) == IF Len(b) < PageSize THEN 1 ELSE Len(b) \div PageSize

\* The slots of a body: at least one, the last one possibly in part.
SlotsFor(b) ==
    IF b = <<>> THEN 1 ELSE (Len(b) + PageSize - 1) \div PageSize

Store(k, b) ==
    /\ stage = "ready"
    /\ LET need == SlotsFor(b) * PageSize
       IN  \/ /\ nextOff + need > Slots * PageSize
              /\ answer' = Answer("MemoryError", <<>>)
              /\ UNCHANGED <<mm, nextOff, refs>>
           \/ /\ nextOff + need <= Slots * PageSize
              /\ nextOff' = nextOff + need
              /\ mm' = [i \in Offsets |-> IF i \in nextOff .. nextOff + Len(b) - 1
                                          THEN b[i - nextOff + 1] ELSE mm[i]]
              /\ refs' = [x \in DOMAIN refs \cup {k} |->
                    IF x = k THEN [offset |-> nextOff, length |-> Len(b),
                                   slots |-> SlotsFor(b), resident |-> TRUE]
                    ELSE refs[x]]
              /\ answer' = Answer("stored", <<>>)
    /\ UNCHANGED <<resourceVars, pageOuts, faultIns>>

\* An unknown key and a page that is out already are left alone.
PageOut(k) ==
    /\ stage = "ready"
    /\ k \in DOMAIN refs
    /\ refs[k].resident
    /\ pageOuts < MaxOuts
    /\ refs' = [refs EXCEPT ![k].resident = FALSE]
    /\ pageOuts' = pageOuts + 1
    /\ UNCHANGED <<resourceVars, mm, nextOff, faultIns, answer>>

\* The bytes a reference stands for.
Body(ref) == [i \in 1 .. ref.length |-> mm[ref.offset + i - 1]]

ReadPage(k) ==
    /\ stage = "ready"
    /\ \/ /\ k \notin DOMAIN refs
          /\ answer' = Answer("KeyError", <<>>)
          /\ UNCHANGED <<refs, faultIns>>
       \/ /\ k \in DOMAIN refs
          /\ faultIns' = IF refs[k].resident THEN faultIns ELSE faultIns + 1
          /\ refs' = [refs EXCEPT ![k].resident = TRUE]
          /\ answer' = Answer("body", Body(refs[k]))
    /\ UNCHANGED <<resourceVars, mm, nextOff, pageOuts>>

StoreNext ==
    \/ Construct \/ Abandon \/ CloseStore
    \/ \E k \in Keys :
          PageOut(k) \/ ReadPage(k) \/ \E b \in Bodies : Store(k, b)

StoreSpec == StoreInit /\ [][StoreNext]_storeVars
-----------------------------------------------------------------------------
Content == [k \in DOMAIN refs |-> Body(refs[k])]

Life == CASE stage = "ready" -> "open"
          [] stage \in {"failed", "closed"} -> "ended"
          [] OTHER -> "opening"

Promised == INSTANCE KeyValueStore WITH
    content <- Content,
    room <- Slots * PageSize - nextOff,
    reply <- answer,
    life <- Life,
    holds <- held \cap Own

\* The store implements the dictionary: a body is read back as it was last
\* stored, resident or paged out, whatever was stored next to it or under its
\* key before; a body that does not fit is refused and changes nothing, one
\* that fits exactly is not; and construction that fails half way leaves no
\* descriptor and no temporary file.
ImplementsStore == Promised!Spec

\* Every fault that fault_stats() reports answers a page-out of its own, and
\* the pages that are out now have not been answered yet.
FaultsAnswered ==
    faultIns + Cardinality({k \in DOMAIN refs : ~refs[k].resident}) <= pageOuts
=============================================================================
