--------------------------- MODULE OsprimsProofs ---------------------------
(***************************************************************************)
(* The data structures of gcos/osprims implement what they promise, for    *)
(* every capacity.  The page store is a dictionary, because slots below    *)
(* nextOff are never written again: every reference ends there.  The ring  *)
(* in shared memory is a stream of frames as long as the two processes are *)
(* not inside it together, because cells between tail and head are not     *)
(* written.                                                                *)
(***************************************************************************)
EXTENDS PageStore, ShmRing, FiniteSetTheorems, SequenceTheorems, TLAPS

(***************************************************************************)
(* The page store                                                          *)
(***************************************************************************)
\* References end where free space begins.
StoreInv ==
    /\ StoreTypeOK
    /\ \A k \in DOMAIN refs : refs[k].offset + refs[k].length <= nextOff

-----------------------------------------------------------------------------
\* Rounding up: SlotsFor gives as few pages as hold the body, and one for an
\* empty one.
LEMMA RoundUp ==
    ASSUME NEW n \in Nat \ {0}, NEW q \in Nat \ {0}
    PROVE  LET s == (n + q - 1) \div q
           IN  /\ s \in 1 .. n
               /\ n <= s * q
               /\ s = 1 \/ (s - 1) * q < n
<1> DEFINE m == n + q - 1
           s == m \div q
           r == m % q
<1>1. m \in Nat /\ m >= q
  OBVIOUS
<1>2. /\ s \in Nat /\ r \in 0 .. q - 1
      /\ m = q * s + r
  BY <1>1, Z3
<1>3. n <= s * q /\ (s - 1) * q < n
  BY <1>2, Z3
<1>4. s >= 1
  BY <1>2, <1>3, Z3
<1>5. s <= n
  BY <1>2, <1>3, <1>4, Z3
<1> QED
  BY <1>2, <1>3, <1>4, <1>5

\* The slots of a body, as the dictionary's specification counts them.
LEMMA SlotsTaken ==
    ASSUME NEW b \in Seq(Nat)
    PROVE  /\ SlotsFor(b) \in 1 .. Len(b) + 1
           /\ Promised!Takes(b, SlotsFor(b))
<1>1. CASE b = <<>>
  BY <1>1, StoreAssumption DEF SlotsFor, Promised!Takes
<1>2. CASE b # <<>>
  <2>1. Len(b) \in Nat \ {0}
    BY <1>2
  <2> QED
    BY <2>1, <1>2, RoundUp, StoreAssumption DEF SlotsFor, Promised!Takes
<1> QED
  BY <1>1, <1>2

-----------------------------------------------------------------------------
\* What calls return and raise.
LEMMA AnswerTypes ==
    /\ \A e \in {"none", "stored", "MemoryError", "KeyError"} : Answer(e, <<>>) \in Answers
    /\ \A b \in Seq(Nat) : Answer("body", b) \in Answers
BY DEF Answer, Answers

\* The region and its references are as they should be at the start.
LEMMA StoreInvInit == StoreInit => StoreInv
<1> SUFFICES ASSUME StoreInit PROVE StoreInv
  OBVIOUS
<1>1. 0 \in 0 .. Slots * PageSize
  BY StoreAssumption
<1>2. refs = <<>> /\ DOMAIN refs = {} /\ refs \in [DOMAIN refs -> PageRef]
  BY DEF StoreInit
<1>3. answer \in Answers
  BY AnswerTypes DEF StoreInit
<1> QED
  BY <1>1, <1>2, <1>3 DEF StoreInit, StoreInv, StoreTypeOK

\* What a successful store() leaves behind.
LEMMA StoreKeepsInv ==
    ASSUME StoreInv, NEW k \in Keys, NEW b \in Bodies, Store(k, b)
    PROVE  StoreInv'
<1> USE StoreAssumption
<1>1. /\ b \in Seq(Nat) /\ Len(b) \in Nat
      /\ SlotsFor(b) \in Nat \ {0}
      /\ Len(b) <= SlotsFor(b) * PageSize
      /\ SlotsFor(b) * PageSize \in Nat /\ Slots * PageSize \in Nat
  BY SlotsTaken DEF Promised!Takes
<1> DEFINE need == SlotsFor(b) * PageSize
<1>4. nextOff \in Nat /\ nextOff <= Slots * PageSize
  BY <1>1 DEF StoreInv, StoreTypeOK
<1>5. UNCHANGED <<stage, held, pageOuts, faultIns>>
  BY DEF Store, resourceVars
<1>2. CASE nextOff + need > Slots * PageSize
  <2>1. answer' = Answer("MemoryError", <<>>) /\ UNCHANGED <<mm, nextOff, refs>>
    BY <1>1, <1>4, <1>2 DEF Store
  <2> QED
    BY <2>1, <1>5, AnswerTypes DEF StoreInv, StoreTypeOK
<1>3. CASE nextOff + need <= Slots * PageSize
  <2>1. /\ nextOff' = nextOff + need
        /\ nextOff' \in 0 .. Slots * PageSize
        /\ answer' = Answer("stored", <<>>)
    BY <1>1, <1>4, <1>3 DEF Store
  <2>2. mm' \in [Offsets -> Nat]
    <3>1. mm' = [i \in Offsets |-> IF i \in nextOff .. nextOff + Len(b) - 1
                                   THEN b[i - nextOff + 1] ELSE mm[i]]
      BY <1>1, <1>4, <1>3 DEF Store
    <3>2. \A i \in nextOff .. nextOff + Len(b) - 1 : b[i - nextOff + 1] \in Nat
      BY <1>1, <1>4
    <3> QED
      BY <3>1, <3>2 DEF StoreInv, StoreTypeOK
  <2> DEFINE new == [offset |-> nextOff, length |-> Len(b), slots |-> SlotsFor(b),
                     resident |-> TRUE]
  <2>3. /\ DOMAIN refs' = DOMAIN refs \cup {k}
        /\ refs' = [x \in DOMAIN refs \cup {k} |-> IF x = k THEN new ELSE refs[x]]
    BY <1>1, <1>4, <1>3 DEF Store
  <2>4. new \in PageRef
    BY <1>1 DEF PageRef, StoreInv, StoreTypeOK
  <2>5. DOMAIN refs' \subseteq Keys /\ refs' \in [DOMAIN refs' -> PageRef]
    BY <2>3, <2>4 DEF StoreInv, StoreTypeOK
  <2>6. \A x \in DOMAIN refs' : refs'[x].offset + refs'[x].length <= nextOff'
    <3> SUFFICES ASSUME NEW x \in DOMAIN refs'
                 PROVE  refs'[x].offset + refs'[x].length <= nextOff'
      OBVIOUS
    <3>1. CASE x = k
      BY <3>1, <2>1, <2>3, <1>1, SMTT(30) DEF StoreInv, StoreTypeOK
    <3>2. CASE x # k
      <4>1. /\ x \in DOMAIN refs /\ refs'[x] = refs[x]
            /\ refs[x].offset \in Nat /\ refs[x].length \in Nat
            /\ refs[x].offset + refs[x].length <= nextOff
        BY <3>2, <2>3 DEF StoreInv, StoreTypeOK, PageRef
      <4>2. \A y \in Nat : y <= nextOff => y <= nextOff'
        BY <2>1, <1>1, <1>4
      <4> QED
        BY <4>1, <4>2
    <3> QED
      BY <3>1, <3>2
  <2> QED
    BY <1>5, <2>1, <2>2, <2>5, <2>6, AnswerTypes DEF StoreInv, StoreTypeOK
<1> QED
  BY <1>1, <1>4, <1>2, <1>3

\* Paging out and reading change which pages are resident, nothing else.
LEMMA ResidencyKeepsInv ==
    ASSUME StoreInv, NEW k \in DOMAIN refs, NEW r \in BOOLEAN,
           refs' = [refs EXCEPT ![k].resident = r]
    PROVE  /\ DOMAIN refs' = DOMAIN refs
           /\ refs' \in [DOMAIN refs' -> PageRef]
           /\ \A x \in DOMAIN refs : /\ refs'[x].offset = refs[x].offset
                                     /\ refs'[x].length = refs[x].length
                                     /\ x # k => refs'[x] = refs[x]
           /\ \A x \in DOMAIN refs' : refs'[x].offset + refs'[x].length <= nextOff
           /\ refs'[k].resident = r
BY DEF StoreInv, StoreTypeOK, PageRef

\* A body read from the region is a sequence of bytes.
LEMMA BodyType ==
    ASSUME StoreInv, NEW k \in DOMAIN refs
    PROVE  Body(refs[k]) \in Seq(Nat)
<1>1. /\ refs[k].offset \in Nat /\ refs[k].length \in Nat
      /\ refs[k].offset + refs[k].length <= nextOff
      /\ nextOff <= Slots * PageSize /\ nextOff \in Nat /\ Slots * PageSize \in Nat
  BY StoreAssumption DEF StoreInv, StoreTypeOK, PageRef
<1>2. \A i \in 1 .. refs[k].length : mm[refs[k].offset + i - 1] \in Nat
  BY <1>1 DEF StoreInv, StoreTypeOK, Offsets
<1> QED
  BY <1>1, <1>2 DEF Body

\* Every step of the store keeps the invariant.
LEMMA StoreInvStep == StoreInv /\ [StoreNext]_storeVars => StoreInv'
<1> SUFFICES ASSUME StoreInv, [StoreNext]_storeVars PROVE StoreInv'
  OBVIOUS
<1>1. CASE Construct
  BY <1>1 DEF Construct, Own, StoreInv, StoreTypeOK
<1>2. CASE Abandon
  BY <1>2 DEF Abandon, StoreInv, StoreTypeOK
<1>3. CASE CloseStore
  BY <1>3 DEF CloseStore, StoreInv, StoreTypeOK
<1>4. ASSUME NEW k \in Keys, PageOut(k) PROVE StoreInv'
  <2>1. k \in DOMAIN refs /\ refs' = [refs EXCEPT ![k].resident = FALSE]
    BY <1>4 DEF PageOut
  <2>2. /\ DOMAIN refs' \subseteq Keys /\ refs' \in [DOMAIN refs' -> PageRef]
        /\ \A x \in DOMAIN refs' : refs'[x].offset + refs'[x].length <= nextOff
    BY <2>1, ResidencyKeepsInv DEF StoreInv, StoreTypeOK
  <2> QED
    BY <1>4, <2>2 DEF PageOut, resourceVars, StoreInv, StoreTypeOK
<1>5. ASSUME NEW k \in Keys, ReadPage(k) PROVE StoreInv'
  <2>1. CASE k \notin DOMAIN refs
    BY <1>5, <2>1
    DEF ReadPage, resourceVars, StoreInv, StoreTypeOK, Answer, Answers
  <2>2. CASE k \in DOMAIN refs
    <3>1. /\ refs' = [refs EXCEPT ![k].resident = TRUE]
          /\ answer' = Answer("body", Body(refs[k]))
          /\ faultIns' \in {faultIns, faultIns + 1}
          /\ UNCHANGED <<stage, held, mm, nextOff, pageOuts>>
      BY <1>5, <2>2 DEF ReadPage, resourceVars
    <3>2. answer' \in Answers
      BY <3>1, <2>2, BodyType DEF Answer, Answers
    <3>3. /\ DOMAIN refs' \subseteq Keys /\ refs' \in [DOMAIN refs' -> PageRef]
          /\ \A x \in DOMAIN refs' : refs'[x].offset + refs'[x].length <= nextOff
      BY <3>1, <2>2, ResidencyKeepsInv DEF StoreInv, StoreTypeOK
    <3> QED
      BY <3>1, <3>2, <3>3 DEF StoreInv, StoreTypeOK
  <2> QED
    BY <2>1, <2>2
<1>6. ASSUME NEW k \in Keys, NEW b \in Bodies, Store(k, b) PROVE StoreInv'
  BY <1>6, StoreKeepsInv
<1>7. CASE UNCHANGED storeVars
  BY <1>7 DEF storeVars, resourceVars, StoreInv, StoreTypeOK
<1> QED
  BY <1>1, <1>2, <1>3, <1>4, <1>5, <1>6, <1>7 DEF StoreNext

\* Every reference of the store lies in the part of the region that was given
\* out, inside the capacity, in every reachable state.
THEOREM StoreInvariant == StoreSpec => []StoreInv
<1> QED
  BY StoreInvInit, StoreInvStep, PTL DEF StoreSpec

-----------------------------------------------------------------------------
\* The body under a key is left alone by whoever writes above nextOff.
LEMMA BodyStays ==
    ASSUME StoreInv, NEW k \in DOMAIN refs,
           \A i \in Offsets : i < nextOff => mm'[i] = mm[i]
    PROVE  [i \in 1 .. refs[k].length |-> mm'[refs[k].offset + i - 1]] = Body(refs[k])
<1>1. /\ refs[k].offset \in Nat /\ refs[k].length \in Nat
      /\ refs[k].offset + refs[k].length <= nextOff
      /\ nextOff <= Slots * PageSize /\ nextOff \in Nat /\ Slots * PageSize \in Nat
  BY StoreAssumption DEF StoreInv, StoreTypeOK, PageRef
<1>2. \A i \in 1 .. refs[k].length :
         mm'[refs[k].offset + i - 1] = mm[refs[k].offset + i - 1]
  BY <1>1 DEF Offsets
<1> QED
  BY <1>2 DEF Body

\* A change of residency does not show in the dictionary.
LEMMA ContentStays ==
    ASSUME StoreInv, mm' = mm, DOMAIN refs' = DOMAIN refs,
           \A x \in DOMAIN refs : /\ refs'[x].offset = refs[x].offset
                                 /\ refs'[x].length = refs[x].length
    PROVE  Content' = Content
BY DEF Content, Body

\* store() that succeeds is Put on the dictionary.
LEMMA StoreIsPut ==
    ASSUME StoreInv, NEW k \in Keys, NEW b \in Bodies, Store(k, b)
    PROVE  Promised!Put(k, b)
<1> USE StoreAssumption
<1> DEFINE n == SlotsFor(b)
           need == n * PageSize
<1>1. /\ b \in Seq(Nat) /\ Len(b) \in Nat
      /\ n \in 1 .. Len(b) + 1 /\ Promised!Takes(b, n)
      /\ Len(b) <= need /\ need \in Nat /\ Slots * PageSize \in Nat
  BY SlotsTaken DEF Promised!Takes
<1>2. nextOff \in Nat /\ nextOff <= Slots * PageSize
  BY <1>1 DEF StoreInv, StoreTypeOK
<1>3. Life = "open" /\ Life' = Life /\ (held \cap Own)' = held \cap Own
  BY DEF Store, Life, resourceVars, Own
<1>4. CASE nextOff + need > Slots * PageSize
  <2>1. answer' = Answer("MemoryError", <<>>) /\ UNCHANGED <<mm, nextOff, refs>>
    BY <1>1, <1>2, <1>4 DEF Store
  <2>2. Content' = Content
    BY <2>1 DEF Content, Body
  <2>3. need > Slots * PageSize - nextOff
    BY <1>1, <1>2, <1>4
  <2> QED
    BY <1>1, <1>3, <2>1, <2>2, <2>3 DEF Promised!Put, Promised!Reply, Answer
<1>5. CASE nextOff + need <= Slots * PageSize
  <2> DEFINE new == [offset |-> nextOff, length |-> Len(b), slots |-> n,
                     resident |-> TRUE]
  <2>1. /\ answer' = Answer("stored", <<>>)
        /\ nextOff' = nextOff + need
        /\ mm' = [i \in Offsets |-> IF i \in nextOff .. nextOff + Len(b) - 1
                                    THEN b[i - nextOff + 1] ELSE mm[i]]
        /\ refs' = [x \in DOMAIN refs \cup {k} |-> IF x = k THEN new ELSE refs[x]]
    BY <1>1, <1>2, <1>5 DEF Store
  <2>2. DOMAIN Content' = DOMAIN refs \cup {k} /\ DOMAIN Content = DOMAIN refs
    BY <2>1 DEF Content
  <2>3. \A i \in Offsets : i < nextOff => mm'[i] = mm[i]
    BY <2>1, <1>2
  <2>4. ASSUME NEW x \in DOMAIN refs, x # k PROVE Content'[x] = Content[x]
    <3>1. refs'[x] = refs[x]
      BY <2>1, <2>4
    <3>2. Content'[x] = [i \in 1 .. refs[x].length |-> mm'[refs[x].offset + i - 1]]
      BY <2>1, <3>1 DEF Content, Body
    <3> QED
      BY <2>3, <3>2, BodyStays DEF Content
  <2>5. Content'[k] = b
    <3>1. refs'[k] = new
      BY <2>1
    <3>2. Content'[k] = [i \in 1 .. Len(b) |-> mm'[nextOff + i - 1]]
      BY <2>1, <3>1 DEF Content, Body
    <3>3. \A i \in 1 .. Len(b) : mm'[nextOff + i - 1] = b[i]
      BY <1>1, <1>2, <1>5, <2>1 DEF Offsets
    <3> QED
      BY <1>1, <3>2, <3>3
  <2>6. Content' = [x \in DOMAIN Content \cup {k} |-> IF x = k THEN b ELSE Content[x]]
    BY <2>2, <2>4, <2>5 DEF Content
  <2>7. /\ need <= Slots * PageSize - nextOff
        /\ (Slots * PageSize - nextOff)' = Slots * PageSize - nextOff - need
    BY <1>1, <1>2, <1>5, <2>1
  <2> QED
    BY <1>1, <1>3, <2>1, <2>6, <2>7 DEF Promised!Put, Promised!Reply, Answer
<1> QED
  BY <1>1, <1>2, <1>4, <1>5

\* Every step of the store is a step of the dictionary or does not show in it.
LEMMA StoreRefines ==
    StoreInv /\ [StoreNext]_storeVars => [Promised!Next]_(Promised!abstractVars)
<1> SUFFICES ASSUME StoreInv, [StoreNext]_storeVars
             PROVE  Promised!Next \/ UNCHANGED Promised!abstractVars
  OBVIOUS
<1> USE DEF Promised!abstractVars
<1>1. CASE Construct
  <2>1. Content' = Content /\ UNCHANGED <<nextOff, answer>>
    BY <1>1 DEF Construct, Content, Body
  <2>2. Life = "opening" /\ Life' \in {"opening", "open"}
    BY <1>1 DEF Construct, Life
  <2>3. (held \cap Own)' \in SUBSET {"file", "fd"}
    BY <1>1 DEF Construct, Own, StoreInv, StoreTypeOK
  <2> QED
    BY <2>1, <2>2, <2>3 DEF Promised!Next, Promised!Open
<1>2. CASE Abandon \/ CloseStore
  <2>1. Content' = Content /\ UNCHANGED <<nextOff, answer>>
    BY <1>2 DEF Abandon, CloseStore, Content, Body
  <2>2. Life \in {"opening", "open"} /\ Life' = "ended"
    BY <1>2 DEF Abandon, CloseStore, Life
  <2>3. (held \cap Own)' = {}
    BY <1>2 DEF Abandon, CloseStore, Own
  <2> QED
    BY <2>1, <2>2, <2>3 DEF Promised!Next, Promised!End
<1>3. ASSUME NEW k \in Keys, PageOut(k) PROVE UNCHANGED Promised!abstractVars
  <2>1. /\ k \in DOMAIN refs /\ refs' = [refs EXCEPT ![k].resident = FALSE]
        /\ UNCHANGED <<stage, held, mm, nextOff, answer>>
    BY <1>3 DEF PageOut, resourceVars
  <2>2. Content' = Content
    BY <2>1, ResidencyKeepsInv, ContentStays
  <2> QED
    BY <2>1, <2>2 DEF Life, Own
<1>4. ASSUME NEW k \in Keys, ReadPage(k) PROVE Promised!Get(k)
  <2>1. /\ UNCHANGED <<stage, held, mm, nextOff>>
        /\ Life = "open" /\ Life' = Life
        /\ DOMAIN Content = DOMAIN refs
    BY <1>4 DEF ReadPage, resourceVars, Life, Content
  <2>2. CASE k \notin DOMAIN refs
    <3>1. refs' = refs /\ answer' = Answer("KeyError", <<>>)
      BY <1>4, <2>2 DEF ReadPage
    <3>2. Content' = Content
      BY <2>1, <3>1 DEF Content, Body
    <3> QED
      BY <2>1, <2>2, <3>1, <3>2 DEF Promised!Get, Promised!Reply, Answer, Own
  <2>3. CASE k \in DOMAIN refs
    <3>1. /\ refs' = [refs EXCEPT ![k].resident = TRUE]
          /\ answer' = Answer("body", Body(refs[k]))
      BY <1>4, <2>3 DEF ReadPage
    <3>2. Content' = Content
      BY <2>1, <2>3, <3>1, ResidencyKeepsInv, ContentStays
    <3>3. Content[k] = Body(refs[k])
      BY <2>3 DEF Content
    <3> QED
      BY <2>1, <2>3, <3>1, <3>2, <3>3 DEF Promised!Get, Promised!Reply, Answer, Own
  <2> QED
    BY <2>2, <2>3
<1>5. ASSUME NEW k \in Keys, NEW b \in Bodies, Store(k, b) PROVE Promised!Put(k, b)
  BY <1>5, StoreIsPut
<1>6. CASE UNCHANGED storeVars
  BY <1>6 DEF storeVars, resourceVars, Content, Body, Life, Own
<1> QED
  BY <1>1, <1>2, <1>3, <1>4, <1>5, <1>6 DEF StoreNext, Promised!Next

\* The initial states correspond.
LEMMA StoreInitRefines == StoreInit => Promised!Init
BY StoreAssumption
DEF StoreInit, Promised!Init, Promised!Reply, Answer, Content, Life

\* The page store of vmem.py is a dictionary in a bounded region, for every
\* capacity and page size, with nothing left behind at its end.
THEOREM StoreIsDictionary == StoreSpec => ImplementsStore
<1> QED
  BY StoreInvariant, StoreInitRefines, StoreRefines, PTL
  DEF StoreSpec, ImplementsStore, Promised!Spec

-----------------------------------------------------------------------------
\* The pages that are out.
Out == {k \in DOMAIN refs : ~refs[k].resident}

\* There are finitely many of them.
LEMMA OutFinite ==
    ASSUME StoreInv
    PROVE  IsFiniteSet(Out) /\ Cardinality(Out) \in Nat
BY FS_Subset, FS_CardinalityType, StoreAssumption DEF Out, StoreInv, StoreTypeOK

\* Paging out adds a page to them, reading and storing take one away.
LEMMA FaultsAnsweredStep ==
    ASSUME StoreInv, StoreInv', FaultsAnswered, [StoreNext]_storeVars
    PROVE  FaultsAnswered'
<1>1. /\ IsFiniteSet(Out) /\ Cardinality(Out) \in Nat
      /\ faultIns \in Nat /\ pageOuts \in Nat
      /\ faultIns + Cardinality(Out) <= pageOuts
  BY OutFinite DEF FaultsAnswered, Out, StoreInv, StoreTypeOK
<1> SUFFICES faultIns' + Cardinality(Out') <= pageOuts'
  BY DEF FaultsAnswered, Out
<1>2. ASSUME NEW k \in Keys, PageOut(k)
      PROVE  faultIns' + Cardinality(Out') <= pageOuts'
  <2>1. /\ k \in DOMAIN refs /\ refs[k].resident
        /\ refs' = [refs EXCEPT ![k].resident = FALSE]
        /\ faultIns' = faultIns /\ pageOuts' = pageOuts + 1
    BY <1>2 DEF PageOut
  <2>2. Out' = Out \cup {k} /\ k \notin Out
    BY <2>1, ResidencyKeepsInv DEF Out
  <2>3. Cardinality(Out') = Cardinality(Out) + 1
    BY <1>1, <2>2, FS_AddElement
  <2> QED
    BY <1>1, <2>1, <2>3
<1>3. ASSUME NEW k \in Keys, ReadPage(k)
      PROVE  faultIns' + Cardinality(Out') <= pageOuts'
  <2>1. CASE k \in DOMAIN refs /\ ~refs[k].resident
    <3>1. /\ refs' = [refs EXCEPT ![k].resident = TRUE]
          /\ faultIns' = faultIns + 1 /\ pageOuts' = pageOuts
      BY <1>3, <2>1 DEF ReadPage
    <3>2. Out' = Out \ {k} /\ k \in Out
      BY <2>1, <3>1, ResidencyKeepsInv DEF Out
    <3>3. Cardinality(Out') = Cardinality(Out) - 1
      BY <1>1, <3>2, FS_RemoveElement
    <3> QED
      BY <1>1, <3>1, <3>3
  <2>2. CASE k \in DOMAIN refs /\ refs[k].resident
    <3>1. /\ refs' = [refs EXCEPT ![k].resident = TRUE]
          /\ faultIns' = faultIns /\ pageOuts' = pageOuts
      BY <1>3, <2>2 DEF ReadPage
    <3>2. Out' = Out
      BY <2>2, <3>1, ResidencyKeepsInv DEF Out
    <3> QED
      BY <1>1, <3>1, <3>2
  <2>3. CASE k \notin DOMAIN refs
    BY <1>1, <1>3, <2>3 DEF ReadPage, Out
  <2> QED
    BY <2>1, <2>2, <2>3
<1>4. ASSUME NEW k \in Keys, NEW b \in Bodies, Store(k, b)
      PROVE  faultIns' + Cardinality(Out') <= pageOuts'
  <2>1. faultIns' = faultIns /\ pageOuts' = pageOuts
    BY <1>4 DEF Store
  <2>2. Out' \subseteq Out
    BY <1>4 DEF Store, Out
  <2>3. Cardinality(Out') <= Cardinality(Out) /\ Cardinality(Out') \in Nat
    BY <1>1, <2>2, FS_Subset, FS_CardinalityType
  <2> QED
    BY <1>1, <2>1, <2>3
<1>5. CASE Construct \/ Abandon \/ CloseStore \/ UNCHANGED storeVars
  BY <1>1, <1>5 DEF Construct, Abandon, CloseStore, storeVars, Out
<1> QED
  BY <1>2, <1>3, <1>4, <1>5 DEF StoreNext

\* The fault counters of fault_stats() never report a fault-in that no
\* page-out came before, for every sequence of calls.
THEOREM FaultCountersSound == StoreSpec => []FaultsAnswered
<1>1. StoreInit => FaultsAnswered
  <2> SUFFICES ASSUME StoreInit PROVE FaultsAnswered
    OBVIOUS
  <2>1. {k \in DOMAIN refs : ~refs[k].resident} = {}
    BY DEF StoreInit
  <2> QED
    BY <2>1, FS_EmptySet DEF StoreInit, FaultsAnswered
<1> QED
  BY <1>1, StoreInvariant, FaultsAnsweredStep, PTL DEF StoreSpec

(***************************************************************************)
(* The ring: cells and frames                                              *)
(***************************************************************************)
\* Offsets that are less than a capacity apart have cells of their own.
LEMMA CellsDiffer ==
    ASSUME NEW x \in Nat, NEW y \in Nat, x < y, y < x + Capacity
    PROVE  Cell(x) # Cell(y)
<1> DEFINE c == Capacity
           u == x \div c
           v == y \div c
           r == x % c
           q == y % c
<1>1. c \in Nat /\ c > 0
  BY RingAssumption
<1> HIDE DEF c
<1>2. u \in Int /\ v \in Int /\ r \in Int /\ q \in Int /\ x = c * u + r /\ y = c * v + q
  BY <1>1, Z3
<1>3. y < x + c
  BY DEF c
<1> HIDE DEF u, v, r, q
<1>4. ASSUME r = q PROVE FALSE
  <2>1. c * v - c * u > 0 /\ c * v - c * u < c
    BY <1>1, <1>2, <1>3, <1>4
  <2>2. CASE v <= u
    <3>1. c * v <= c * u
      BY <1>1, <1>2, <2>2, Z3
    <3> QED
      BY <1>1, <1>2, <2>1, <3>1, Z3
  <2>3. CASE v >= u + 1
    <3>1. c * v >= c * (u + 1)
      BY <1>1, <1>2, <2>3, Z3
    <3>2. c * (u + 1) = c * u + c
      BY <1>1, <1>2, Z3
    <3> QED
      BY <1>1, <1>2, <2>1, <3>1, <3>2, Z3
  <2> QED
    BY <1>2, <2>2, <2>3
<1> QED
  BY <1>4 DEF Cell, r, q, c

\* Each offset has a cell.
LEMMA CellType ==
    ASSUME NEW x \in Nat
    PROVE  Cell(x) \in 0 .. Capacity - 1
BY RingAssumption, Z3 DEF Cell

\* A frame is the length in four bytes and the message.
LEMMA FrameProperties ==
    ASSUME NEW m \in Messages
    PROVE  /\ m \in Seq(Byte) /\ Len(m) \in Nat
           /\ Frame(m) \in Seq(Byte) /\ Len(Frame(m)) = 4 + Len(m)
           /\ \A i \in 1 .. Len(m) : Frame(m)[4 + i] = m[i]
           /\ Len(m) = Frame(m)[1] + 256 * Frame(m)[2] + 65536 * Frame(m)[3]
                          + 16777216 * Frame(m)[4]
<1> DEFINE n == Len(m)
           p == <<n % 256, (n \div 256) % 256, (n \div 65536) % 256,
                  (n \div 16777216) % 256>>
<1>1. m \in Seq(Byte) /\ n \in Nat
  BY RingAssumption, SMT
<1>0. n \div 16777216 < 256
  BY RingAssumption, SMT
<1> HIDE DEF n
<1>2. /\ n % 256 \in Byte /\ (n \div 256) % 256 \in Byte /\ (n \div 65536) % 256 \in Byte
      /\ (n \div 16777216) % 256 \in Byte
  BY <1>0, <1>1, SMT DEF Byte
<1>3. p \in Seq(Byte) /\ Len(p) = 4
  BY <1>2, SMT
<1>4. /\ p[1] = n % 256 /\ p[2] = (n \div 256) % 256 /\ p[3] = (n \div 65536) % 256
      /\ p[4] = (n \div 16777216) % 256
  BY SMT
<1>5. n = (n % 256) + 256 * ((n \div 256) % 256) + 65536 * ((n \div 65536) % 256)
             + 16777216 * ((n \div 16777216) % 256)
  BY <1>0, <1>1, SMT
<1> HIDE DEF p
<1>6. Frame(m) = p \o m
  BY SMT DEF Frame, p, n
<1>7. Frame(m) \in Seq(Byte) /\ Len(Frame(m)) = 4 + n
  <2>1. p \in Seq(Byte) /\ m \in Seq(Byte) /\ Len(p) = 4 /\ n = Len(m)
    BY <1>1, <1>3 DEF n
  <2>2. p \o m \in Seq(Byte) /\ Len(p \o m) = Len(p) + Len(m)
    BY <2>1, ConcatProperties
  <2> QED
    BY <1>6, <2>1, <2>2
<1>8. \A i \in 1 .. Len(p) + Len(m) :
         Frame(m)[i] = IF i <= Len(p) THEN p[i] ELSE m[i - Len(p)]
  <2>1. \A i \in 1 .. Len(p) + Len(m) :
           (p \o m)[i] = IF i <= Len(p) THEN p[i] ELSE m[i - Len(p)]
    BY <1>1, <1>3, ConcatProperties
  <2> QED
    BY <1>6, <2>1
<1>9. ASSUME NEW i \in 1 .. n PROVE Frame(m)[4 + i] = m[i]
  <2>1. 4 + i \in 1 .. 4 + n /\ ~(4 + i <= 4) /\ (4 + i) - 4 = i
    BY <1>1, SMT
  <2> QED
    BY <1>3, <1>8, <2>1, SMT DEF n
<1>10. \A i \in 1 .. 4 : Frame(m)[i] = p[i]
  BY <1>1, <1>3, <1>8 DEF n
<1>11. n = Frame(m)[1] + 256 * Frame(m)[2] + 65536 * Frame(m)[3] + 16777216 * Frame(m)[4]
  BY <1>4, <1>5, <1>10, SMT
<1> QED
  BY <1>1, <1>7, <1>9, <1>11, SMT DEF n

(***************************************************************************)
(* The ring: the inductive invariant                                       *)
(***************************************************************************)
\* The ring holds the bytes b from an offset on.
Holds(offset, b) == \A i \in 1 .. Len(b) : ring[Cell(offset + i - 1)] = b[i]

\* The messages lie one after another, the first byte of the i-th at cut[i], and
\* those that were not received yet are still in the ring.
Framed(cut) ==
    /\ cut \in [1 .. Len(accepted) + 1 -> Nat]
    /\ \A i \in 1 .. Len(accepted) : cut[i + 1] = cut[i] + Len(Frame(accepted[i]))
    /\ \A i, j \in 1 .. Len(accepted) + 1 : i <= j => cut[i] <= cut[j]
    /\ cut[Len(accepted) + 1] = head
    /\ Len(delivered) <= Len(accepted)
    /\ cut[Len(delivered) + 1] = tail
    /\ \A i \in 1 .. Len(delivered) : delivered[i] = accepted[i]
    /\ \A i \in Len(delivered) + 1 .. Len(accepted) : Holds(cut[i], Frame(accepted[i]))

\* send() has read the header as it still is.
Sending ==
    sender.at # "idle" =>
        /\ sender.head = head /\ sender.tail = tail
        /\ sender.msg \in Messages /\ Fits(sender.msg)
        /\ sender.at = "commit" => Holds(head, Frame(sender.msg))

\* recv() has too, and what it took is the oldest message.
Receiving ==
    receiver.at # "idle" =>
        /\ receiver.head = head /\ receiver.tail = tail /\ head - tail >= 4
        /\ receiver.at = "commit" =>
              /\ Len(delivered) < Len(accepted)
              /\ receiver.msg = accepted[Len(delivered) + 1]

Alone == sender.at = "idle" \/ receiver.at = "idle"

RingInv == RingTypeOK /\ Alone /\ Sending /\ Receiving /\ \E cut : Framed(cut)

\* The constants.
LEMMA RingConstants ==
    Capacity \in Nat /\ Capacity > 0 /\ Messages \subseteq Seq(Byte)
BY RingAssumption, SMT

\* The header.
LEMMA HeaderProperties ==
    ASSUME RingTypeOK
    PROVE  /\ head \in Nat /\ tail \in Nat /\ tail <= head /\ head <= tail + Capacity
           /\ accepted \in Seq(Messages) /\ Len(accepted) \in Nat
           /\ delivered \in Seq(Seq(Byte)) /\ Len(delivered) \in Nat
BY RingConstants DEF RingTypeOK

\* A message that was not received yet lies between tail and head.
LEMMA FrameInside ==
    ASSUME RingTypeOK, NEW cut, Framed(cut),
           NEW i \in Len(delivered) + 1 .. Len(accepted)
    PROVE  /\ accepted[i] \in Messages /\ i \in 1 .. Len(accepted) + 1
           /\ cut[i] \in Nat /\ tail <= cut[i]
           /\ cut[i] + Len(Frame(accepted[i])) <= head
<1>1. /\ head \in Nat /\ tail \in Nat /\ accepted \in Seq(Messages)
      /\ Len(accepted) \in Nat /\ Len(delivered) \in Nat
  BY HeaderProperties
<1> DEFINE n == Len(accepted)
           d == Len(delivered)
<1>2. /\ i \in 1 .. n /\ i \in 1 .. n + 1 /\ i + 1 \in 1 .. n + 1 /\ d + 1 \in 1 .. n + 1
      /\ n + 1 \in 1 .. n + 1 /\ d + 1 <= i /\ i + 1 <= n + 1
  BY <1>1
<1>3. accepted[i] \in Messages
  BY <1>1, <1>2
<1>4. /\ cut \in [1 .. n + 1 -> Nat] /\ cut[n + 1] = head /\ cut[d + 1] = tail
      /\ cut[i + 1] = cut[i] + Len(Frame(accepted[i]))
      /\ \A u, v \in 1 .. n + 1 : u <= v => cut[u] <= cut[v]
  BY <1>2 DEF Framed
<1>5. cut[i] \in Nat /\ cut[d + 1] <= cut[i] /\ cut[i + 1] <= cut[n + 1]
  BY <1>2, <1>4
<1> QED
  BY <1>2, <1>3, <1>4, <1>5

\* What send() writes, and what it leaves alone.
LEMMA Written ==
    ASSUME RingTypeOK, Sending, SendWrite
    PROVE  /\ ring' \in [0 .. Capacity - 1 -> Byte]
           /\ \A o \in tail .. head - 1 : ring'[Cell(o)] = ring[Cell(o)]
           /\ Holds(head, Frame(sender.msg))'
<1> DEFINE f == Frame(sender.msg)
           W(c) == {i \in 1 .. Len(f) : Cell(head + i - 1) = c}
<1>0. sender.head = head /\ sender.msg \in Messages /\ Fits(sender.msg)
  BY DEF SendWrite, Sending
<1>1. f \in Seq(Byte) /\ Len(f) \in Nat
  BY <1>0, FrameProperties
<1>2. /\ head \in Nat /\ tail \in Nat /\ tail <= head /\ Capacity \in Nat /\ Capacity > 0
      /\ head - tail + Len(f) <= Capacity
  BY <1>0, HeaderProperties, RingConstants DEF Fits
<1>3. ring \in [0 .. Capacity - 1 -> Byte]
  BY DEF RingTypeOK
<1>4. ring' = [c \in 0 .. Capacity - 1 |->
                  IF W(c) = {} THEN ring[c] ELSE f[CHOOSE i \in W(c) : TRUE]]
  BY <1>0, <1>3 DEF SendWrite
<1> HIDE DEF f
<1>5. ring' \in [0 .. Capacity - 1 -> Byte]
  <2>1. ASSUME NEW c \in 0 .. Capacity - 1, W(c) # {}
        PROVE  f[CHOOSE i \in W(c) : TRUE] \in Byte
    <3>1. (CHOOSE i \in W(c) : TRUE) \in 1 .. Len(f)
      BY <2>1
    <3> QED
      BY <1>1, <3>1
  <2> QED
    BY <1>3, <1>4, <2>1
<1>6. ASSUME NEW o \in tail .. head - 1 PROVE ring'[Cell(o)] = ring[Cell(o)]
  <2>1. o \in Nat /\ Cell(o) \in 0 .. Capacity - 1
    BY <1>2, CellType, SMTT(30)
  <2>2. ASSUME NEW i \in 1 .. Len(f) PROVE Cell(head + i - 1) # Cell(o)
    <3>1. head + i - 1 \in Nat /\ o < head + i - 1 /\ head + i - 1 < o + Capacity
      BY <1>1, <1>2
    <3> QED
      BY <2>1, <3>1, CellsDiffer
  <2>3. W(Cell(o)) = {}
    BY <2>2
  <2> QED
    BY <1>4, <2>1, <2>3
<1>7. ASSUME NEW i \in 1 .. Len(f) PROVE ring'[Cell(head + i - 1)] = f[i]
  <2>0. head + i - 1 \in Nat
    BY <1>1, <1>2
  <2>1. head + i - 1 \in Nat /\ Cell(head + i - 1) \in 0 .. Capacity - 1
    BY <2>0, CellType
  <2>2. ASSUME NEW j \in 1 .. Len(f), j # i PROVE Cell(head + j - 1) # Cell(head + i - 1)
    <3>1. head + j - 1 \in Nat
      BY <1>1, <1>2
    <3>2. CASE j < i
      <4>1. head + j - 1 < head + i - 1 /\ head + i - 1 < (head + j - 1) + Capacity
        BY <1>1, <1>2, <3>2
      <4> QED
        BY <2>1, <3>1, <4>1, CellsDiffer
    <3>3. CASE i < j
      <4>1. head + i - 1 < head + j - 1 /\ head + j - 1 < (head + i - 1) + Capacity
        BY <1>1, <1>2, <3>3
      <4> QED
        BY <2>1, <3>1, <4>1, CellsDiffer
    <3> QED
      BY <1>1, <2>2, <3>2, <3>3
  <2>3. W(Cell(head + i - 1)) = {i}
    BY <2>2
  <2> HIDE DEF W
  <2>4. ring'[Cell(head + i - 1)] = f[CHOOSE j \in {i} : TRUE]
    BY <1>4, <2>1, <2>3
  <2> QED
    BY <2>4
<1>8. Holds(head, Frame(sender.msg))'
  <2>1. head' = head /\ sender'.msg = sender.msg
    BY DEF SendWrite, RingTypeOK, Call
  <2>2. \A i \in 1 .. Len(Frame(sender.msg)) :
           ring'[Cell(head + i - 1)] = Frame(sender.msg)[i]
    BY <1>7 DEF f
  <2> QED
    BY <2>1, <2>2 DEF Holds
<1> QED
  BY <1>5, <1>6, <1>8

\* Messages that wait are not touched by what send() writes.
LEMMA WriteKeepsFrames ==
    ASSUME RingTypeOK, Sending, SendWrite, NEW cut, Framed(cut)
    PROVE  Framed(cut)'
<1>1. UNCHANGED <<head, tail, accepted, delivered>>
  BY DEF SendWrite
<1>2. ASSUME NEW i \in Len(delivered) + 1 .. Len(accepted)
      PROVE  Holds(cut[i], Frame(accepted[i]))'
  <2>1. /\ accepted[i] \in Messages /\ cut[i] \in Nat /\ tail <= cut[i]
        /\ cut[i] + Len(Frame(accepted[i])) <= head
    BY FrameInside
  <2>2. head \in Nat /\ tail \in Nat /\ Len(Frame(accepted[i])) \in Nat
    BY <2>1, HeaderProperties, FrameProperties
  <2>3. ASSUME NEW k \in 1 .. Len(Frame(accepted[i]))
        PROVE  ring'[Cell(cut[i] + k - 1)] = Frame(accepted[i])[k]
    <3>1. cut[i] + k - 1 \in tail .. head - 1
      BY <2>1, <2>2
    <3>2. ring'[Cell(cut[i] + k - 1)] = ring[Cell(cut[i] + k - 1)]
      BY <3>1, Written
    <3>3. Holds(cut[i], Frame(accepted[i]))
      BY DEF Framed
    <3> QED
      BY <3>2, <3>3 DEF Holds
  <2> QED
    BY <1>1, <2>3 DEF Holds
<1> QED
  BY <1>1, <1>2 DEF Framed

\* What recv() finds: the oldest message, whole.
LEMMA OldestFrame ==
    ASSUME RingTypeOK, NEW cut, Framed(cut), head - tail >= 4
    PROVE  /\ Len(delivered) < Len(accepted)
           /\ accepted[Len(delivered) + 1] \in Messages
           /\ LengthAt(tail) = Len(accepted[Len(delivered) + 1])
           /\ Bytes(tail + 4, Len(accepted[Len(delivered) + 1])) = accepted[Len(delivered) + 1]
           /\ tail + Len(Frame(accepted[Len(delivered) + 1])) <= head
           /\ Holds(tail, Frame(accepted[Len(delivered) + 1]))
<1> DEFINE d == Len(delivered)
           m == accepted[d + 1]
           f == Frame(m)
<1>1. head \in Nat /\ tail \in Nat /\ Len(accepted) \in Nat /\ d \in Nat
  BY HeaderProperties
<1>2. /\ d <= Len(accepted) /\ cut[d + 1] = tail /\ cut[Len(accepted) + 1] = head
      /\ \A i \in d + 1 .. Len(accepted) : Holds(cut[i], Frame(accepted[i]))
  BY DEF Framed
<1>3. d < Len(accepted)
  <2> SUFFICES ASSUME d = Len(accepted) PROVE FALSE
    BY <1>1, <1>2
  <2>1. head = tail
    BY <1>2
  <2> QED
    BY <1>1, <2>1
<1>4. d + 1 \in d + 1 .. Len(accepted)
  BY <1>1, <1>3
<1>5. m \in Messages /\ tail + Len(f) <= head
  BY <1>2, <1>4, FrameInside
<1>6. Holds(tail, f)
  BY <1>2, <1>4
<1> HIDE DEF m
<1>7. m \in Seq(Byte) /\ Len(m) \in Nat /\ Len(f) = 4 + Len(m)
      /\ \A i \in 1 .. Len(m) : f[4 + i] = m[i]
  BY <1>5, FrameProperties
<1>8. \A i \in 1 .. Len(f) : ring[Cell(tail + i - 1)] = f[i]
  BY <1>6 DEF Holds
<1> HIDE DEF f
<1>9. LengthAt(tail) = Len(m)
  <2> DEFINE b == Bytes(tail, 4)
  <2>1. \A i \in 1 .. 4 : b[i] = ring[Cell(tail + i - 1)]
    BY DEF Bytes
  <2>2. \A i \in 1 .. 4 : b[i] = f[i]
    BY <1>7, <1>8, <2>1
  <2> HIDE DEF b
  <2>3. b[1] = f[1] /\ b[2] = f[2] /\ b[3] = f[3] /\ b[4] = f[4]
    BY <2>2
  <2>4. Len(m) = f[1] + 256 * f[2] + 65536 * f[3] + 16777216 * f[4]
    BY <1>5, FrameProperties, SMT DEF f
  <2>5. LengthAt(tail) = b[1] + 256 * b[2] + 65536 * b[3] + 16777216 * b[4]
    BY SMT DEF LengthAt, b
  <2> QED
    BY <2>3, <2>4, <2>5, SMT
<1>10. Bytes(tail + 4, Len(m)) = m
  <2>1. ASSUME NEW i \in 1 .. Len(m) PROVE ring[Cell((tail + 4) + i - 1)] = m[i]
    <3>1. 4 + i \in 1 .. Len(f) /\ tail + (4 + i) - 1 = (tail + 4) + i - 1
      BY <1>1, <1>7
    <3>2. ring[Cell(tail + (4 + i) - 1)] = f[4 + i]
      BY <1>8, <3>1
    <3> QED
      BY <1>7, <3>1, <3>2
  <2>2. Bytes(tail + 4, Len(m)) = [i \in 1 .. Len(m) |-> m[i]]
    BY <2>1 DEF Bytes
  <2>3. m = [i \in 1 .. Len(m) |-> m[i]]
    BY <1>7
  <2> QED
    BY <2>2, <2>3
<1> QED
  BY <1>3, <1>5, <1>6, <1>9, <1>10, SMT DEF m, f

\* A message that is sent is put behind the others.
LEMMA CommitFrames ==
    ASSUME RingTypeOK, Sending, SendCommit, NEW cut, Framed(cut)
    PROVE  \E next1 : Framed(next1)'
<1> DEFINE n == Len(accepted)
           m == sender.msg
           top == head + Len(Frame(m))
           grown == [i \in 1 .. n + 2 |-> IF i <= n + 1 THEN cut[i] ELSE top]
<1>1. /\ head \in Nat /\ tail \in Nat /\ n \in Nat /\ Len(delivered) \in Nat
      /\ accepted \in Seq(Messages)
  BY HeaderProperties
<1>2. m \in Messages /\ sender.head = head /\ sender.tail = tail /\ Holds(head, Frame(m))
  BY DEF SendCommit, Sending
<1>3. Len(Frame(m)) \in Nat /\ top \in Nat /\ head <= top
  BY <1>1, <1>2, FrameProperties
<1>4. /\ head' = top /\ tail' = tail /\ UNCHANGED <<ring, delivered>>
      /\ accepted' = Append(accepted, m)
  BY <1>2 DEF SendCommit
<1>5. /\ Len(accepted') = n + 1 /\ accepted'[n + 1] = m
      /\ \A i \in 1 .. n : accepted'[i] = accepted[i]
  BY <1>1, <1>2, <1>4
<1> HIDE DEF m, top
<1>6. /\ cut \in [1 .. n + 1 -> Nat]
      /\ \A i \in 1 .. n : cut[i + 1] = cut[i] + Len(Frame(accepted[i]))
      /\ \A i, j \in 1 .. n + 1 : i <= j => cut[i] <= cut[j]
      /\ cut[n + 1] = head /\ Len(delivered) <= n /\ cut[Len(delivered) + 1] = tail
      /\ \A i \in 1 .. Len(delivered) : delivered[i] = accepted[i]
      /\ \A i \in Len(delivered) + 1 .. n : Holds(cut[i], Frame(accepted[i]))
  BY DEF Framed
<1> HIDE DEF n
<1> HIDE DEF grown
<1>16. PICK c : c = grown
  OBVIOUS
<1>7. /\ \A i \in 1 .. n + 1 : i \in 1 .. n + 2 /\ c[i] = cut[i]
      /\ c[n + 2] = top
  BY <1>1, <1>16 DEF grown
<1>8. c \in [1 .. n + 2 -> Nat]
  BY <1>1, <1>3, <1>6, <1>16 DEF grown
<1>9. ASSUME NEW i \in 1 .. n + 1 PROVE c[i + 1] = c[i] + Len(Frame(accepted'[i]))
  <2>1. CASE i = n + 1
    <3>1. c[i] = head /\ c[i + 1] = top
      <4>1. i + 1 = n + 2
        BY <1>1, <2>1
      <4> QED
        BY <1>6, <1>7, <2>1, <4>1
    <3> QED
      BY <1>5, <2>1, <3>1 DEF top
  <2>2. CASE i # n + 1
    <3>1. i \in 1 .. n /\ i + 1 \in 1 .. n + 1
      BY <1>1, <2>2
    <3> QED
      BY <1>5, <1>6, <1>7, <3>1
  <2> QED
    BY <2>1, <2>2
<1>10. ASSUME NEW i \in 1 .. n + 2, NEW j \in 1 .. n + 2, i <= j PROVE c[i] <= c[j]
  <2>1. CASE j = n + 2
    <3>1. CASE i = n + 2
      BY <1>3, <1>7, <2>1, <3>1
    <3>2. CASE i # n + 2
      <4>1. i \in 1 .. n + 1 /\ n + 1 \in 1 .. n + 1 /\ i <= n + 1
        BY <1>1, <3>2
      <4>2. cut[i] <= head /\ cut[i] \in Nat
        BY <1>6, <4>1
      <4> QED
        BY <1>1, <1>3, <1>7, <2>1, <4>1, <4>2
    <3> QED
      BY <3>1, <3>2
  <2>2. CASE j # n + 2
    <3>1. i \in 1 .. n + 1 /\ j \in 1 .. n + 1
      BY <1>1, <1>10, <2>2
    <3> QED
      BY <1>6, <1>7, <1>10, <3>1
  <2> QED
    BY <2>1, <2>2
<1>11. Len(delivered) + 1 \in 1 .. n + 1 /\ Len(delivered) <= n + 1
  BY <1>1, <1>6
<1>12. \A i \in 1 .. Len(delivered) : delivered[i] = accepted'[i]
  BY <1>1, <1>5, <1>6
<1>13. ASSUME NEW i \in Len(delivered) + 1 .. n + 1
       PROVE  Holds(c[i], Frame(accepted'[i]))
  <2>1. CASE i = n + 1
    BY <1>2, <1>5, <1>6, <1>7, <1>11, <2>1 DEF m
  <2>2. CASE i # n + 1
    <3>1. i \in Len(delivered) + 1 .. n /\ i \in 1 .. n /\ i \in 1 .. n + 1
      BY <1>1, <2>2
    <3> QED
      BY <1>5, <1>6, <1>7, <3>1
  <2> QED
    BY <2>1, <2>2
<1>14. ASSUME NEW i \in Len(delivered) + 1 .. n + 1
       PROVE  Holds(c[i], Frame(accepted[i]))'
  BY <1>4, <1>13 DEF Holds
<1>15. Framed(c)'
  <2>1. (n + 1) + 1 = n + 2
    BY <1>1
  <2>2. c \in [1 .. Len(accepted') + 1 -> Nat] /\ c[Len(accepted') + 1] = head'
    BY <1>4, <1>5, <1>7, <1>8, <2>1
  <2>3. \A i \in 1 .. Len(accepted') : c[i + 1] = c[i] + Len(Frame(accepted'[i]))
    BY <1>5, <1>9
  <2>4. \A i, j \in 1 .. Len(accepted') + 1 : i <= j => c[i] <= c[j]
    BY <1>5, <1>10, <2>1
  <2>5. Len(delivered') <= Len(accepted') /\ c[Len(delivered') + 1] = tail'
    BY <1>4, <1>5, <1>6, <1>7, <1>11
  <2>6. \A i \in 1 .. Len(delivered') : delivered'[i] = accepted'[i]
    BY <1>4, <1>12
  <2>7. \A i \in Len(delivered') + 1 .. Len(accepted') : Holds(c[i], Frame(accepted[i]))'
    BY <1>4, <1>5, <1>14
  <2> QED
    BY <2>2, <2>3, <2>4, <2>5, <2>6, <2>7 DEF Framed
<1> QED
  BY <1>15

\* A message that is received is the next one.
LEMMA TakeFrames ==
    ASSUME RingTypeOK, Receiving, RecvCommit, NEW cut, Framed(cut)
    PROVE  Framed(cut)'
<1> DEFINE n == Len(accepted)
           d == Len(delivered)
           m == accepted[d + 1]
<1>1. /\ head \in Nat /\ tail \in Nat /\ n \in Nat /\ d \in Nat
      /\ delivered \in Seq(Seq(Byte))
  BY HeaderProperties
<1>2. /\ receiver.head = head /\ receiver.tail = tail /\ head - tail >= 4
      /\ d < n /\ receiver.msg = m
  BY DEF RecvCommit, Receiving
<1>3. m \in Messages
  BY <1>2, OldestFrame
<1>4. m \in Seq(Byte) /\ Len(m) \in Nat /\ Len(Frame(m)) = 4 + Len(m)
  BY <1>3, FrameProperties
<1>5. /\ head' = head /\ tail' = tail + 4 + Len(m) /\ UNCHANGED <<ring, accepted>>
      /\ delivered' = Append(delivered, m)
  BY <1>2 DEF RecvCommit
<1>6. /\ Len(delivered') = d + 1 /\ delivered'[d + 1] = m
      /\ \A i \in 1 .. d : delivered'[i] = delivered[i]
  BY <1>1, <1>4, <1>5
<1>7. /\ cut \in [1 .. n + 1 -> Nat]
      /\ \A i \in 1 .. n : cut[i + 1] = cut[i] + Len(Frame(accepted[i]))
      /\ \A i, j \in 1 .. n + 1 : i <= j => cut[i] <= cut[j]
      /\ cut[n + 1] = head /\ cut[d + 1] = tail
      /\ \A i \in 1 .. d : delivered[i] = accepted[i]
      /\ \A i \in d + 1 .. n : Holds(cut[i], Frame(accepted[i]))
  BY DEF Framed
<1>8. cut[(d + 1) + 1] = tail'
  <2>1. d + 1 \in 1 .. n
    BY <1>1, <1>2
  <2>2. cut[(d + 1) + 1] = cut[d + 1] + Len(Frame(m))
    BY <1>7, <2>1
  <2> HIDE DEF m
  <2> QED
    BY <1>1, <1>4, <1>5, <1>7, <2>2
<1>9. ASSUME NEW i \in 1 .. d + 1 PROVE delivered'[i] = accepted[i]
  <2>1. CASE i = d + 1
    BY <1>6, <2>1
  <2>2. CASE i # d + 1
    <3>1. i \in 1 .. d
      BY <1>1, <2>2
    <3> QED
      BY <1>6, <1>7, <3>1
  <2> QED
    BY <2>1, <2>2
<1>10. \A i \in (d + 1) + 1 .. n : Holds(cut[i], Frame(accepted[i]))'
  <2>1. \A i \in (d + 1) + 1 .. n : i \in d + 1 .. n
    BY <1>1
  <2>2. \A i \in (d + 1) + 1 .. n : Holds(cut[i], Frame(accepted[i]))
    BY <1>7, <2>1
  <2> QED
    BY <1>5, <2>2 DEF Holds
<1>11. d + 1 <= n
  BY <1>1, <1>2
<1> HIDE DEF m
<1> QED
  BY <1>5, <1>6, <1>7, <1>8, <1>9, <1>10, <1>11 DEF Framed

\* A ring that was just created is empty.
LEMMA RingInvInit == RingInit => RingInv
<1> SUFFICES ASSUME RingInit PROVE RingInv
  OBVIOUS
<1>1. Capacity \in Nat /\ Capacity > 0
  BY RingConstants
<1>2. RingTypeOK
  <2>1. Idle \in Call({"idle", "write", "commit"}) /\ Idle \in Call({"idle", "read", "commit"})
    BY DEF Idle, Call
  <2>2. ring \in [0 .. Capacity - 1 -> Byte]
    BY DEF RingInit, Byte
  <2> QED
    BY <1>1, <2>1, <2>2 DEF RingInit, RingTypeOK
<1>3. Alone /\ Sending /\ Receiving
  BY DEF RingInit, Alone, Sending, Receiving, Idle
<1>4. Framed([i \in 1 .. 1 |-> 0])
  BY DEF RingInit, Framed
<1> QED
  BY <1>2, <1>3, <1>4 DEF RingInv

\* send() reads the header.
LEMMA SendBeginKeeps ==
    ASSUME RingInv, ~Overlap, NEW m \in Messages, SendBegin(m)
    PROVE  RingInv'
<1>1. /\ sender' = [at |-> "write", msg |-> m, head |-> head, tail |-> tail]
      /\ receiver.at = "idle" /\ Fits(m)
      /\ UNCHANGED <<head, tail, ring, receiver, accepted, delivered>>
  BY DEF SendBegin, shared
<1>2. m \in Seq(Byte)
  BY FrameProperties
<1>3. RingTypeOK'
  BY <1>1, <1>2, HeaderProperties DEF RingInv, RingTypeOK, Call
<1>4. Alone' /\ Sending' /\ Receiving'
  BY <1>1 DEF Alone, Sending, Receiving, Fits
<1>5. PICK cut : Framed(cut)
  BY DEF RingInv
<1>6. Framed(cut)'
  BY <1>1, <1>5 DEF Framed, Holds
<1> QED
  BY <1>3, <1>4, <1>6 DEF RingInv

\* send() writes the frame.
LEMMA SendWriteKeeps ==
    ASSUME RingInv, SendWrite
    PROVE  RingInv'
<1>1. RingTypeOK /\ Alone /\ Sending /\ Receiving
  BY DEF RingInv
<1>2. /\ sender.at = "write" /\ sender' = [sender EXCEPT !.at = "commit"]
      /\ UNCHANGED <<head, tail, receiver, accepted, delivered>>
  BY DEF SendWrite
<1>3. sender \in Call({"idle", "write", "commit"})
  BY <1>1 DEF RingTypeOK
<1>4. RingTypeOK'
  <2>1. sender' \in Call({"idle", "write", "commit"})
    BY <1>2, <1>3 DEF Call
  <2>2. (ring \in [0 .. Capacity - 1 -> Byte])'
    BY <1>1, Written
  <2> QED
    BY <1>1, <1>2, <2>1, <2>2 DEF RingTypeOK
<1>5. /\ sender'.at = "commit" /\ sender'.msg = sender.msg
      /\ sender'.head = sender.head /\ sender'.tail = sender.tail
  BY <1>2, <1>3 DEF Call
<1>6. receiver.at = "idle"
  BY <1>1, <1>2 DEF Alone
<1>7. Sending'
  <2>1. Holds(head, Frame(sender.msg))'
    BY <1>1, Written
  <2>2. sender.head = head /\ sender.tail = tail /\ sender.msg \in Messages /\ Fits(sender.msg)
    BY <1>1, <1>2 DEF Sending
  <2>3. Fits(sender.msg)'
    BY <1>2, <1>5, <2>2 DEF Fits
  <2> QED
    BY <1>2, <1>5, <2>1, <2>2, <2>3 DEF Sending
<1>8. Alone' /\ Receiving'
  BY <1>2, <1>6 DEF Alone, Receiving
<1>9. PICK cut : Framed(cut)
  BY DEF RingInv
<1>10. Framed(cut)'
  BY <1>1, <1>9, WriteKeepsFrames
<1> QED
  BY <1>4, <1>7, <1>8, <1>10 DEF RingInv

\* send() writes the header back.
LEMMA SendCommitKeeps ==
    ASSUME RingInv, SendCommit
    PROVE  RingInv'
<1>1. RingTypeOK /\ Alone /\ Sending
  BY DEF RingInv
<1>2. /\ sender.at = "commit" /\ sender' = Idle
      /\ head' = sender.head + Len(Frame(sender.msg)) /\ tail' = sender.tail
      /\ accepted' = Append(accepted, sender.msg)
      /\ UNCHANGED <<ring, receiver, delivered>>
  BY DEF SendCommit
<1>3. sender.head = head /\ sender.tail = tail /\ sender.msg \in Messages /\ Fits(sender.msg)
  BY <1>1, <1>2 DEF Sending
<1>4. RingTypeOK'
  <2>1. Len(Frame(sender.msg)) \in Nat
    BY <1>3, FrameProperties
  <2>2. tail' \in Nat /\ head' \in tail' .. tail' + Capacity
    BY <1>1, <1>2, <1>3, <2>1, RingConstants, HeaderProperties DEF Fits
  <2>3. accepted' \in Seq(Messages)
    BY <1>1, <1>2, <1>3 DEF RingTypeOK
  <2>4. sender' \in Call({"idle", "write", "commit"})
    BY <1>2 DEF Idle, Call
  <2> QED
    BY <1>1, <1>2, <2>2, <2>3, <2>4 DEF RingTypeOK
<1>5. Alone' /\ Sending' /\ Receiving'
  <2>1. receiver.at = "idle"
    BY <1>1, <1>2 DEF Alone
  <2> QED
    BY <1>2, <2>1 DEF Alone, Sending, Receiving, Idle
<1>6. PICK cut : Framed(cut)
  BY DEF RingInv
<1>7. \E next1 : Framed(next1)'
  BY <1>1, <1>6, CommitFrames
<1> QED
  BY <1>4, <1>5, <1>7 DEF RingInv

\* recv() reads the header.
LEMMA RecvBeginKeeps ==
    ASSUME RingInv, ~Overlap, RecvBegin
    PROVE  RingInv'
<1>1. /\ receiver' = [at |-> "read", msg |-> <<>>, head |-> head, tail |-> tail]
      /\ sender.at = "idle" /\ head - tail >= 4
      /\ UNCHANGED <<head, tail, ring, sender, accepted, delivered>>
  BY DEF RecvBegin, shared
<1>2. RingTypeOK'
  BY <1>1, HeaderProperties DEF RingInv, RingTypeOK, Call
<1>3. Alone' /\ Sending' /\ Receiving'
  BY <1>1 DEF Alone, Sending, Receiving
<1>4. PICK cut : Framed(cut)
  BY DEF RingInv
<1>5. Framed(cut)'
  BY <1>1, <1>4 DEF Framed, Holds
<1> QED
  BY <1>2, <1>3, <1>5 DEF RingInv

\* recv() reads the bytes: the frame is whole, and its message is the oldest.
LEMMA ReadsOldest ==
    ASSUME RingInv, RecvRead
    PROVE  /\ Len(delivered) < Len(accepted)
           /\ accepted[Len(delivered) + 1] \in Messages
           /\ receiver' = [receiver EXCEPT !.at = "commit",
                               !.msg = accepted[Len(delivered) + 1]]
<1> DEFINE m == accepted[Len(delivered) + 1]
<1>1. RingTypeOK /\ Receiving /\ receiver.at = "read"
  BY DEF RingInv, RecvRead
<1>2. receiver.head = head /\ receiver.tail = tail /\ head - tail >= 4
  BY <1>1 DEF Receiving
<1>3. PICK cut : Framed(cut)
  BY DEF RingInv
<1>4. /\ Len(delivered) < Len(accepted) /\ m \in Messages
      /\ LengthAt(tail) = Len(m) /\ Bytes(tail + 4, Len(m)) = m
      /\ tail + Len(Frame(m)) <= head
  BY <1>1, <1>2, <1>3, OldestFrame
<1>5. Len(Frame(m)) = 4 + Len(m) /\ Len(m) \in Nat
  BY <1>4, FrameProperties
<1>6. head \in Nat /\ tail \in Nat
  BY <1>1, HeaderProperties
<1> HIDE DEF m
<1>7. Whole
  BY <1>2, <1>4, <1>5, <1>6 DEF Whole
<1>8. receiver' = [receiver EXCEPT !.at = "commit",
                       !.msg = Bytes(receiver.tail + 4, LengthAt(receiver.tail))]
  BY <1>7 DEF RecvRead
<1>9. receiver' = [receiver EXCEPT !.at = "commit", !.msg = m]
  BY <1>2, <1>4, <1>8
<1> QED
  BY <1>4, <1>9 DEF m

LEMMA RecvReadKeeps ==
    ASSUME RingInv, RecvRead
    PROVE  RingInv'
<1>1. RingTypeOK /\ Alone /\ Sending /\ Receiving /\ receiver.at = "read"
  BY DEF RingInv, RecvRead
<1>2. UNCHANGED <<head, tail, ring, sender, accepted, delivered>>
  BY DEF RecvRead, shared
<1> DEFINE m == accepted[Len(delivered) + 1]
<1>3. /\ Len(delivered) < Len(accepted) /\ m \in Messages
      /\ receiver' = [receiver EXCEPT !.at = "commit", !.msg = m]
  BY ReadsOldest
<1>4. receiver \in Call({"idle", "read", "commit"}) /\ m \in Seq(Byte)
  BY <1>1, <1>3, FrameProperties DEF RingTypeOK
<1>5. /\ receiver'.at = "commit" /\ receiver'.msg = m
      /\ receiver'.head = receiver.head /\ receiver'.tail = receiver.tail
      /\ receiver' \in Call({"idle", "read", "commit"})
  BY <1>3, <1>4 DEF Call
<1>6. RingTypeOK'
  BY <1>1, <1>2, <1>5 DEF RingTypeOK
<1>7. sender.at = "idle"
  BY <1>1 DEF Alone
<1>8. Alone' /\ Sending'
  BY <1>2, <1>7 DEF Alone, Sending
<1>9. Receiving'
  BY <1>1, <1>2, <1>3, <1>5 DEF Receiving
<1>10. PICK cut : Framed(cut)
  BY DEF RingInv
<1>11. Framed(cut)'
  BY <1>2, <1>10 DEF Framed, Holds
<1> QED
  BY <1>6, <1>8, <1>9, <1>11 DEF RingInv

\* recv() writes the header back.
LEMMA RecvCommitKeeps ==
    ASSUME RingInv, RecvCommit
    PROVE  RingInv'
<1>1. RingTypeOK /\ Alone /\ Receiving /\ receiver.at = "commit"
  BY DEF RingInv, RecvCommit
<1> DEFINE m == accepted[Len(delivered) + 1]
<1>2. /\ receiver.head = head /\ receiver.tail = tail /\ head - tail >= 4
      /\ Len(delivered) < Len(accepted) /\ receiver.msg = m
  BY <1>1 DEF Receiving
<1>3. PICK cut : Framed(cut)
  BY DEF RingInv
<1>4. m \in Messages /\ tail + Len(Frame(m)) <= head
  BY <1>1, <1>2, <1>3, OldestFrame
<1>5. m \in Seq(Byte) /\ Len(m) \in Nat /\ Len(Frame(m)) = 4 + Len(m)
  BY <1>4, FrameProperties
<1>6. /\ head' = head /\ tail' = tail + 4 + Len(m) /\ receiver' = Idle
      /\ delivered' = Append(delivered, m)
      /\ UNCHANGED <<ring, sender, accepted>>
  BY <1>2 DEF RecvCommit
<1>7. sender.at = "idle"
  BY <1>1 DEF Alone
<1> HIDE DEF m
<1>8. RingTypeOK'
  <2>1. tail' \in Nat /\ head' \in tail' .. tail' + Capacity
    BY <1>1, <1>4, <1>5, <1>6, RingConstants, HeaderProperties
  <2>2. delivered' \in Seq(Seq(Byte))
    BY <1>1, <1>5, <1>6 DEF RingTypeOK
  <2>3. receiver' \in Call({"idle", "read", "commit"})
    BY <1>6 DEF Idle, Call
  <2> QED
    BY <1>1, <1>6, <2>1, <2>2, <2>3 DEF RingTypeOK
<1>9. Alone' /\ Sending' /\ Receiving'
  BY <1>6, <1>7 DEF Alone, Sending, Receiving, Idle
<1>10. Framed(cut)'
  BY <1>1, <1>3, TakeFrames
<1> QED
  BY <1>8, <1>9, <1>10 DEF RingInv

\* Every step of two processes that take turns keeps the invariant.
LEMMA RingInvStep ==
    ASSUME RingInv, ~Overlap, [RingNext]_ringVars
    PROVE  RingInv'
<1>1. CASE UNCHANGED ringVars
  <2>1. UNCHANGED <<head, tail, ring, sender, receiver, accepted, delivered>>
    BY <1>1 DEF ringVars, shared
  <2>2. RingTypeOK' /\ Alone' /\ Sending' /\ Receiving'
    BY <2>1 DEF RingInv, RingTypeOK, Alone, Sending, Receiving, Fits, Holds
  <2>3. PICK cut : Framed(cut)
    BY DEF RingInv
  <2>4. Framed(cut)'
    BY <2>1, <2>3 DEF Framed, Holds
  <2> QED
    BY <2>2, <2>4 DEF RingInv
<1> QED
  BY <1>1, SendBeginKeeps, SendWriteKeeps, SendCommitKeeps, RecvBeginKeeps, RecvReadKeeps,
     RecvCommitKeeps DEF RingNext

\* The ring is described by the invariant for as long as calls do not overlap.
THEOREM RingInvariant == ASSUME ~Overlap PROVE RingSpec => []RingInv
<1>1. RingInit => RingInv
  BY RingInvInit
<1>2. RingInv /\ [RingNext]_ringVars => RingInv'
  BY RingInvStep
<1> QED
  BY <1>1, <1>2, PTL DEF RingSpec

(***************************************************************************)
(* The ring: order and refinement                                          *)
(***************************************************************************)
\* Two processes that take turns: what is received is what was sent, in order,
\* nothing twice and nothing between.
THEOREM RingFifo == ASSUME ~Overlap PROVE RingSpec => []FifoDelivery
<1>1. RingInv => FifoDelivery
  <2> SUFFICES ASSUME RingInv PROVE FifoDelivery
    OBVIOUS
  <2>1. PICK cut : Framed(cut)
    BY DEF RingInv
  <2>2. /\ Len(delivered) <= Len(accepted)
        /\ \A i \in 1 .. Len(delivered) : delivered[i] = accepted[i]
    BY <2>1 DEF Framed
  <2>3. /\ Len(delivered) \in Nat /\ Len(accepted) \in Nat
        /\ accepted \in Seq(Messages) /\ delivered \in Seq(Seq(Byte))
    BY HeaderProperties DEF RingInv
  <2>4. SubSeq(delivered, 1, Len(delivered)) = SubSeq(accepted, 1, Len(delivered))
    BY <2>2, <2>3
  <2> QED
    BY <2>2, <2>4 DEF FifoDelivery, IsPrefix
<1> QED
  BY <1>1, RingInvariant, PTL

\* The bytes from an offset on, as a sequence.
LEMMA BytesProperties ==
    ASSUME RingTypeOK, NEW o \in Nat, NEW n \in Nat
    PROVE  /\ Bytes(o, n) \in Seq(Byte) /\ Len(Bytes(o, n)) = n
           /\ \A i \in 1 .. n : Bytes(o, n)[i] = ring[Cell(o + i - 1)]
<1>1. ASSUME NEW i \in 1 .. n PROVE ring[Cell(o + i - 1)] \in Byte
  <2>1. o + i - 1 \in Nat
    OBVIOUS
  <2>2. Cell(o + i - 1) \in 0 .. Capacity - 1
    BY <2>1, CellType
  <2> QED
    BY <2>2 DEF RingTypeOK
<1> QED
  BY <1>1 DEF Bytes

\* The stream has the frames of the ring.
LEMMA SameFrame == \A m : Abstract!Frame(m) = Frame(m)
BY SMT DEF Abstract!Frame, Frame

\* Sequences of the same length and with the same elements are equal.
LEMMA SameSequence ==
    ASSUME NEW S, NEW s \in Seq(S), NEW t \in Seq(S), Len(s) = Len(t),
           \A i \in 1 .. Len(s) : s[i] = t[i]
    PROVE  s = t
OBVIOUS

\* The end of send() appends the frame to the stream.
LEMMA CommitIsPut ==
    ASSUME RingInv, RingInv', SendCommit
    PROVE  \E m \in Messages : Abstract!Put(m)
<1> DEFINE m == sender.msg
           f == Frame(m)
           len == head - tail
           s == Bytes(tail, len)
           t == Bytes(tail, len)'
<1>1. RingTypeOK /\ Sending /\ sender.at = "commit"
  BY DEF RingInv, SendCommit
<1>2. /\ m \in Messages /\ Fits(m) /\ Holds(head, f)
      /\ sender.head = head /\ sender.tail = tail
  BY <1>1 DEF Sending
<1>3. f \in Seq(Byte) /\ Len(f) \in Nat
  BY <1>2, FrameProperties
<1>4. head \in Nat /\ tail \in Nat /\ tail <= head /\ len \in Nat
  BY <1>1, HeaderProperties
<1>5. /\ head' = head + Len(f) /\ tail' = tail /\ ring' = ring
      /\ accepted' = Append(accepted, m) /\ delivered' = delivered
  BY <1>2 DEF SendCommit
<1>6. s \in Seq(Byte) /\ Len(s) = len /\ \A i \in 1 .. len : s[i] = ring[Cell(tail + i - 1)]
  BY <1>1, <1>4, BytesProperties
<1>7. len' = len + Len(f) /\ len' \in Nat
  BY <1>3, <1>4, <1>5
<1>8. /\ t \in Seq(Byte) /\ Len(t) = len + Len(f)
      /\ \A i \in 1 .. len + Len(f) : t[i] = ring[Cell(tail + i - 1)]
  <2>1. Bytes(tail, len + Len(f)) = t
    BY <1>5, <1>7 DEF Bytes
  <2>2. len + Len(f) \in Nat
    BY <1>3, <1>4
  <2> HIDE DEF t, f, len
  <2>3. /\ Bytes(tail, len + Len(f)) \in Seq(Byte)
        /\ Len(Bytes(tail, len + Len(f))) = len + Len(f)
        /\ \A i \in 1 .. len + Len(f) :
              Bytes(tail, len + Len(f))[i] = ring[Cell(tail + i - 1)]
    BY <1>1, <1>4, <2>2, BytesProperties
  <2> QED
    BY <2>1, <2>3
<1>9. \A i \in 1 .. Len(f) : ring[Cell(head + i - 1)] = f[i]
  BY <1>2 DEF Holds
<1> HIDE DEF f, s, t
<1>10. /\ s \o f \in Seq(Byte) /\ Len(s \o f) = len + Len(f)
       /\ \A i \in 1 .. len + Len(f) :
             (s \o f)[i] = IF i <= len THEN s[i] ELSE f[i - len]
  <2>1. s \in Seq(Byte) /\ Len(s) = len
    BY <1>6
  <2>2. /\ s \o f \in Seq(Byte) /\ Len(s \o f) = Len(s) + Len(f)
        /\ \A i \in 1 .. Len(s) + Len(f) :
              (s \o f)[i] = IF i <= Len(s) THEN s[i] ELSE f[i - Len(s)]
    BY <1>3, <2>1, ConcatProperties
  <2> HIDE DEF len
  <2> QED
    BY <2>1, <2>2
<1> HIDE DEF len
<1>11. ASSUME NEW i \in 1 .. len + Len(f) PROVE t[i] = (s \o f)[i]
  <2>1. CASE i <= len
    <3>1. i \in 1 .. len
      BY <1>3, <1>4, <2>1
    <3> QED
      BY <1>6, <1>8, <1>10, <2>1, <3>1
  <2>2. CASE ~(i <= len)
    <3>1. i - len \in 1 .. Len(f) /\ head + (i - len) - 1 = tail + i - 1
      BY <1>3, <1>4, <2>2 DEF len
    <3>2. ring[Cell(tail + i - 1)] = f[i - len]
      BY <1>9, <3>1
    <3> QED
      BY <1>8, <1>10, <2>2, <3>2
  <2> QED
    BY <2>1, <2>2
<1>12. t = s \o f
  BY <1>8, <1>10, <1>11, SameSequence
<1>13. len + Len(f) <= Capacity
  BY <1>2 DEF Fits, f, len
<1>14. Abstract!Put(m)
  <2>1. Len(s) + Len(f) <= Capacity
    BY <1>6, <1>13
  <2>2. Abstract!Frame(m) = f
    BY SameFrame DEF f
  <2> QED
    BY <1>5, <1>12, <2>1, <2>2 DEF Abstract!Put, s, t, len
<1> QED
  BY <1>2, <1>14

\* The end of recv() takes the first frame off the stream.
LEMMA CommitIsGet ==
    ASSUME RingInv, RingInv', RecvCommit
    PROVE  \E m \in Messages : Abstract!Get(m)
<1> DEFINE m == accepted[Len(delivered) + 1]
           f == Frame(m)
           len == head - tail
           s == Bytes(tail, len)
           t == Bytes(tail, len)'
<1>1. RingTypeOK /\ Receiving /\ receiver.at = "commit"
  BY DEF RingInv, RecvCommit
<1>2. /\ receiver.head = head /\ receiver.tail = tail /\ head - tail >= 4
      /\ receiver.msg = m
  BY <1>1 DEF Receiving
<1>3. PICK cut : Framed(cut)
  BY DEF RingInv
<1>4. m \in Messages /\ tail + Len(f) <= head /\ Holds(tail, f)
  BY <1>1, <1>2, <1>3, OldestFrame
<1>5. f \in Seq(Byte) /\ Len(f) = 4 + Len(m) /\ Len(m) \in Nat /\ Len(f) \in Nat
  BY <1>4, FrameProperties
<1>6. head \in Nat /\ tail \in Nat /\ tail <= head /\ len \in Nat /\ Len(f) <= len
  BY <1>1, <1>4, <1>5, HeaderProperties
<1>7. /\ head' = head /\ tail' = tail + Len(f) /\ ring' = ring
      /\ accepted' = accepted /\ delivered' = Append(delivered, m)
  <2>1. tail' = tail + 4 + Len(m) /\ delivered' = Append(delivered, m)
    BY <1>2 DEF RecvCommit
  <2>2. head' = head /\ ring' = ring /\ accepted' = accepted
    BY <1>2 DEF RecvCommit
  <2> HIDE DEF m, f
  <2>3. tail' = tail + Len(f)
    BY <1>5, <1>6, <2>1
  <2> QED
    BY <2>1, <2>2, <2>3
<1>8. s \in Seq(Byte) /\ Len(s) = len /\ \A i \in 1 .. len : s[i] = ring[Cell(tail + i - 1)]
  BY <1>1, <1>6, BytesProperties
<1>9. /\ t \in Seq(Byte) /\ Len(t) = len - Len(f)
      /\ \A i \in 1 .. len - Len(f) : t[i] = ring[Cell(tail + Len(f) + i - 1)]
  <2>1. len' = len - Len(f) /\ len - Len(f) \in Nat /\ tail + Len(f) \in Nat
    BY <1>5, <1>6, <1>7
  <2>2. Bytes(tail + Len(f), len - Len(f)) = t
    BY <1>7, <2>1 DEF Bytes
  <2> HIDE DEF t, f, len
  <2>3. /\ Bytes(tail + Len(f), len - Len(f)) \in Seq(Byte)
        /\ Len(Bytes(tail + Len(f), len - Len(f))) = len - Len(f)
        /\ \A i \in 1 .. len - Len(f) :
              Bytes(tail + Len(f), len - Len(f))[i] = ring[Cell(tail + Len(f) + i - 1)]
    BY <1>1, <2>1, BytesProperties
  <2> QED
    BY <2>2, <2>3
<1>10. \A i \in 1 .. Len(f) : ring[Cell(tail + i - 1)] = f[i]
  BY <1>4 DEF Holds
<1> HIDE DEF m, f, s, t, len
<1>11. SubSeq(s, 1, Len(f)) = f
  <2> DEFINE u == SubSeq(s, 1, Len(f))
  <2>1. u \in Seq(Byte) /\ Len(u) = Len(f) /\ \A i \in 1 .. Len(f) : u[i] = s[i]
    BY <1>5, <1>6, <1>8
  <2>2. ASSUME NEW i \in 1 .. Len(f) PROVE s[i] = f[i]
    <3>1. i \in 1 .. len
      BY <1>5, <1>6
    <3> QED
      BY <1>8, <1>10, <3>1
  <2> HIDE DEF u
  <2>3. u = f
    BY <1>5, <2>1, <2>2, SameSequence
  <2> QED
    BY <2>3 DEF u
<1>12. t = SubSeq(s, Len(f) + 1, Len(s))
  <2> DEFINE u == SubSeq(s, Len(f) + 1, Len(s))
  <2>1. u \in Seq(Byte) /\ Len(u) = len - Len(f)
        /\ \A i \in 1 .. len - Len(f) : u[i] = s[Len(f) + i]
    BY <1>5, <1>6, <1>8
  <2>2. ASSUME NEW i \in 1 .. len - Len(f) PROVE t[i] = s[Len(f) + i]
    <3>1. Len(f) + i \in 1 .. len /\ tail + (Len(f) + i) - 1 = tail + Len(f) + i - 1
      BY <1>5, <1>6
    <3> QED
      BY <1>8, <1>9, <3>1
  <2> HIDE DEF u
  <2>3. t = u
    BY <1>9, <2>1, <2>2, SameSequence
  <2> QED
    BY <2>3 DEF u
<1>13. Abstract!Get(m)
  <2>1. Abstract!Frame(m) = f
    BY SameFrame DEF f
  <2> QED
    BY <1>6, <1>7, <1>8, <1>11, <1>12, <2>1 DEF Abstract!Get, s, t, len
<1> QED
  BY <1>4, <1>13

\* The other steps of the two calls are not seen.
LEMMA HiddenSteps ==
    ASSUME RingInv,
           \/ \E m \in Messages : SendBegin(m)
           \/ SendWrite \/ RecvBegin \/ RecvRead \/ UNCHANGED ringVars
    PROVE  UNCHANGED <<Bytes(tail, head - tail), accepted, delivered>>
<1>1. UNCHANGED <<head, tail, accepted, delivered>>
  BY DEF SendBegin, SendWrite, RecvBegin, RecvRead, ringVars, shared
<1>2. CASE SendWrite
  <2>1. head \in Nat /\ tail \in Nat
    BY HeaderProperties DEF RingInv
  <2>2. \A o \in tail .. head - 1 : ring'[Cell(o)] = ring[Cell(o)]
    BY <1>2, Written DEF RingInv
  <2>3. ASSUME NEW i \in 1 .. head - tail
        PROVE  ring'[Cell(tail + i - 1)] = ring[Cell(tail + i - 1)]
    <3>1. tail + i - 1 \in tail .. head - 1
      BY <2>1
    <3> QED
      BY <2>2, <3>1
  <2>4. Bytes(tail, head - tail)' = [i \in 1 .. head - tail |-> ring'[Cell(tail + i - 1)]]
    BY <1>1 DEF Bytes
  <2>5. Bytes(tail, head - tail)' = Bytes(tail, head - tail)
    BY <2>3, <2>4 DEF Bytes
  <2> QED
    BY <1>1, <2>5
<1>3. CASE ~SendWrite
  <2>1. ring' = ring
    BY <1>3 DEF SendBegin, RecvBegin, RecvRead, ringVars, shared
  <2> QED
    BY <1>1, <2>1 DEF Bytes
<1> QED
  BY <1>2, <1>3

\* Two processes that take turns see a bounded stream of whole frames: send()
\* appends its frame in the step that writes the header back, recv() takes the
\* first one off, frames wrap round the end of the ring, and nothing that waits is
\* overwritten, whatever the capacity and the messages.
THEOREM RingIsStream == ASSUME ~Overlap PROVE RingSpec => ImplementsStream
<1>1. RingInit => Abstract!Init
  <2> SUFFICES ASSUME RingInit PROVE Abstract!Init
    OBVIOUS
  <2>1. head = 0 /\ tail = 0 /\ accepted = <<>> /\ delivered = <<>>
    BY DEF RingInit
  <2>2. Bytes(tail, head - tail) = <<>>
    BY <2>1 DEF Bytes
  <2> QED
    BY <2>1, <2>2 DEF Abstract!Init
<1>2. RingInv /\ RingInv' /\ [RingNext]_ringVars
         => [Abstract!Next]_<<Bytes(tail, head - tail), accepted, delivered>>
  BY CommitIsPut, CommitIsGet, HiddenSteps DEF RingNext, Abstract!Next
<1>3. RingSpec => []RingInv
  BY RingInvariant
<1> QED
  BY <1>1, <1>2, <1>3, PTL DEF RingSpec, ImplementsStream, Abstract!Spec
=============================================================================
