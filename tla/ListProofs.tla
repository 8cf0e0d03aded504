----------------------------- MODULE ListProofs -----------------------------
(***************************************************************************)
(* Facts about numbers and lists that the proofs of several components     *)
(* need: induction over the natural numbers, stated for sets, and what     *)
(* removing from a list and searching it do.                               *)
(***************************************************************************)
EXTENDS Naturals, Sequences, SequencesExt, FiniteSetTheorems, SequenceTheorems,
        WellFoundedInduction, TLAPS

\* A set of natural numbers that is not empty has a least element.
LEMMA Least ==
    ASSUME NEW T \in SUBSET Nat, T # {}
    PROVE  \E x \in T : \A y \in T : x <= y
<1> DEFINE R == OpToRel(<, Nat)
<1>1. IsWellFoundedOn(R, Nat)
  BY NatLessThanWellFounded
<1>2. \A x, y \in Nat : <<y, x>> \in R <=> y < x
  BY DEF OpToRel
<1> HIDE DEF R
<1>3. PICK x \in T : \A y \in T : ~(<<y, x>> \in R)
  BY <1>1, WFMin
<1>4. ASSUME NEW y \in T PROVE x <= y
  <2>1. x \in Nat /\ y \in Nat
    OBVIOUS
  <2>2. ~(y < x)
    BY <1>2, <1>3, <2>1, Zenon
  <2> QED
    BY <2>1, <2>2
<1> QED
  BY <1>4

\* Induction: a set with 0 and with every successor holds all of them.
LEMMA Induction ==
    ASSUME NEW T \in SUBSET Nat, 0 \in T, \A n \in T : n + 1 \in T
    PROVE  T = Nat
<1> SUFFICES ASSUME Nat \ T # {} PROVE FALSE
  OBVIOUS
<1>1. PICK x \in Nat \ T : \A y \in Nat \ T : x <= y
  BY Least
<1>2. x # 0 /\ x - 1 \in Nat
  BY <1>1
<1>3. x - 1 \in T
  BY <1>1, <1>2
<1>4. (x - 1) + 1 = x
  BY <1>2
<1> QED
  BY <1>3, <1>4

-----------------------------------------------------------------------------
\* What removing a place does to a sequence.
LEMMA RemoveAtProperties ==
    ASSUME NEW S, NEW s \in Seq(S), NEW n \in 1 .. Len(s)
    PROVE  /\ RemoveAt(s, n) \in Seq(S)
           /\ Len(RemoveAt(s, n)) = Len(s) - 1
           /\ \A j \in 1 .. Len(s) - 1 :
                 RemoveAt(s, n)[j] = IF j < n THEN s[j] ELSE s[j + 1]
<1> DEFINE p == SubSeq(s, 1, n - 1)
           q == SubSeq(s, n + 1, Len(s))
<1>1. /\ p \in Seq(S) /\ Len(p) = n - 1
      /\ \A j \in 1 .. n - 1 : p[j] = s[j]
  OBVIOUS
<1>2. /\ q \in Seq(S) /\ Len(q) = Len(s) - n
      /\ \A j \in 1 .. Len(s) - n : q[j] = s[n + j]
  OBVIOUS
<1>3. RemoveAt(s, n) = p \o q
  BY DEF RemoveAt
<1> HIDE DEF p, q
<1>4. /\ p \o q \in Seq(S)
      /\ Len(p \o q) = Len(p) + Len(q)
      /\ \A j \in 1 .. Len(p) + Len(q) :
            (p \o q)[j] = IF j <= Len(p) THEN p[j] ELSE q[j - Len(p)]
  BY <1>1, <1>2, ConcatProperties
<1>5. ASSUME NEW j \in 1 .. Len(s) - 1
      PROVE  (p \o q)[j] = IF j < n THEN s[j] ELSE s[j + 1]
  <2>1. Len(s) \in Nat /\ Len(p) + Len(q) = Len(s) - 1
    BY <1>1, <1>2
  <2>2. CASE j < n
    BY <1>1, <1>4, <2>1, <2>2
  <2>3. CASE ~(j < n)
    <3>1. j - Len(p) \in 1 .. Len(s) - n /\ n + (j - Len(p)) = j + 1
      BY <1>1, <2>1, <2>3
    <3>2. (p \o q)[j] = q[j - Len(p)]
      BY <1>1, <1>4, <2>1, <2>3
    <3> QED
      BY <1>2, <2>3, <3>1, <3>2
  <2> QED
    BY <2>2, <2>3
<1> QED
  BY <1>1, <1>2, <1>3, <1>4, <1>5

\* What is left is what was there before, each place as it was.
LEMMA Remaining ==
    ASSUME NEW S, NEW s \in Seq(S), NEW n \in 1 .. Len(s)
    PROVE  /\ \A p \in DOMAIN RemoveAt(s, n) :
                 \E q \in DOMAIN s \ {n} :
                    RemoveAt(s, n)[p] = s[q] /\ q = IF p < n THEN p ELSE p + 1
           /\ \A q \in DOMAIN s \ {n} :
                 \E p \in DOMAIN RemoveAt(s, n) : RemoveAt(s, n)[p] = s[q]
<1> DEFINE r == RemoveAt(s, n)
<1>1. /\ Len(s) \in Nat /\ DOMAIN s = 1 .. Len(s)
      /\ DOMAIN r = 1 .. Len(s) - 1
      /\ \A j \in 1 .. Len(s) - 1 : r[j] = IF j < n THEN s[j] ELSE s[j + 1]
  <2>1. /\ r \in Seq(S) /\ Len(r) = Len(s) - 1
        /\ \A j \in 1 .. Len(s) - 1 : r[j] = IF j < n THEN s[j] ELSE s[j + 1]
    BY RemoveAtProperties
  <2> HIDE DEF r
  <2> QED
    BY <2>1
<1> HIDE DEF r
<1>2. ASSUME NEW p \in DOMAIN r
      PROVE  \E q \in DOMAIN s \ {n} : r[p] = s[q] /\ q = IF p < n THEN p ELSE p + 1
  <2>1. CASE p < n
    <3>1. p \in DOMAIN s \ {n} /\ r[p] = s[p]
      BY <1>1, <2>1
    <3> QED
      BY <2>1, <3>1
  <2>2. CASE ~(p < n)
    <3>1. p + 1 \in DOMAIN s \ {n} /\ r[p] = s[p + 1]
      BY <1>1, <2>2
    <3> QED
      BY <2>2, <3>1
  <2> QED
    BY <2>1, <2>2
<1>3. ASSUME NEW q \in DOMAIN s \ {n}
      PROVE  \E p \in DOMAIN r : r[p] = s[q]
  <2>1. CASE q < n
    <3>1. q \in DOMAIN r /\ r[q] = s[q]
      BY <1>1, <2>1
    <3> QED
      BY <3>1
  <2>2. CASE ~(q < n)
    <3>1. q - 1 \in DOMAIN r /\ r[q - 1] = s[q]
      BY <1>1, <2>2
    <3> QED
      BY <3>1
  <2> QED
    BY <2>1, <2>2
<1> QED
  BY <1>2, <1>3 DEF r

\* The first place of a value in a list.
FirstPlace(s, x) == Min({n \in 1 .. Len(s) : s[n] = x})

\* list.index()
LEMMA FirstPlaceFound ==
    ASSUME NEW S, NEW s \in Seq(S), NEW x, x \in ToSet(s)
    PROVE  /\ FirstPlace(s, x) \in 1 .. Len(s)
           /\ s[FirstPlace(s, x)] = x
           /\ \A m \in 1 .. Len(s) : s[m] = x => FirstPlace(s, x) <= m
<1> DEFINE I == {n \in 1 .. Len(s) : s[n] = x}
<1>1. I \in SUBSET Nat /\ I # {}
  BY DEF ToSet
<1>2. \E n \in I : \A m \in I : n <= m
  BY <1>1, Least
<1>3. Min(I) \in I /\ \A m \in I : Min(I) <= m
  BY <1>2 DEF Min
<1> QED
  BY <1>3 DEF FirstPlace

\* list.remove(): the first of the values that are equal goes.
LEMMA RemoveFirstFound ==
    ASSUME NEW S, NEW s \in Seq(S), NEW x
    PROVE  /\ x \in ToSet(s) => RemoveFirst(s, x) = RemoveAt(s, FirstPlace(s, x))
           /\ x \notin ToSet(s) => RemoveFirst(s, x) = s
<1>1. x \in ToSet(s) <=> \E n \in 1 .. Len(s) : s[n] = x
  BY DEF ToSet
<1> QED
  BY <1>1 DEF RemoveFirst, SelectInSeq, FirstPlace

\* What comes before what in w does so in s.
InOrderOf(w, s) ==
    \A p, q \in DOMAIN w :
        p < q => \E u, v \in DOMAIN s : u < v /\ w[p] = s[u] /\ w[q] = s[v]

\* What a list holds after a removal: all but the value, in their order.
LEMMA RemoveFirstProperties ==
    ASSUME NEW S, NEW s \in Seq(S), NEW x
    PROVE  /\ RemoveFirst(s, x) \in Seq(S)
           /\ \A y \in ToSet(s) : y = x \/ y \in ToSet(RemoveFirst(s, x))
           /\ ToSet(RemoveFirst(s, x)) \subseteq ToSet(s)
           /\ InOrderOf(RemoveFirst(s, x), s)
<1> DEFINE r == RemoveFirst(s, x)
           n == FirstPlace(s, x)
<1>1. CASE x \in ToSet(s)
  <2>1. n \in 1 .. Len(s) /\ s[n] = x
    BY <1>1, FirstPlaceFound
  <2>2. r = RemoveAt(s, n)
    BY <1>1, RemoveFirstFound
  <2> HIDE DEF n, r
  <2>3. r \in Seq(S)
    BY <2>1, <2>2, RemoveAtProperties
  <2>4. /\ \A p \in DOMAIN r :
              \E q \in DOMAIN s \ {n} : r[p] = s[q] /\ q = IF p < n THEN p ELSE p + 1
        /\ \A q \in DOMAIN s \ {n} : \E p \in DOMAIN r : r[p] = s[q]
    BY <2>1, <2>2, Remaining
  <2>5. \A y \in ToSet(s) : y = x \/ y \in ToSet(r)
    BY <2>1, <2>4 DEF ToSet
  <2>6. ToSet(r) \subseteq ToSet(s)
    BY <2>4 DEF ToSet
  <2>7. ASSUME NEW p \in DOMAIN r, NEW q \in DOMAIN r, p < q
        PROVE  \E u, v \in DOMAIN s : u < v /\ r[p] = s[u] /\ r[q] = s[v]
    <3>1. PICK u \in DOMAIN s \ {n} : r[p] = s[u] /\ u = IF p < n THEN p ELSE p + 1
      BY <2>4
    <3>2. PICK v \in DOMAIN s \ {n} : r[q] = s[v] /\ v = IF q < n THEN q ELSE q + 1
      BY <2>4
    <3>3. p \in Nat /\ q \in Nat /\ n \in Nat
      BY <2>1, <2>3
    <3>4. u < v
      BY <2>7, <3>1, <3>2, <3>3
    <3> QED
      BY <3>1, <3>2, <3>4
  <2> QED
    BY <2>3, <2>5, <2>6, <2>7 DEF r, InOrderOf
<1>2. CASE x \notin ToSet(s)
  <2>1. r = s
    BY <1>2, RemoveFirstFound
  <2> QED
    BY <2>1 DEF InOrderOf
<1> QED
  BY <1>1, <1>2
=============================================================================
