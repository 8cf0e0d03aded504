---------------------------- MODULE PagerProofs ----------------------------
(***************************************************************************)
(* The memory manager for every list of policies, budget and length of the *)
(* conversation: what the operators on pages do, and from it what happens  *)
(* to the turns of a conversation.                                         *)
(***************************************************************************)
EXTENDS ContextPager, ListProofs

(***************************************************************************)
(* Lists of pages                                                          *)
(***************************************************************************)
\* The recursion behind a fold that removes the pages of b one after another.
Removing(s, b, n, g) ==
    g = [t \in SUBSET (1 .. n) |->
            IF t = {} THEN s ELSE RemoveFirst(g[t \ {Max(t)}], b[Max(t)])]

\* It has a solution for every length of b.
LEMMA RemovingExists ==
    ASSUME NEW s, NEW b, NEW n \in Nat
    PROVE  \E g : Removing(s, b, n, g)
<1> DEFINE T == {m \in Nat : \E g : Removing(s, b, m, g)}
<1>1. 0 \in T
  <2> DEFINE g == [t \in SUBSET (1 .. 0) |-> s]
  <2>1. SUBSET (1 .. 0) = {{}}
    BY SMT
  <2>2. Removing(s, b, 0, g)
    BY <2>1 DEF Removing
  <2> QED
    BY <2>2
<1>2. ASSUME NEW m \in T PROVE m + 1 \in T
  <2>1. PICK g : Removing(s, b, m, g)
    OBVIOUS
  <2> DEFINE h == [t \in SUBSET (1 .. m + 1) |->
                      IF m + 1 \in t THEN RemoveFirst(g[t \ {m + 1}], b[m + 1]) ELSE g[t]]
             next1(t) == IF t = {} THEN s ELSE RemoveFirst(h[t \ {Max(t)}], b[Max(t)])
  <2>2. ASSUME NEW t \in SUBSET (1 .. m + 1) PROVE h[t] = next1(t)
    <3>1. CASE m + 1 \in t
      <4>1. Max(t) = m + 1
        <5>1. \A y \in t : m + 1 >= y
          OBVIOUS
        <5>2. \A x \in t : (\A y \in t : x >= y) => x = m + 1
          BY <3>1
        <5> QED
          BY <3>1, <5>1, <5>2 DEF Max
      <4>2. t \ {m + 1} \in SUBSET (1 .. m + 1) /\ m + 1 \notin t \ {m + 1}
        OBVIOUS
      <4>3. h[t \ {m + 1}] = g[t \ {m + 1}]
        BY <4>2
      <4> QED
        BY <3>1, <4>1, <4>3
    <3>2. CASE m + 1 \notin t
      <4>1. t \in SUBSET (1 .. m) /\ t \ {Max(t)} \in SUBSET (1 .. m)
        <5>1. \A x \in 1 .. m + 1 : x # m + 1 => x \in 1 .. m
          OBVIOUS
        <5> QED
          BY <3>2, <5>1
      <4>2. h[t] = g[t] /\ h[t \ {Max(t)}] = g[t \ {Max(t)}]
        BY <3>2, <4>1
      <4>3. g[t] = IF t = {} THEN s ELSE RemoveFirst(g[t \ {Max(t)}], b[Max(t)])
        BY <2>1, <4>1 DEF Removing
      <4> QED
        BY <4>2, <4>3
    <3> QED
      BY <3>1, <3>2
  <2>3. Removing(s, b, m + 1, h)
    BY <2>2 DEF Removing
  <2> QED
    BY <2>3
<1> QED
  BY <1>1, <1>2, Induction

\* list.remove() for each page of b: the list after each removal.
LEMMA WithoutSteps ==
    ASSUME NEW S, NEW s, NEW b \in Seq(S)
    PROVE  \E w : /\ w[0] = s
                  /\ \A n \in 1 .. Len(b) : w[n] = RemoveFirst(w[n - 1], b[n])
                  /\ w[Len(b)] = Without(s, b)
<1> DEFINE g == CHOOSE f : Removing(s, b, Len(b), f)
           w == [n \in 0 .. Len(b) |-> g[1 .. n]]
<1>1. Len(b) \in Nat /\ DOMAIN b = 1 .. Len(b)
  OBVIOUS
<1>2. Without(s, b) = g[1 .. Len(b)]
  BY <1>1 DEF Without, FoldLeft, MapThenFoldSet, Removing
<1>3. Removing(s, b, Len(b), g)
  BY <1>1, RemovingExists
<1> HIDE DEF g
<1>4. w[0] = s
  <2>1. 1 .. 0 = {} /\ {} \in SUBSET (1 .. Len(b))
    BY SMT
  <2>2. g[{}] = s
    BY <1>3, <2>1 DEF Removing
  <2> QED
    BY <1>1, <2>1, <2>2
<1>5. ASSUME NEW n \in 1 .. Len(b) PROVE w[n] = RemoveFirst(w[n - 1], b[n])
  <2>1. 1 .. n \in SUBSET (1 .. Len(b)) /\ 1 .. n # {} /\ (1 .. n) \ {n} = 1 .. n - 1
    <3>1. n \in 1 .. n /\ \A x \in 1 .. n : x \in 1 .. Len(b)
      BY <1>1
    <3>2. \A x : x \in (1 .. n) \ {n} <=> x \in 1 .. n - 1
      BY <1>1
    <3> QED
      BY <3>1, <3>2
  <2>2. Max(1 .. n) = n
    <3>1. n \in 1 .. n /\ \A y \in 1 .. n : n >= y
      OBVIOUS
    <3>2. \A x \in 1 .. n : (\A y \in 1 .. n : x >= y) => x = n
      OBVIOUS
    <3> QED
      BY <3>1, <3>2 DEF Max
  <2>3. g[1 .. n] = RemoveFirst(g[1 .. n - 1], b[n])
    BY <1>3, <2>1, <2>2 DEF Removing
  <2> QED
    BY <1>1, <2>3
<1>6. w[Len(b)] = Without(s, b)
  BY <1>1, <1>2
<1> QED
  BY <1>4, <1>5, <1>6

\* Removing pages leaves a list of the others, in their order.
LEMMA WithoutProperties ==
    ASSUME NEW S, NEW s \in Seq(S), NEW b \in Seq(S)
    PROVE  /\ Without(s, b) \in Seq(S)
           /\ \A y \in ToSet(s) : y \in ToSet(b) \/ y \in ToSet(Without(s, b))
           /\ ToSet(Without(s, b)) \subseteq ToSet(s)
           /\ InOrderOf(Without(s, b), s)
<1>1. Len(b) \in Nat /\ DOMAIN b = 1 .. Len(b)
  OBVIOUS
<1>2. PICK w : /\ w[0] = s
               /\ \A n \in 1 .. Len(b) : w[n] = RemoveFirst(w[n - 1], b[n])
               /\ w[Len(b)] = Without(s, b)
  BY WithoutSteps
<1> DEFINE Good(r) == /\ r \in Seq(S)
                      /\ \A y \in ToSet(s) : y \in ToSet(b) \/ y \in ToSet(r)
                      /\ ToSet(r) \subseteq ToSet(s)
                      /\ InOrderOf(r, s)
           T == {n \in Nat : n <= Len(b) => Good(w[n])}
<1>3. 0 \in T
  BY <1>2 DEF InOrderOf
<1>4. ASSUME NEW n \in T PROVE n + 1 \in T
  <2> SUFFICES ASSUME n + 1 <= Len(b) PROVE Good(w[n + 1])
    OBVIOUS
  <2>1. n \in Nat /\ n + 1 \in 1 .. Len(b) /\ (n + 1) - 1 = n
    BY <1>1
  <2> DEFINE r == w[n]
             x == b[n + 1]
  <2>2. Good(r)
    BY <1>1, <2>1
  <2>3. w[n + 1] = RemoveFirst(r, x) /\ x \in ToSet(b)
    <3>1. w[n + 1] = RemoveFirst(w[(n + 1) - 1], b[n + 1])
      BY <1>2, <2>1
    <3> QED
      BY <1>1, <2>1, <3>1 DEF ToSet
  <2> HIDE DEF r, x
  <2>4. /\ RemoveFirst(r, x) \in Seq(S)
        /\ \A y \in ToSet(r) : y = x \/ y \in ToSet(RemoveFirst(r, x))
        /\ ToSet(RemoveFirst(r, x)) \subseteq ToSet(r)
        /\ InOrderOf(RemoveFirst(r, x), r)
    BY <2>2, RemoveFirstProperties
  <2>5. InOrderOf(RemoveFirst(r, x), s)
    <3> SUFFICES ASSUME NEW p \in DOMAIN RemoveFirst(r, x), NEW q \in DOMAIN RemoveFirst(r, x),
                        p < q
                 PROVE  \E u, v \in DOMAIN s :
                           /\ u < v
                           /\ RemoveFirst(r, x)[p] = s[u] /\ RemoveFirst(r, x)[q] = s[v]
      BY DEF InOrderOf
    <3>1. PICK u, v \in DOMAIN r :
             /\ u < v
             /\ RemoveFirst(r, x)[p] = r[u] /\ RemoveFirst(r, x)[q] = r[v]
      BY <2>4 DEF InOrderOf
    <3>2. \E i1, j1 \in DOMAIN s : i1 < j1 /\ r[u] = s[i1] /\ r[v] = s[j1]
      BY <2>2, <3>1 DEF InOrderOf
    <3> QED
      BY <3>1, <3>2
  <2>6. Good(RemoveFirst(r, x))
    BY <2>2, <2>3, <2>4, <2>5
  <2> QED
    BY <2>3, <2>6
<1>5. Len(b) \in T
  BY <1>1, <1>3, <1>4, Induction
<1> QED
  BY <1>1, <1>2, <1>5

\* b is a stretch of the list s, from place m + 1 on, and occurs only there.
Stretch(s, b, m) ==
    /\ m + Len(b) <= Len(s)
    /\ \A k \in 1 .. Len(b) :
          /\ b[k] = s[m + k]
          /\ \A p \in 1 .. Len(s) : s[p] = b[k] => p = m + k

\* r is s without n places from m + 1 on.
MovedUp(r, s, m, n) ==
    /\ Len(r) = Len(s) - n
    /\ \A p \in 1 .. Len(r) : r[p] = s[IF p <= m THEN p ELSE p + n]

\* Removing one more page of the stretch.
LEMMA MoveUp ==
    ASSUME NEW S, NEW s \in Seq(S), NEW b \in Seq(S), NEW m \in Nat, Stretch(s, b, m),
           NEW n \in Nat, n + 1 <= Len(b), NEW r \in Seq(S), MovedUp(r, s, m, n)
    PROVE  /\ RemoveFirst(r, b[n + 1]) \in Seq(S)
           /\ MovedUp(RemoveFirst(r, b[n + 1]), s, m, n + 1)
<1> DEFINE x == b[n + 1]
<1>1. /\ Len(b) \in Nat /\ Len(s) \in Nat /\ m + Len(b) <= Len(s)
      /\ Len(r) = Len(s) - n /\ DOMAIN r = 1 .. Len(r)
  BY DEF Stretch, MovedUp
<1>2. /\ x = s[m + (n + 1)]
      /\ \A p \in 1 .. Len(s) : s[p] = x => p = m + (n + 1)
  <2>1. n + 1 \in 1 .. Len(b)
    BY <1>1
  <2>2. \A k \in 1 .. Len(b) :
           /\ b[k] = s[m + k]
           /\ \A p \in 1 .. Len(s) : s[p] = b[k] => p = m + k
    BY DEF Stretch
  <2> QED
    BY <2>1, <2>2
<1> HIDE DEF x
<1>3. \A p \in 1 .. Len(r) : r[p] = s[IF p <= m THEN p ELSE p + n]
  BY DEF MovedUp
<1>4. m + 1 \in 1 .. Len(r) /\ r[m + 1] = x
  <2>1. m + 1 \in 1 .. Len(r) /\ ~(m + 1 <= m) /\ (m + 1) + n = m + (n + 1)
    BY <1>1
  <2>2. r[m + 1] = s[(m + 1) + n]
    BY <1>3, <2>1
  <2> QED
    BY <1>2, <2>1, <2>2
<1>5. ASSUME NEW p \in 1 .. Len(r), r[p] = x PROVE p = m + 1
  <2> DEFINE q == IF p <= m THEN p ELSE p + n
  <2>1. q \in 1 .. Len(s) /\ (q = m + (n + 1) => p = m + 1)
    BY <1>1
  <2>2. s[q] = x
    BY <1>3, <1>5
  <2> HIDE DEF q
  <2> QED
    BY <1>2, <2>1, <2>2
<1>6. RemoveFirst(r, x) = RemoveAt(r, m + 1)
  <2>1. x \in ToSet(r)
    BY <1>1, <1>4 DEF ToSet
  <2>2. FirstPlace(r, x) \in 1 .. Len(r) /\ r[FirstPlace(r, x)] = x
    BY <2>1, FirstPlaceFound
  <2>3. FirstPlace(r, x) = m + 1
    BY <1>5, <2>2
  <2> QED
    BY <2>1, <2>3, RemoveFirstFound
<1> DEFINE t == RemoveAt(r, m + 1)
<1>7. /\ t \in Seq(S) /\ Len(t) = Len(r) - 1
      /\ \A p \in 1 .. Len(r) - 1 : t[p] = IF p < m + 1 THEN r[p] ELSE r[p + 1]
  BY <1>4, RemoveAtProperties
<1> HIDE DEF t
<1>8. ASSUME NEW p \in 1 .. Len(t)
      PROVE  t[p] = s[IF p <= m THEN p ELSE p + (n + 1)]
  <2>1. p \in 1 .. Len(r) - 1 /\ p \in 1 .. Len(r) /\ p + 1 \in 1 .. Len(r)
    BY <1>1, <1>7
  <2>2. CASE p <= m
    <3>1. t[p] = r[p]
      BY <1>7, <2>1, <2>2
    <3>2. r[p] = s[p]
      BY <1>3, <2>1, <2>2
    <3> QED
      BY <2>2, <3>1, <3>2
  <2>3. CASE ~(p <= m)
    <3>1. t[p] = r[p + 1]
      BY <1>7, <2>1, <2>3
    <3>2. ~(p + 1 <= m) /\ (p + 1) + n = p + (n + 1)
      BY <2>1, <2>3
    <3>3. r[p + 1] = s[(p + 1) + n]
      BY <1>3, <2>1, <3>2
    <3> QED
      BY <2>3, <3>1, <3>2, <3>3
  <2> QED
    BY <2>2, <2>3
<1>9. Len(t) = Len(s) - (n + 1)
  BY <1>1, <1>7
<1> QED
  BY <1>6, <1>7, <1>8, <1>9 DEF MovedUp, t, x

\* Removing a stretch: what is behind it moves up.
LEMMA WithoutStretch ==
    ASSUME NEW S, NEW s \in Seq(S), NEW b \in Seq(S), NEW m \in Nat, Stretch(s, b, m)
    PROVE  MovedUp(Without(s, b), s, m, Len(b))
<1>1. Len(b) \in Nat
  OBVIOUS
<1>2. PICK w : /\ w[0] = s
               /\ \A n \in 1 .. Len(b) : w[n] = RemoveFirst(w[n - 1], b[n])
               /\ w[Len(b)] = Without(s, b)
  BY WithoutSteps
<1> DEFINE T == {n \in Nat : n <= Len(b) => w[n] \in Seq(S) /\ MovedUp(w[n], s, m, n)}
<1>3. 0 \in T
  <2>1. MovedUp(s, s, m, 0)
    BY DEF MovedUp
  <2> QED
    BY <1>2, <2>1
<1>4. ASSUME NEW n \in T PROVE n + 1 \in T
  <2> SUFFICES ASSUME n + 1 <= Len(b)
               PROVE  w[n + 1] \in Seq(S) /\ MovedUp(w[n + 1], s, m, n + 1)
    OBVIOUS
  <2>1. n \in Nat /\ n + 1 \in 1 .. Len(b) /\ (n + 1) - 1 = n /\ n <= Len(b)
    BY <1>1
  <2>2. w[n] \in Seq(S) /\ MovedUp(w[n], s, m, n)
    BY <2>1
  <2>3. w[n + 1] = RemoveFirst(w[n], b[n + 1])
    BY <1>2, <2>1
  <2> QED
    BY <2>1, <2>2, <2>3, MoveUp
<1>5. Len(b) \in T
  BY <1>1, <1>3, <1>4, Induction
<1> QED
  BY <1>1, <1>2, <1>5

\* The sum behind context_size().
Adding(s, n, g) ==
    g = [t \in SUBSET (1 .. n) |->
            IF t = {} THEN 0 ELSE g[t \ {Max(t)}] + PageTokens(s[Max(t)])]

\* It is defined for every list.
LEMMA AddingExists ==
    ASSUME NEW s, NEW n \in Nat
    PROVE  \E g : Adding(s, n, g)
<1> DEFINE T == {m \in Nat : \E g : Adding(s, m, g)}
<1>1. 0 \in T
  <2> DEFINE g == [t \in SUBSET (1 .. 0) |-> 0]
  <2>1. SUBSET (1 .. 0) = {{}}
    BY SMT
  <2>2. Adding(s, 0, g)
    BY <2>1 DEF Adding
  <2> QED
    BY <2>2
<1>2. ASSUME NEW m \in T PROVE m + 1 \in T
  <2>1. PICK g : Adding(s, m, g)
    OBVIOUS
  <2> DEFINE h == [t \in SUBSET (1 .. m + 1) |->
                      IF m + 1 \in t THEN g[t \ {m + 1}] + PageTokens(s[m + 1]) ELSE g[t]]
             sum(t) == IF t = {} THEN 0 ELSE h[t \ {Max(t)}] + PageTokens(s[Max(t)])
  <2>2. ASSUME NEW t \in SUBSET (1 .. m + 1) PROVE h[t] = sum(t)
    <3>1. CASE m + 1 \in t
      <4>1. Max(t) = m + 1
        <5>1. \A y \in t : m + 1 >= y
          OBVIOUS
        <5>2. \A x \in t : (\A y \in t : x >= y) => x = m + 1
          BY <3>1
        <5> QED
          BY <3>1, <5>1, <5>2 DEF Max
      <4>2. t \ {m + 1} \in SUBSET (1 .. m + 1) /\ m + 1 \notin t \ {m + 1}
        OBVIOUS
      <4>3. h[t \ {m + 1}] = g[t \ {m + 1}]
        BY <4>2
      <4> QED
        BY <3>1, <4>1, <4>3
    <3>2. CASE m + 1 \notin t
      <4>1. t \in SUBSET (1 .. m) /\ t \ {Max(t)} \in SUBSET (1 .. m)
        <5>1. \A x \in 1 .. m + 1 : x # m + 1 => x \in 1 .. m
          OBVIOUS
        <5> QED
          BY <3>2, <5>1
      <4>2. h[t] = g[t] /\ h[t \ {Max(t)}] = g[t \ {Max(t)}]
        BY <3>2, <4>1
      <4>3. g[t] = IF t = {} THEN 0 ELSE g[t \ {Max(t)}] + PageTokens(s[Max(t)])
        BY <2>1, <4>1 DEF Adding
      <4> QED
        BY <4>2, <4>3
    <3> QED
      BY <3>1, <3>2
  <2>3. Adding(s, m + 1, h)
    BY <2>2 DEF Adding
  <2> QED
    BY <2>3
<1> QED
  BY <1>1, <1>2, Induction

\* context_size() is the sum over the pages, one after another.
LEMMA SizeSteps ==
    ASSUME NEW S, NEW s \in Seq(S)
    PROVE  \E w : /\ w[0] = 0
                  /\ \A n \in 1 .. Len(s) : w[n] = w[n - 1] + PageTokens(s[n])
                  /\ w[Len(s)] = SizeOf(s)
<1> DEFINE g == CHOOSE f : Adding(s, Len(s), f)
           w == [n \in 0 .. Len(s) |-> g[1 .. n]]
<1>1. Len(s) \in Nat /\ DOMAIN s = 1 .. Len(s)
  OBVIOUS
<1>2. SizeOf(s) = g[1 .. Len(s)]
  BY <1>1 DEF SizeOf, FoldLeft, MapThenFoldSet, Adding
<1>3. Adding(s, Len(s), g)
  BY <1>1, AddingExists
<1> HIDE DEF g
<1>4. w[0] = 0
  <2>1. 1 .. 0 = {} /\ {} \in SUBSET (1 .. Len(s))
    BY SMT
  <2>2. g[{}] = 0
    BY <1>3, <2>1 DEF Adding
  <2> QED
    BY <1>1, <2>1, <2>2
<1>5. ASSUME NEW n \in 1 .. Len(s) PROVE w[n] = w[n - 1] + PageTokens(s[n])
  <2>1. 1 .. n \in SUBSET (1 .. Len(s)) /\ 1 .. n # {} /\ (1 .. n) \ {n} = 1 .. n - 1
    <3>1. n \in 1 .. n /\ \A x \in 1 .. n : x \in 1 .. Len(s)
      BY <1>1
    <3>2. \A x : x \in (1 .. n) \ {n} <=> x \in 1 .. n - 1
      BY <1>1
    <3> QED
      BY <3>1, <3>2
  <2>2. Max(1 .. n) = n
    <3>1. n \in 1 .. n /\ \A y \in 1 .. n : n >= y
      OBVIOUS
    <3>2. \A x \in 1 .. n : (\A y \in 1 .. n : x >= y) => x = n
      OBVIOUS
    <3> QED
      BY <3>1, <3>2 DEF Max
  <2>3. g[1 .. n] = g[1 .. n - 1] + PageTokens(s[n])
    BY <1>3, <2>1, <2>2 DEF Adding
  <2> QED
    BY <1>1, <2>3
<1>6. w[Len(s)] = SizeOf(s)
  BY <1>1, <1>2
<1> QED
  BY <1>4, <1>5, <1>6

\* The size of a list depends on the tokens of its pages only.
LEMMA SizeByTokens ==
    ASSUME NEW S, NEW s \in Seq(S), NEW r \in Seq(S), Len(r) = Len(s),
           \A n \in 1 .. Len(s) : PageTokens(r[n]) = PageTokens(s[n])
    PROVE  SizeOf(r) = SizeOf(s)
<1>1. PICK v : /\ v[0] = 0
               /\ \A n \in 1 .. Len(s) : v[n] = v[n - 1] + PageTokens(s[n])
               /\ v[Len(s)] = SizeOf(s)
  BY SizeSteps
<1>2. PICK w : /\ w[0] = 0
               /\ \A n \in 1 .. Len(r) : w[n] = w[n - 1] + PageTokens(r[n])
               /\ w[Len(r)] = SizeOf(r)
  BY SizeSteps
<1> DEFINE T == {n \in Nat : n <= Len(s) => v[n] = w[n]}
<1>3. 0 \in T
  BY <1>1, <1>2
<1>4. ASSUME NEW n \in T PROVE n + 1 \in T
  <2> SUFFICES ASSUME n + 1 <= Len(s) PROVE v[n + 1] = w[n + 1]
    OBVIOUS
  <2>1. n + 1 \in 1 .. Len(s) /\ (n + 1) - 1 = n /\ n <= Len(s)
    OBVIOUS
  <2>2. v[n] = w[n]
    BY <2>1
  <2>3. v[n + 1] = v[n] + PageTokens(s[n + 1])
    BY <1>1, <2>1
  <2>4. w[n + 1] = w[n] + PageTokens(r[n + 1])
    BY <1>2, <2>1
  <2> QED
    BY <2>1, <2>2, <2>3, <2>4
<1>5. Len(s) \in T
  <2>1. T \in SUBSET Nat /\ Len(s) \in Nat
    OBVIOUS
  <2> HIDE DEF T
  <2>2. T = Nat
    BY <1>3, <1>4, <2>1, Induction
  <2> QED
    BY <2>1, <2>2
<1> QED
  BY <1>1, <1>2, <1>5

\* The pages of all swap files, one file after another.
LEMMA FlattenType ==
    ASSUME NEW S, NEW ss \in Seq(Seq(S))
    PROVE  FlattenSeq(ss) \in Seq(S)
<1> DEFINE Joins(f, n) ==
              f = [k \in 1 .. n |-> IF k = 1 THEN ss[k] ELSE f[k - 1] \o ss[k]]
           F == {n \in Nat : \E f : Joins(f, n)}
<1>1. Len(ss) \in Nat /\ \A n \in 1 .. Len(ss) : ss[n] \in Seq(S)
  OBVIOUS
<1>2. 0 \in F
  <2>1. Joins([k \in 1 .. 0 |-> 0], 0)
    OBVIOUS
  <2> QED
    BY <2>1
<1>3. ASSUME NEW n \in F PROVE n + 1 \in F
  <2>1. PICK f : Joins(f, n)
    OBVIOUS
  <2> DEFINE h == [k \in 1 .. n + 1 |->
                      IF k <= n THEN f[k]
                      ELSE IF k = 1 THEN ss[k] ELSE f[n] \o ss[k]]
  <2>2. ASSUME NEW k \in 1 .. n + 1
        PROVE  h[k] = IF k = 1 THEN ss[k] ELSE h[k - 1] \o ss[k]
    <3>1. CASE k = 1
      <4>1. n \in Nat /\ (1 <= n => f[1] = ss[1])
        BY <2>1
      <4> QED
        BY <3>1, <4>1
    <3>2. CASE k # 1 /\ k <= n
      <4>1. k - 1 \in 1 .. n + 1 /\ k - 1 <= n /\ k \in 1 .. n
        BY <3>2
      <4>2. h[k] = f[k] /\ h[k - 1] = f[k - 1]
        BY <3>2, <4>1
      <4>3. f[k] = f[k - 1] \o ss[k]
        BY <2>1, <3>2, <4>1
      <4> QED
        BY <3>2, <4>2, <4>3
    <3>3. CASE k # 1 /\ ~(k <= n)
      <4>1. k = n + 1 /\ k - 1 = n /\ n \in 1 .. n + 1 /\ n <= n
        BY <3>3
      <4>2. h[k] = f[n] \o ss[k] /\ h[k - 1] = f[n]
        BY <3>3, <4>1
      <4> QED
        BY <3>3, <4>2
    <3> QED
      BY <3>1, <3>2, <3>3
  <2>3. Joins(h, n + 1)
    BY <2>2
  <2> QED
    <3>1. n + 1 \in Nat
      OBVIOUS
    <3>2. \E j : Joins(j, n + 1)
      BY <2>3
    <3> QED
      BY <3>1, <3>2
<1>4. Len(ss) \in F
  BY <1>1, <1>2, <1>3, Induction
<1>5. CASE Len(ss) = 0
  <2>1. ss = <<>>
    BY <1>5
  <2> QED
    BY <1>5, <2>1 DEF FlattenSeq
<1>6. CASE Len(ss) # 0
  <2> DEFINE g == CHOOSE f : Joins(f, Len(ss))
  <2>1. FlattenSeq(ss) = g[Len(ss)]
    BY <1>6 DEF FlattenSeq
  <2>2. Joins(g, Len(ss))
    BY <1>4
  <2> HIDE DEF g
  <2> DEFINE T == {n \in Nat : n + 1 <= Len(ss) => g[n + 1] \in Seq(S)}
  <2>3. 0 \in T
    <3>1. 1 \in 1 .. Len(ss)
      BY <1>1, <1>6
    <3>2. g[1] = ss[1]
      BY <2>2, <3>1
    <3> QED
      BY <1>1, <3>1, <3>2
  <2>4. ASSUME NEW n \in T PROVE n + 1 \in T
    <3> SUFFICES ASSUME (n + 1) + 1 <= Len(ss) PROVE g[(n + 1) + 1] \in Seq(S)
      OBVIOUS
    <3> DEFINE m == (n + 1) + 1
    <3>1. m \in 1 .. Len(ss) /\ m # 1 /\ m - 1 = n + 1 /\ n + 1 <= Len(ss)
      BY <1>1
    <3>2. g[m - 1] \in Seq(S) /\ ss[m] \in Seq(S)
      BY <1>1, <3>1
    <3> HIDE DEF m
    <3>3. g[m] = g[m - 1] \o ss[m]
      BY <2>2, <3>1
    <3>4. g[m] \in Seq(S)
      BY <3>2, <3>3, ConcatProperties
    <3> QED
      BY <3>4 DEF m
  <2>5. Len(ss) - 1 \in T
    <3>1. T \in SUBSET Nat /\ Len(ss) - 1 \in Nat
      BY <1>1, <1>6
    <3> HIDE DEF T
    <3>2. T = Nat
      BY <2>3, <2>4, <3>1, Induction
    <3> QED
      BY <3>1, <3>2
  <2> QED
    BY <1>1, <1>6, <2>1, <2>5
<1> QED
  BY <1>5, <1>6

(***************************************************************************)
(* The choice of the victims                                               *)
(***************************************************************************)
\* The places of S whose pages come before that of i when they are sorted.
Earlier(S, i) ==
    {j \in S : \/ pages[j].access < pages[i].access
               \/ pages[j].access = pages[i].access /\ j < i}

\* What is at a place of the context is a page.
LEMMA PageAt ==
    ASSUME pages \in Seq(Page), NEW S \in SUBSET DOMAIN pages, NEW i \in S
    PROVE  i \in Nat /\ pages[i] \in Page /\ pages[i].access \in Nat
<1>1. i \in 1 .. Len(pages) /\ pages[i] \in Page
  OBVIOUS
<1>2. \A p \in Page : p.access \in Nat
  BY DEF Page
<1> QED
  BY <1>1, <1>2

\* Sorting is by a strict order: of two places one comes before the other, with
\* everything that comes before it.
LEMMA EarlierOrder ==
    ASSUME pages \in Seq(Page), NEW S \in SUBSET DOMAIN pages,
           NEW i1 \in S, NEW i2 \in S, i1 # i2
    PROVE  \/ Earlier(S, i1) \subseteq Earlier(S, i2) /\ i1 \in Earlier(S, i2) \ Earlier(S, i1)
           \/ Earlier(S, i2) \subseteq Earlier(S, i1) /\ i2 \in Earlier(S, i1) \ Earlier(S, i2)
<1> DEFINE key(i) == pages[i].access
           less(j, i) == key(j) < key(i) \/ (key(j) = key(i) /\ j < i)
<1>1. \A i \in S : key(i) \in Nat /\ i \in Nat
  BY PageAt
<1>2. \A i, j \in S : j \in Earlier(S, i) <=> less(j, i)
  BY DEF Earlier
<1>3. \A i \in S : Earlier(S, i) \subseteq S
  BY DEF Earlier
<1>4. \A x, y, z, i, j, l \in Nat :
         /\ (x < y \/ (x = y /\ i < j)) /\ (y < z \/ (y = z /\ j < l))
               => (x < z \/ (x = z /\ i < l))
         /\ i # j => (x < y \/ (x = y /\ i < j)) \/ (y < x \/ (y = x /\ j < i))
  OBVIOUS
<1> HIDE DEF key
<1>5. \A i, j, l \in S : less(l, j) /\ less(j, i) => less(l, i)
  BY <1>1, <1>4, SMTT(30)
<1>6. \A i, j \in S : i # j => less(i, j) \/ less(j, i)
  BY <1>1, <1>4, SMTT(30)
<1>7. \A i \in S : ~less(i, i)
  BY <1>1
<1> HIDE DEF less
<1> QED
  BY <1>2, <1>3, <1>5, <1>6, <1>7

\* Each rank is that of one place.
LEMMA Ranked ==
    ASSUME pages \in Seq(Page), NEW S \in SUBSET DOMAIN pages
    PROVE  /\ IsFiniteSet(S) /\ Cardinality(S) \in Nat
           /\ \A k \in 1 .. Cardinality(S) :
                 \E i \in S : Cardinality(Earlier(S, i)) = k - 1
           /\ \A i, j \in S :
                 Cardinality(Earlier(S, i)) = Cardinality(Earlier(S, j)) => i = j
<1> DEFINE N == Cardinality(S)
           R == 0 .. N - 1
           f == [i \in S |-> Cardinality(Earlier(S, i))]
<1>1. IsFiniteSet(S) /\ N \in Nat
  <2>1. DOMAIN pages = 1 .. Len(pages) /\ Len(pages) \in Nat
    OBVIOUS
  <2>2. IsFiniteSet(DOMAIN pages)
    BY <2>1, FS_Interval
  <2> QED
    BY <2>2, FS_Subset, FS_CardinalityType
<1>2. ASSUME NEW i \in S
      PROVE  /\ Earlier(S, i) \in SUBSET S /\ IsFiniteSet(Earlier(S, i))
             /\ Cardinality(Earlier(S, i)) \in R
  <2>1. Earlier(S, i) \in SUBSET (S \ {i})
    <3>1. pages[i].access \in Nat /\ i \in Nat
      BY PageAt
    <3>2. i \notin Earlier(S, i)
      BY <3>1 DEF Earlier
    <3> QED
      BY <3>2 DEF Earlier
  <2>2. IsFiniteSet(S \ {i}) /\ Cardinality(S \ {i}) = N - 1
    BY <1>1, FS_RemoveElement
  <2>3. /\ IsFiniteSet(Earlier(S, i))
        /\ Cardinality(Earlier(S, i)) <= N - 1
    BY <2>1, <2>2, FS_Subset
  <2>4. Cardinality(Earlier(S, i)) \in Nat
    BY <2>3, FS_CardinalityType
  <2> QED
    BY <1>1, <2>1, <2>3, <2>4
<1>3. ASSUME NEW i \in S, NEW j \in S, i # j,
             Earlier(S, i) \subseteq Earlier(S, j), i \in Earlier(S, j) \ Earlier(S, i)
      PROVE  Cardinality(Earlier(S, i)) # Cardinality(Earlier(S, j))
  BY <1>2, <1>3, FS_Subset
<1>4. \A i, j \in S : Cardinality(Earlier(S, i)) = Cardinality(Earlier(S, j)) => i = j
  <2> SUFFICES ASSUME NEW i \in S, NEW j \in S, i # j
               PROVE  Cardinality(Earlier(S, i)) # Cardinality(Earlier(S, j))
    OBVIOUS
  <2> QED
    BY <1>3, EarlierOrder
<1>5. f \in Injection(S, R)
  BY <1>2, <1>4 DEF Injection, IsInjective
<1>6. IsFiniteSet(R) /\ Cardinality(R) = N
  <2>1. 0 \in Int /\ N - 1 \in Int /\ (0 > N - 1 => N = 0) /\ (N - 1) - 0 + 1 = N
    BY <1>1
  <2> QED
    BY <2>1, FS_Interval
<1>7. f \in Surjection(S, R)
  BY <1>5, <1>6, FS_Injection
<1>8. ASSUME NEW k \in 1 .. N PROVE \E i \in S : Cardinality(Earlier(S, i)) = k - 1
  <2>1. k - 1 \in R
    BY <1>1
  <2>2. \E i \in S : f[i] = k - 1
    BY <1>7, <2>1 DEF Surjection
  <2> QED
    BY <2>2
<1> QED
  BY <1>1, <1>4, <1>8

\* The place of the k-th page.
PlaceOf(S, k) == CHOOSE i \in S : Cardinality(Earlier(S, i)) = k - 1

\* The victims are as many pages as were asked for, or all there are.
LEMMA OldestProperties ==
    ASSUME pages \in Seq(Page), NEW S \in SUBSET DOMAIN pages, NEW n \in Nat
    PROVE  /\ Oldest(S, n) \in Seq(Page)
           /\ Cardinality(S) \in Nat
           /\ Len(Oldest(S, n)) = IF n < Cardinality(S) THEN n ELSE Cardinality(S)
           /\ \A k \in 1 .. Len(Oldest(S, n)) :
                 /\ PlaceOf(S, k) \in S
                 /\ Cardinality(Earlier(S, PlaceOf(S, k))) = k - 1
                 /\ Oldest(S, n)[k] = pages[PlaceOf(S, k)]
<1> DEFINE L == IF n < Cardinality(S) THEN n ELSE Cardinality(S)
<1>1. L \in Nat /\ Cardinality(S) \in Nat /\ \A k \in 1 .. L : k \in 1 .. Cardinality(S)
  BY Ranked
<1>2. Oldest(S, n) = [k \in 1 .. L |-> pages[PlaceOf(S, k)]]
  BY DEF Oldest, PlaceOf, Earlier
<1>3. ASSUME NEW k \in 1 .. L
      PROVE  PlaceOf(S, k) \in S /\ Cardinality(Earlier(S, PlaceOf(S, k))) = k - 1
  <2>1. \E i \in S : Cardinality(Earlier(S, i)) = k - 1
    BY <1>1, Ranked
  <2> QED
    BY <2>1 DEF PlaceOf
<1> HIDE DEF L
<1>4. \A k \in 1 .. L : pages[PlaceOf(S, k)] \in Page
  BY <1>3
<1>5. Oldest(S, n) \in Seq(Page) /\ Len(Oldest(S, n)) = L
  BY <1>1, <1>2, <1>4
<1> QED
  BY <1>1, <1>2, <1>3, <1>5 DEF L

(***************************************************************************)
(* Putting pages in                                                        *)
(***************************************************************************)
\* r is s with x put in at place m.
Inserted(r, s, x, m) ==
    /\ Len(r) = Len(s) + 1
    /\ m \in 1 .. Len(r)
    /\ \A p \in 1 .. Len(r) : r[p] = IF p < m THEN s[p] ELSE IF p = m THEN x ELSE s[p - 1]

\* What a list holds after something was put in.
LEMMA InsertedSet ==
    ASSUME NEW S, NEW s \in Seq(S), NEW r \in Seq(S), NEW x, NEW m, Inserted(r, s, x, m)
    PROVE  ToSet(r) = ToSet(s) \cup {x}
<1>1. /\ Len(s) \in Nat /\ Len(r) = Len(s) + 1 /\ m \in 1 .. Len(r)
      /\ DOMAIN s = 1 .. Len(s) /\ DOMAIN r = 1 .. Len(r)
  BY DEF Inserted
<1>2. \A p \in 1 .. Len(r) : r[p] = IF p < m THEN s[p] ELSE IF p = m THEN x ELSE s[p - 1]
  BY DEF Inserted
<1>3. ASSUME NEW p \in 1 .. Len(r) PROVE r[p] \in ToSet(s) \cup {x}
  <2>1. CASE p < m
    <3>1. p \in 1 .. Len(s)
      BY <1>1, <2>1
    <3> QED
      BY <1>1, <1>2, <2>1, <3>1 DEF ToSet
  <2>2. CASE p = m
    BY <1>2, <2>2
  <2>3. CASE p > m
    <3>1. p - 1 \in 1 .. Len(s) /\ ~(p < m) /\ p # m
      BY <1>1, <2>3
    <3>2. r[p] = s[p - 1]
      BY <1>2, <3>1
    <3> QED
      BY <1>1, <3>1, <3>2 DEF ToSet
  <2> QED
    BY <1>1, <2>1, <2>2, <2>3
<1>4. ASSUME NEW p \in 1 .. Len(s) PROVE s[p] \in ToSet(r)
  <2>1. CASE p < m
    <3>1. p \in 1 .. Len(r)
      BY <1>1
    <3>2. r[p] = s[p]
      BY <1>2, <2>1, <3>1
    <3> QED
      BY <1>1, <3>1, <3>2 DEF ToSet
  <2>2. CASE ~(p < m)
    <3>1. p + 1 \in 1 .. Len(r) /\ ~(p + 1 < m) /\ p + 1 # m /\ (p + 1) - 1 = p
      BY <1>1, <2>2
    <3>2. r[p + 1] = s[p]
      BY <1>2, <3>1
    <3> QED
      BY <1>1, <3>1, <3>2 DEF ToSet
  <2> QED
    BY <2>1, <2>2
<1>5. x \in ToSet(r)
  <2>1. r[m] = x
    BY <1>1, <1>2
  <2> QED
    BY <1>1, <2>1 DEF ToSet
<1> QED
  BY <1>1, <1>3, <1>4, <1>5 DEF ToSet

\* insert() puts in at its place.
LEMMA InsertAtProperties ==
    ASSUME NEW S, NEW s \in Seq(S), NEW x \in S, NEW m \in 1 .. Len(s)
    PROVE  InsertAt(s, m, x) \in Seq(S) /\ Inserted(InsertAt(s, m, x), s, x, m)
<1> DEFINE u == SubSeq(s, 1, m - 1)
           v == SubSeq(s, m, Len(s))
           t == u \o <<x>>
           r == t \o v
<1>0. Len(s) \in Nat
  OBVIOUS
<1>1. u \in Seq(S) /\ Len(u) = m - 1 /\ \A p \in 1 .. m - 1 : u[p] = s[p]
  BY <1>0
<1>2. v \in Seq(S) /\ Len(v) = Len(s) - m + 1
      /\ \A p \in 1 .. Len(s) - m + 1 : v[p] = s[m + p - 1]
  BY <1>0
<1> HIDE DEF u, v
<1>3. t \in Seq(S) /\ Len(t) = m /\ t[m] = x /\ \A p \in 1 .. m - 1 : t[p] = u[p]
  <2>1. t = Append(u, x)
    BY <1>1, AppendIsConcat
  <2>2. /\ Append(u, x) \in Seq(S) /\ Len(Append(u, x)) = Len(u) + 1
        /\ Append(u, x)[Len(u) + 1] = x
        /\ \A p \in 1 .. Len(u) : Append(u, x)[p] = u[p]
    BY <1>1
  <2>3. Len(u) + 1 = m
    BY <1>0, <1>1
  <2> QED
    BY <1>1, <2>1, <2>2, <2>3
<1> HIDE DEF t
<1>4. r \in Seq(S) /\ Len(r) = Len(t) + Len(v)
      /\ \A p \in 1 .. Len(r) : r[p] = IF p <= Len(t) THEN t[p] ELSE v[p - Len(t)]
  <2>1. t \in Seq(S) /\ v \in Seq(S)
    BY <1>2, <1>3
  <2>2. r \in Seq(S) /\ Len(r) = Len(t) + Len(v)
    BY <2>1, ConcatProperties
  <2>3. \A p \in 1 .. Len(t) + Len(v) : r[p] = IF p <= Len(t) THEN t[p] ELSE v[p - Len(t)]
    BY <2>1, ConcatProperties
  <2> QED
    BY <2>2, <2>3
<1> HIDE DEF r
<1>5. ASSUME NEW p \in 1 .. Len(r)
      PROVE  r[p] = IF p < m THEN s[p] ELSE IF p = m THEN x ELSE s[p - 1]
  <2>1. CASE p < m
    <3>1. p \in 1 .. m - 1 /\ p <= Len(t)
      BY <1>3, <2>1
    <3> QED
      BY <1>1, <1>3, <1>4, <2>1, <3>1
  <2>2. CASE p = m
    BY <1>3, <1>4, <2>2
  <2>3. CASE p > m
    <3>1. p - m \in 1 .. Len(s) - m + 1 /\ m + (p - m) - 1 = p - 1 /\ ~(p <= m) /\ ~(p < m)
      BY <1>0, <1>2, <1>3, <1>4, <2>3
    <3>2. r[p] = v[p - m]
      BY <1>3, <1>4, <3>1
    <3>3. v[p - m] = s[m + (p - m) - 1]
      BY <1>2, <3>1
    <3> QED
      BY <2>3, <3>1, <3>2, <3>3
  <2> QED
    BY <1>3, <1>4, <2>1, <2>2, <2>3
<1>6. Len(r) = Len(s) + 1 /\ m \in 1 .. Len(r)
  BY <1>0, <1>2, <1>3, <1>4
<1>7. r \in Seq(S) /\ Inserted(r, s, x, m)
  BY <1>4, <1>5, <1>6 DEF Inserted
<1> QED
  BY <1>7 DEF r, t, u, v, InsertAt

\* append() puts in at the end.
LEMMA AppendInserts ==
    ASSUME NEW S, NEW s \in Seq(S), NEW x \in S
    PROVE  Append(s, x) \in Seq(S) /\ Inserted(Append(s, x), s, x, Len(s) + 1)
<1>1. /\ Append(s, x) \in Seq(S) /\ Len(Append(s, x)) = Len(s) + 1 /\ Len(s) \in Nat
      /\ Append(s, x)[Len(s) + 1] = x
      /\ \A p \in 1 .. Len(s) : Append(s, x)[p] = s[p]
  OBVIOUS
<1> HIDE DEF Inserted
<1>2. ASSUME NEW p \in 1 .. Len(s) + 1
      PROVE  Append(s, x)[p] =
                IF p < Len(s) + 1 THEN s[p] ELSE IF p = Len(s) + 1 THEN x ELSE s[p - 1]
  BY <1>1
<1> QED
  BY <1>1, <1>2 DEF Inserted

\* What a list holds after append().
LEMMA AppendSet ==
    ASSUME NEW S, NEW s \in Seq(S), NEW x \in S
    PROVE  ToSet(Append(s, x)) = ToSet(s) \cup {x}
<1> DEFINE r == Append(s, x)
           m == Len(s) + 1
<1>1. r \in Seq(S) /\ Inserted(r, s, x, m)
  BY AppendInserts
<1> HIDE DEF r, m
<1>2. ToSet(r) = ToSet(s) \cup {x}
  BY <1>1, InsertedSet
<1> QED
  BY <1>2 DEF r

\* Where the summary goes: the place of the first page of the batch, or the end.
SummaryPlace(s, b) ==
    IF FirstPlace(s, b[1]) <= Len(Without(s, b))
    THEN FirstPlace(s, b[1]) ELSE Len(Without(s, b)) + 1

\* A summary is put in among what is left without its batch.
LEMMA SummarizedProperties ==
    ASSUME NEW S, NEW s \in Seq(S), NEW b \in Seq(S), NEW x \in S, b[1] \in ToSet(s)
    PROVE  /\ Summarized(s, b, x) \in Seq(S)
           /\ Inserted(Summarized(s, b, x), Without(s, b), x, SummaryPlace(s, b))
           /\ ToSet(Summarized(s, b, x)) = ToSet(Without(s, b)) \cup {x}
<1> DEFINE rest == Without(s, b)
           m == FirstPlace(s, b[1])
           r == Summarized(s, b, x)
<1>1. rest \in Seq(S) /\ Len(rest) \in Nat
  BY WithoutProperties
<1>2. m \in 1 .. Len(s) /\ m \in Nat /\ m >= 1
  BY FirstPlaceFound
<1>3. SelectInSeq(s, LAMBDA p : p = b[1]) = m
  <2>1. \E n \in 1 .. Len(s) : s[n] = b[1]
    BY DEF ToSet
  <2> QED
    BY <2>1 DEF SelectInSeq, FirstPlace
<1>4. r = IF m <= Len(rest) THEN InsertAt(rest, m, x) ELSE Append(rest, x)
  BY <1>3 DEF Summarized
<1>5. SummaryPlace(s, b) = IF m <= Len(rest) THEN m ELSE Len(rest) + 1
  BY DEF SummaryPlace
<1> HIDE DEF rest, m, r
<1>6. r \in Seq(S) /\ Inserted(r, rest, x, SummaryPlace(s, b))
  <2>1. CASE m <= Len(rest)
    BY <1>1, <1>2, <1>4, <1>5, <2>1, InsertAtProperties
  <2>2. CASE ~(m <= Len(rest))
    BY <1>1, <1>4, <1>5, <2>2, AppendInserts
  <2> QED
    BY <2>1, <2>2
<1>7. ToSet(r) = ToSet(rest) \cup {x}
  BY <1>1, <1>6, InsertedSet
<1> QED
  BY <1>6, <1>7 DEF rest, r

\* Putting something in front.
LEMMA FrontInserts ==
    ASSUME NEW S, NEW s \in Seq(S), NEW x \in S
    PROVE  <<x>> \o s \in Seq(S) /\ Inserted(<<x>> \o s, s, x, 1)
<1> DEFINE t == <<x>>
           r == t \o s
<1>1. t \in Seq(S) /\ Len(t) = 1 /\ t[1] = x /\ Len(s) \in Nat
  OBVIOUS
<1> HIDE DEF t
<1>2. r \in Seq(S) /\ Len(r) = Len(t) + Len(s)
  BY <1>1, ConcatProperties
<1>3. \A p \in 1 .. Len(t) + Len(s) : r[p] = IF p <= Len(t) THEN t[p] ELSE s[p - Len(t)]
  BY <1>1, ConcatProperties
<1> HIDE DEF r
<1>4. ASSUME NEW p \in 1 .. Len(r)
      PROVE  r[p] = IF p < 1 THEN s[p] ELSE IF p = 1 THEN x ELSE s[p - 1]
  <2>1. CASE p = 1
    BY <1>1, <1>2, <1>3, <2>1
  <2>2. CASE p # 1
    <3>1. ~(p <= 1) /\ ~(p < 1)
      BY <1>1, <1>2, <2>2
    <3> QED
      BY <1>1, <1>2, <1>3, <2>2, <3>1
  <2> QED
    BY <2>1, <2>2
<1>5. r \in Seq(S) /\ Inserted(r, s, x, 1)
  BY <1>1, <1>2, <1>4 DEF Inserted
<1> QED
  BY <1>5 DEF r, t

(***************************************************************************)
(* What the actions do to the pages                                        *)
(***************************************************************************)
\* Counters are numbers.
Counters ==
    /\ clock \in Nat /\ turns \in Nat /\ born \in 0 .. turns
    /\ swapIns \in Nat /\ summaries \in Nat /\ disturbed \in BOOLEAN

\* What the turns of a list are.
LEMMA TurnsOfProperties ==
    ASSUME NEW s \in Seq(Page)
    PROVE  /\ TurnsOf(s) \in SUBSET Nat
           /\ \A t : t \in TurnsOf(s) <=> \E p \in ToSet(s) : t \in p.turns
<1>1. \A p \in ToSet(s) : p \in Page
  BY DEF ToSet
<1>2. \A p \in Page : p.turns \in SUBSET Nat
  BY DEF Page
<1>3. \A t : t \in TurnsOf(s) <=> \E p \in ToSet(s) : t \in p.turns
  BY DEF TurnsOf
<1> QED
  BY <1>1, <1>2, <1>3

\* The pinned prompt as a page.
PinnedPage(time) ==
    [turns |-> {}, tokens |-> PinnedTokens, pinned |-> TRUE, summarized |-> FALSE,
     access |-> time]

\* assemble() puts the prompt in front, unless it is there or the agent has none.
LEMMA AssembleEffect ==
    ASSUME TypeOK, Counters, Assemble
    PROVE  /\ pages' \in Seq(Page) /\ PinnedPage(clock) \in Page
           /\ \/ pages' = pages
              \/ Inserted(pages', pages, PinnedPage(clock), 1)
           /\ ToSet(pages) \subseteq ToSet(pages')
           /\ PinnedTokens > 0 => \E p \in ToSet(pages') : p.pinned
<1> USE DEF TypeOK
<1>1. PinnedPage(clock) \in Page /\ PinnedPage(clock).pinned
  BY PagerAssumption DEF PinnedPage, Page, Counters
<1>2. CASE PinnedTokens > 0 /\ \A p \in ToSet(pages) : ~p.pinned
  <2>1. pages' = <<PinnedPage(clock)>> \o pages
    BY <1>2 DEF Assemble, PinnedPage
  <2>2. pages' \in Seq(Page) /\ Inserted(pages', pages, PinnedPage(clock), 1)
    BY <1>1, <2>1, FrontInserts
  <2>3. ToSet(pages') = ToSet(pages) \cup {PinnedPage(clock)}
    BY <2>2, InsertedSet
  <2> QED
    BY <1>1, <2>2, <2>3
<1>3. CASE ~(PinnedTokens > 0 /\ \A p \in ToSet(pages) : ~p.pinned)
  <2>1. pages' = pages
    BY <1>3 DEF Assemble
  <2> QED
    BY <1>1, <1>3, <2>1
<1> QED
  BY <1>2, <1>3

\* What can be evicted is in the context.
LEMMA EvictableProperties ==
    /\ Evictable \in SUBSET DOMAIN pages /\ Unsummarized \in SUBSET DOMAIN pages
    /\ \A i \in Evictable : ~pages[i].pinned
    /\ \A i \in Unsummarized : ~pages[i].pinned /\ ~pages[i].summarized
BY DEF Evictable, Unsummarized

\* Victims are pages of the context that are not pinned, n of them or all.
LEMMA VictimProperties ==
    ASSUME pages \in Seq(Page), NEW S \in {Evictable, Unsummarized}, NEW n \in Nat
    PROVE  /\ Oldest(S, n) \in Seq(Page) /\ Cardinality(S) \in Nat
           /\ n <= Cardinality(S) => Len(Oldest(S, n)) = n
           /\ ToSet(Oldest(S, n)) \subseteq ToSet(pages)
           /\ \A p \in ToSet(Oldest(S, n)) : ~p.pinned
<1> DEFINE v == Oldest(S, n)
<1>1. S \in SUBSET DOMAIN pages /\ \A i \in S : ~pages[i].pinned
  BY EvictableProperties
<1>2. /\ v \in Seq(Page) /\ Cardinality(S) \in Nat
      /\ Len(v) = IF n < Cardinality(S) THEN n ELSE Cardinality(S)
      /\ \A k \in 1 .. Len(v) : \E i \in S : v[k] = pages[i]
  BY <1>1, OldestProperties
<1> HIDE DEF v
<1>3. \A p \in ToSet(v) : \E i \in S : p = pages[i]
  BY <1>2 DEF ToSet
<1>4. \A i \in S : pages[i] \in ToSet(pages)
  BY <1>1 DEF ToSet
<1>5. n <= Cardinality(S) => Len(v) = n
  BY <1>2
<1> QED
  BY <1>1, <1>2, <1>3, <1>4, <1>5 DEF v

\* swap_in() appends one more page.
LEMMA RestoreEffect ==
    ASSUME TypeOK, RestorePage
    PROVE  pages' \in Seq(Page) /\ ToSet(pages) \subseteq ToSet(pages')
<1>1. pages \in Seq(Page) /\ restore \in Seq(Page) /\ restore # <<>>
  BY DEF RestorePage, TypeOK
<1>2. Head(restore) \in Page
  BY <1>1
<1>3. pages' = Append(pages, Head(restore))
  BY DEF RestorePage
<1>4. ToSet(Append(pages, Head(restore))) = ToSet(pages) \cup {Head(restore)}
  BY <1>1, <1>2, AppendSet
<1> QED
  BY <1>1, <1>2, <1>3, <1>4, AppendInserts

\* Before the LLM call each page is touched, and nothing else of it changes.
LEMMA SendEffect ==
    ASSUME TypeOK, Counters, Send
    PROVE  /\ pages' \in Seq(Page) /\ Len(pages') = Len(pages)
           /\ \A i \in 1 .. Len(pages) :
                 /\ pages'[i].turns = pages[i].turns /\ pages'[i].tokens = pages[i].tokens
                 /\ pages'[i].pinned = pages[i].pinned
                 /\ pages'[i].summarized = pages[i].summarized
                 /\ pages'[i].access = clock + i
<1>1. Len(pages) \in Nat /\ DOMAIN pages = 1 .. Len(pages)
  BY DEF TypeOK
<1>2. pages' = [i \in 1 .. Len(pages) |-> [pages[i] EXCEPT !.access = clock + i]]
  BY <1>1 DEF Send
<1>3. ASSUME NEW i \in 1 .. Len(pages)
      PROVE  /\ [pages[i] EXCEPT !.access = clock + i] \in Page
             /\ pages'[i] = [pages[i] EXCEPT !.access = clock + i]
             /\ pages'[i].turns = pages[i].turns /\ pages'[i].tokens = pages[i].tokens
             /\ pages'[i].pinned = pages[i].pinned
             /\ pages'[i].summarized = pages[i].summarized
             /\ pages'[i].access = clock + i
  <2>1. pages[i] \in Page /\ clock + i \in Nat
    BY DEF TypeOK, Counters
  <2>2. pages'[i] = [pages[i] EXCEPT !.access = clock + i]
    BY <1>2
  <2> QED
    BY <2>1, <2>2 DEF Page
<1>4. pages' \in Seq(Page) /\ Len(pages') = Len(pages)
  BY <1>1, <1>2, <1>3
<1> QED
  BY <1>3, <1>4

\* A new page tells of its turn.
LEMMA NewPageProperties ==
    ASSUME NEW t \in Nat, NEW n \in Nat, NEW time \in Nat
    PROVE  /\ NewPage(t, n, time) \in Page
           /\ NewPage(t, n, time).turns = {t} /\ ~NewPage(t, n, time).pinned
           /\ ~NewPage(t, n, time).summarized /\ NewPage(t, n, time).access = time
<1>1. {t} \in SUBSET Nat
  OBVIOUS
<1> QED
  BY <1>1 DEF NewPage, Page

\* A reply adds pages, one for each new turn, numbered and dated on.
LEMMA ReplyEffect ==
    ASSUME TypeOK, Counters, Reply
    PROVE  /\ pages' \in Seq(Page)
           /\ \E k \in {2, 3} :
                 /\ turns' = turns + k /\ clock' = clock + k + 1
                 /\ Len(pages') = Len(pages) + k
                 /\ \A i \in 1 .. Len(pages) : pages'[i] = pages[i]
                 /\ \A i \in 1 .. k :
                       /\ pages'[Len(pages) + i].turns = {turns + i}
                       /\ ~pages'[Len(pages) + i].pinned
                       /\ ~pages'[Len(pages) + i].summarized
                       /\ pages'[Len(pages) + i].access = clock + i
<1>1. PICK n \in ReplyTokens :
         LET new == IF turns = born THEN <<PromptTokens, n, 0>> ELSE <<n, 0>>
         IN  /\ pages' = pages \o [i \in DOMAIN new |->
                                NewPage(turns + i, new[i], clock + i)]
             /\ turns' = turns + Len(new)
             /\ clock' = clock + Len(new) + 1
  BY DEF Reply
<1> DEFINE new == IF turns = born THEN <<PromptTokens, n, 0>> ELSE <<n, 0>>
           added == [i \in DOMAIN new |-> NewPage(turns + i, new[i], clock + i)]
<1>2. n \in Nat /\ PromptTokens \in Nat
  BY PagerAssumption
<1>3. PICK k \in {2, 3} : new \in Seq(Nat) /\ Len(new) = k /\ DOMAIN new = 1 .. k
  <2>1. /\ <<PromptTokens, n, 0>> \in Seq(Nat) /\ <<n, 0>> \in Seq(Nat)
        /\ Len(<<PromptTokens, n, 0>>) = 3 /\ Len(<<n, 0>>) = 2
    BY <1>2
  <2>2. new \in Seq(Nat) /\ Len(new) \in {2, 3}
    BY <2>1
  <2> HIDE DEF new
  <2>3. DOMAIN new = 1 .. Len(new)
    BY <2>2
  <2> QED
    BY <2>2, <2>3
<1>4. pages' = pages \o added /\ turns' = turns + k /\ clock' = clock + k + 1
  BY <1>1, <1>3
<1> HIDE DEF new
<1>5. \A i \in 1 .. k : new[i] \in Nat
  BY <1>3
<1>6. ASSUME NEW i \in 1 .. k
      PROVE  /\ added[i] \in Page /\ added[i].turns = {turns + i} /\ ~added[i].pinned
             /\ ~added[i].summarized /\ added[i].access = clock + i
  <2>1. added[i] = NewPage(turns + i, new[i], clock + i)
    BY <1>3
  <2>2. turns + i \in Nat /\ clock + i \in Nat /\ new[i] \in Nat
    BY <1>5 DEF Counters
  <2> QED
    BY <2>1, <2>2, NewPageProperties
<1>7. added \in Seq(Page) /\ Len(added) = k
  BY <1>3, <1>6
<1> HIDE DEF added
<1>8. pages \in Seq(Page) /\ Len(pages) \in Nat
  BY DEF TypeOK
<1>9. pages' \in Seq(Page) /\ Len(pages') = Len(pages) + k
  BY <1>4, <1>7, <1>8, ConcatProperties
<1>10. \A i \in 1 .. Len(pages) + Len(added) :
          pages'[i] = IF i <= Len(pages) THEN pages[i] ELSE added[i - Len(pages)]
  BY <1>4, <1>7, <1>8, ConcatProperties
<1>11. \A i \in 1 .. Len(pages) : pages'[i] = pages[i]
  BY <1>7, <1>8, <1>10
<1>12. ASSUME NEW i \in 1 .. k PROVE pages'[Len(pages) + i] = added[i]
  <2>1. /\ Len(pages) + i \in 1 .. Len(pages) + Len(added) /\ ~(Len(pages) + i <= Len(pages))
        /\ (Len(pages) + i) - Len(pages) = i
    BY <1>7, <1>8
  <2> QED
    BY <1>10, <2>1
<1> QED
  BY <1>4, <1>6, <1>9, <1>11, <1>12

(***************************************************************************)
(* The inductive invariant                                                 *)
(***************************************************************************)
\* While Solar summarizes, the batch is in the context and not pinned.
Batched ==
    at = "summarize" =>
        /\ guard > 0 /\ next <= Len(Policies)
        /\ Policies[next].kind = "summarize"
        /\ Len(batch) = Policies[next].batch
        /\ ToSet(batch) \subseteq ToSet(pages)
        /\ \A p \in ToSet(batch) : ~p.pinned

\* From assemble() to the LLM call the prompt is in the context.
PromptKept ==
    at \in {"evict", "summarize", "chat"} /\ PinnedTokens > 0 =>
        \E p \in ToSet(pages) : p.pinned

\* The turns of the swap files.
InFiles == UNION {TurnsOf(f) : f \in ToSet(files)}

\* Each turn since boot is in the context, in a swap file or dropped.
Covered == born + 1 .. turns \subseteq TurnsOf(pages) \cup dropped \cup InFiles

\* A page of one turn, as it was recorded.
Plain(p) == ~p.pinned /\ ~p.summarized

\* p may come before q: its turns are earlier, and pages of one turn stand at
\* the end, those used longer ago first.
Follows(p, q) ==
    /\ \A t \in p.turns, u \in q.turns : t < u
    /\ Plain(p) => Plain(q) /\ p.access < q.access

\* The list s is in the order of its turns, which go up to last, and dated up to
\* time.
Sorted(s, last, time) ==
    /\ \A i \in 1 .. Len(s) : s[i].turns \subseteq 1 .. last /\ s[i].access <= time
    /\ \A i, j \in 1 .. Len(s) : i < j => Follows(s[i], s[j])

\* Without swap_in() the context is sorted, and what is being summarized is a
\* stretch of it, behind the summaries that are there.
Ordered ==
    swapIns = 0 =>
        /\ restore = <<>>
        /\ Sorted(pages, turns, clock)
        /\ at = "summarize" =>
              \E m \in 0 .. Len(pages) :
                 Stretch(pages, batch, m) /\ \A i \in 1 .. m : ~Plain(pages[i])

PagerInv ==
    TypeOK /\ Counters /\ Batched /\ PromptKept /\ Covered /\ SummariesPaid /\ Ordered

\* A summary of fewer than two pages would free nothing.
LargeBatches ==
    \A i \in DOMAIN Policies :
        Policies[i].kind = "summarize" => Policies[i].batch >= 2

\* The policies before the next one have all been tried in vain.
Tried ==
    at = "evict" /\ ~disturbed => \A i \in 1 .. next - 1 : Stuck(Policies[i])

\* What a policy is.
LEMMA PolicyAt ==
    ASSUME NEW i \in 1 .. Len(Policies)
    PROVE  /\ Policies[i].kind \in {"lru", "swap", "summarize"}
           /\ Policies[i].keep \in Nat /\ Policies[i].batch \in Nat \ {0}
           /\ Len(Policies) \in Nat
<1> DEFINE P == [kind : {"lru", "swap", "summarize"}, keep : Nat, batch : Nat \ {0}]
<1>1. Len(Policies) \in Nat /\ Policies[i] \in P
  <2>1. Policies \in Seq(P)
    BY PagerAssumption
  <2> HIDE DEF P
  <2> QED
    BY <2>1
<1> QED
  BY <1>1

\* The start satisfies the invariant.
LEMMA PagerInvInit ==
    ASSUME Init PROVE PagerInv
<1> USE DEF Init, QuotaInit
<1>1. TypeOK /\ Counters /\ SummariesPaid
  <2>1. Len(Policies) \in Nat /\ Rounds \in Nat /\ QuotaTotal \in Nat
    BY QuotaAssumption, PagerAssumption
  <2>2. <<>> \in Seq(Page) /\ <<>> \in Seq(Seq(Page))
    OBVIOUS
  <2>3. QuotaTypeOK /\ next \in 1 .. Len(Policies) + 1 /\ guard \in 0 .. Rounds
    BY <2>1 DEF QuotaTypeOK
  <2>4. Counters
    <3>1. clock \in Nat /\ turns \in Nat /\ born \in 0 .. turns /\ swapIns \in Nat
          /\ summaries \in Nat
      OBVIOUS
    <3>2. disturbed \in BOOLEAN
      OBVIOUS
    <3> QED
      BY <3>1, <3>2 DEF Counters
  <2>5. SummariesPaid
    BY <2>1 DEF SummariesPaid
  <2> QED
    BY <2>2, <2>3, <2>4, <2>5 DEF TypeOK
<1>2. Batched /\ PromptKept
  BY DEF Batched, PromptKept
<1>3. Covered
  <2>1. born + 1 .. turns = {}
    BY SMT
  <2> QED
    BY <2>1 DEF Covered
<1>4. Ordered
  BY DEF Ordered, Sorted
<1> QED
  BY <1>1, <1>2, <1>3, <1>4 DEF PagerInv

\* The lists and counters keep to their domains, the batch stays in the context
\* and each summary is paid for.
LEMMA TypesStep ==
    ASSUME PagerInv, Next
    PROVE  TypeOK' /\ Counters' /\ SummariesPaid'
<1> USE DEF PagerInv
<1>0. /\ pages \in Seq(Page) /\ Len(Policies) \in Nat /\ Rounds \in Nat
      /\ Policies \in Seq([kind : {"lru", "swap", "summarize"}, keep : Nat,
                           batch : Nat \ {0}])
  BY PagerAssumption DEF TypeOK
<1>1. CASE Assemble
  <2>1. pages' \in Seq(Page)
    BY <1>1, AssembleEffect
  <2>2. next' \in 1 .. Len(Policies) + 1 /\ guard' \in 0 .. Rounds /\ clock' \in Nat
    BY <1>0, <1>1 DEF Assemble, Counters
  <2>3. SummariesPaid'
    BY <1>1 DEF Assemble, SummariesPaid, quotaVars
  <2>4. TypeOK'
    BY <1>1, <2>1, <2>2 DEF Assemble, TypeOK, QuotaTypeOK, quotaVars
  <2> QED
    BY <1>1, <2>2, <2>3, <2>4 DEF Assemble, convVars, Counters
<1>2. ASSUME Freed, guard > 0 PROVE next' \in 1 .. Len(Policies) + 1 /\ guard' \in 0 .. Rounds
  BY <1>0, <1>2 DEF Freed, TypeOK
<1>3. ASSUME FreedNothing, next <= Len(Policies)
      PROVE  next' \in 1 .. Len(Policies) + 1 /\ guard' \in 0 .. Rounds
  BY <1>0, <1>3 DEF FreedNothing, TypeOK
<1>4. CASE EvictLru
  <2>1. pages' \in Seq(Page)
    <3>1. Without(pages, Oldest(Evictable, 1)) \in Seq(Page)
      BY <1>0, VictimProperties, WithoutProperties
    <3> QED
      BY <1>0, <1>4, <3>1 DEF EvictLru
  <2>2. next' \in 1 .. Len(Policies) + 1 /\ guard' \in 0 .. Rounds
    BY <1>2, <1>3, <1>4 DEF EvictLru, Trying
  <2> QED
    BY <1>4, <2>1, <2>2 DEF EvictLru, TypeOK, QuotaTypeOK, quotaVars, convVars, swapInVars,
                            Counters, SummariesPaid
<1>5. CASE EvictSwap
  <2> DEFINE out == Oldest(Evictable, Policies[next].batch)
  <2>1. out \in Seq(Page) /\ Without(pages, out) \in Seq(Page)
    <3>1. Policies[next].batch \in Nat
      BY <1>0, <1>5, PolicyAt DEF EvictSwap, Trying, TypeOK
    <3> QED
      BY <1>0, <3>1, VictimProperties, WithoutProperties
  <2>2. pages' \in Seq(Page)
    BY <1>0, <1>5, <2>1 DEF EvictSwap
  <2>3. files' \in Seq(Seq(Page))
    <3>1. files \in Seq(Seq(Page))
      BY DEF TypeOK
    <3>2. files' = files \/ files' = Append(files, out)
      BY <1>5 DEF EvictSwap
    <3> HIDE DEF out
    <3>3. Append(files, out) \in Seq(Seq(Page))
      BY <2>1, <3>1
    <3> QED
      BY <3>1, <3>2, <3>3
  <2>4. next' \in 1 .. Len(Policies) + 1 /\ guard' \in 0 .. Rounds
    BY <1>2, <1>3, <1>5 DEF EvictSwap, Trying
  <2> QED
    BY <1>5, <2>2, <2>3, <2>4 DEF EvictSwap, TypeOK, QuotaTypeOK, quotaVars, convVars,
                                  swapInVars, Counters, SummariesPaid
<1>6. CASE EvictSummarize
  <2>1. next \in 1 .. Len(Policies) /\ Policies[next].batch \in Nat /\ at = "evict"
    BY <1>0, <1>6, PolicyAt DEF EvictSummarize, Trying, TypeOK
  <2>2. /\ UNCHANGED <<pages, files, clock, convVars, swapInVars, dropped, summaries>>
        /\ \/ FreedNothing /\ UNCHANGED <<total, remaining, at, batch>>
           \/ /\ Acquire /\ UNCHANGED loopVars /\ at' = "summarize"
              /\ batch' = Oldest(Unsummarized, Policies[next].batch)
    BY <1>6 DEF EvictSummarize, Exhausted, quotaVars
  <2>3. batch' \in Seq(Page)
    <3>1. Oldest(Unsummarized, Policies[next].batch) \in Seq(Page)
      BY <1>0, <2>1, VictimProperties
    <3> QED
      BY <2>2, <3>1 DEF TypeOK
  <2>4. next' \in 1 .. Len(Policies) + 1 /\ guard' \in 0 .. Rounds
    BY <1>3, <2>1, <2>2 DEF loopVars, TypeOK
  <2>5. at' \in {"idle", "evict", "summarize", "chat", "failed"}
    BY <2>2 DEF TypeOK
  <2>6. QuotaTypeOK' /\ SummariesPaid'
    <3>1. total \in Nat /\ remaining \in 0 .. total /\ summaries \in Nat
      BY DEF TypeOK, QuotaTypeOK, Counters
    <3>2. summaries' = summaries
      BY <2>2
    <3>3. CASE UNCHANGED <<total, remaining, at, batch>>
      BY <3>1, <3>2, <3>3 DEF QuotaTypeOK, SummariesPaid
    <3>4. CASE Acquire /\ at' = "summarize"
      BY <2>1, <3>1, <3>2, <3>4 DEF QuotaTypeOK, SummariesPaid, Acquire
    <3> QED
      BY <2>2, <3>3, <3>4
  <2> QED
    BY <2>2, <2>3, <2>4, <2>5, <2>6 DEF TypeOK, Counters, convVars, swapInVars
<1>7. CASE SummaryReturns
  <2> DEFINE x == [turns |-> TurnsOf(batch), tokens |-> SummaryTokens, pinned |-> FALSE,
                   summarized |-> TRUE, access |-> clock]
  <2>1. at = "summarize" /\ batch \in Seq(Page) /\ guard > 0 /\ next <= Len(Policies)
    BY <1>7 DEF SummaryReturns, TypeOK, Batched
  <2>2. x \in Page
    <3>1. TurnsOf(batch) \in SUBSET Nat
      BY <2>1, TurnsOfProperties
    <3> QED
      BY <3>1, PagerAssumption DEF Page, Counters
  <2>3. batch[1] \in ToSet(pages)
    <3>1. Len(batch) \in Nat \ {0}
      BY <2>1, PolicyAt DEF Batched, TypeOK
    <3>2. batch[1] \in ToSet(batch)
      BY <2>1, <3>1 DEF ToSet
    <3> QED
      BY <2>1, <3>2 DEF Batched
  <2>4. pages' = Summarized(pages, batch, x)
    BY <1>7 DEF SummaryReturns
  <2> HIDE DEF x
  <2>5. pages' \in Seq(Page)
    BY <1>0, <2>1, <2>2, <2>3, <2>4, SummarizedProperties
  <2>6. next' \in 1 .. Len(Policies) + 1 /\ guard' \in 0 .. Rounds
    BY <1>2, <1>3, <1>7, <2>1 DEF SummaryReturns
  <2>7. SummariesPaid'
    BY <1>7 DEF SummaryReturns, SummariesPaid, TypeOK, QuotaTypeOK, Counters, quotaVars
  <2> QED
    BY <1>7, <2>5, <2>6, <2>7 DEF SummaryReturns, TypeOK, QuotaTypeOK, Counters, quotaVars,
                                  convVars, swapInVars
<1>8. CASE SummaryFails
  <2>1. QuotaTypeOK' /\ SummariesPaid'
    BY <1>8 DEF SummaryFails, Refund, SummariesPaid, TypeOK, QuotaTypeOK, Counters
  <2> QED
    BY <1>8, <2>1 DEF SummaryFails, TypeOK, Counters, convVars, loopVars, swapInVars
<1>9. CASE Send
  <2>1. pages' \in Seq(Page) /\ Len(pages) \in Nat
    BY <1>0, <1>9, SendEffect
  <2> QED
    BY <1>9, <2>1, SMTT(30) DEF Send, TypeOK, QuotaTypeOK, Counters, SummariesPaid, quotaVars, convVars,
                      loopVars, swapInVars
<1>10. CASE Reply
  <2>1. pages' \in Seq(Page) /\ turns' \in Nat /\ clock' \in Nat /\ turns' >= turns
    BY <1>10, ReplyEffect DEF Counters
  <2> QED
    BY <1>10, <2>1 DEF Reply, TypeOK, QuotaTypeOK, Counters, SummariesPaid, quotaVars,
                       loopVars, swapInVars
<1>11. CASE ChatFails
  BY <1>11 DEF ChatFails, TypeOK, QuotaTypeOK, Counters, SummariesPaid, quotaVars, convVars,
               loopVars, swapInVars
<1>12. CASE SwapIn
  <2>1. restore' \in Seq(Page)
    BY <1>12, FlattenType DEF SwapIn, TypeOK
  <2> QED
    BY <1>12, <2>1 DEF SwapIn, TypeOK, QuotaTypeOK, Counters, SummariesPaid, quotaVars,
                       convVars, loopVars
<1>13. CASE RestorePage
  <2>1. restore \in Seq(Page) /\ restore # <<>>
    BY <1>13 DEF RestorePage, TypeOK
  <2>2. Head(restore) \in Page /\ Tail(restore) \in Seq(Page)
    BY <2>1
  <2>3. pages' \in Seq(Page) /\ restore' \in Seq(Page)
    BY <1>0, <1>13, <2>2 DEF RestorePage
  <2> QED
    BY <1>13, <2>3 DEF RestorePage, TypeOK, QuotaTypeOK, Counters, SummariesPaid, quotaVars,
                       convVars, loopVars
<1>14. CASE Reboot
  <2>1. <<>> \in Seq(Page)
    OBVIOUS
  <2>2. QuotaTypeOK' /\ SummariesPaid'
    BY <1>14, QuotaAssumption DEF Reboot, QuotaTypeOK, SummariesPaid
  <2>3. next' \in 1 .. Len(Policies) + 1 /\ guard' \in 0 .. Rounds
    BY <1>0, <1>14 DEF Reboot
  <2>4. Counters'
    <3>1. clock' \in Nat /\ turns' \in Nat /\ born' \in 0 .. turns' /\ swapIns' \in Nat
          /\ summaries' \in Nat
      BY <1>14 DEF Reboot, Counters
    <3>2. disturbed' \in BOOLEAN
      BY <1>14 DEF Reboot
    <3> QED
      BY <3>1, <3>2 DEF Counters
  <2> QED
    BY <1>14, <2>1, <2>2, <2>3, <2>4 DEF Reboot, TypeOK
<1> QED
  BY <1>1, <1>4, <1>5, <1>6, <1>7, <1>8, <1>9, <1>10, <1>11, <1>12, <1>13, <1>14
     DEF Next, Pager

\* A page that is not pinned may go; the pinned ones stay.
LEMMA PinnedStays ==
    ASSUME NEW s \in Seq(Page), NEW b \in Seq(Page), \A p \in ToSet(b) : ~p.pinned,
           \E p \in ToSet(s) : p.pinned
    PROVE  \E p \in ToSet(Without(s, b)) : p.pinned
BY WithoutProperties

\* The summary that replaces a batch.
Summary ==
    [turns |-> TurnsOf(batch), tokens |-> SummaryTokens, pinned |-> FALSE,
     summarized |-> TRUE, access |-> clock]

\* The call returned: the summary is put in among the pages that are left.
LEMMA SummaryEffect ==
    ASSUME PagerInv, SummaryReturns
    PROVE  /\ Summary \in Page /\ batch \in Seq(Page) /\ batch[1] \in ToSet(pages)
           /\ Summary.turns = TurnsOf(batch) /\ ~Plain(Summary) /\ Summary.access = clock
           /\ pages' = Summarized(pages, batch, Summary)
           /\ Inserted(pages', Without(pages, batch), Summary, SummaryPlace(pages, batch))
           /\ ToSet(pages') = ToSet(Without(pages, batch)) \cup {Summary}
<1> USE DEF PagerInv
<1>1. at = "summarize" /\ batch \in Seq(Page) /\ pages \in Seq(Page) /\ next <= Len(Policies)
  BY DEF SummaryReturns, TypeOK, Batched
<1>2. Summary \in Page
  <2>1. TurnsOf(batch) \in SUBSET Nat
    BY <1>1, TurnsOfProperties
  <2> QED
    BY <2>1, PagerAssumption DEF Page, Counters, Summary
<1>3. batch[1] \in ToSet(pages)
  <2>1. Len(batch) \in Nat \ {0}
    BY <1>1, PolicyAt DEF Batched, TypeOK
  <2>2. batch[1] \in ToSet(batch)
    BY <1>1, <2>1 DEF ToSet
  <2> QED
    BY <1>1, <2>2 DEF Batched
<1>4. Summary.turns = TurnsOf(batch) /\ ~Plain(Summary) /\ Summary.access = clock
  BY DEF Summary, Plain
<1>5. pages' = Summarized(pages, batch, Summary)
  BY DEF SummaryReturns, Summary
<1> QED
  BY <1>1, <1>2, <1>3, <1>4, <1>5, SummarizedProperties

\* The pages of the batch stay in the context until the summary replaces them.
LEMMA BatchedStep ==
    ASSUME PagerInv, Next
    PROVE  Batched'
<1> USE DEF PagerInv
<1>1. CASE EvictSummarize
  <2> SUFFICES ASSUME at' = "summarize" PROVE Batched'
    BY DEF Batched
  <2>1. next \in 1 .. Len(Policies) /\ Policies[next].kind = "summarize" /\ at = "evict"
        /\ guard > 0
    BY <1>1 DEF EvictSummarize, Trying, TypeOK
  <2> DEFINE n == Policies[next].batch
             v == Oldest(Unsummarized, n)
  <2>2. /\ Cardinality(Unsummarized) >= n /\ batch' = v
        /\ UNCHANGED <<pages, next, guard>>
    BY <1>1, <2>1 DEF EvictSummarize, loopVars
  <2>3. n \in Nat /\ pages \in Seq(Page)
    BY <2>1, PolicyAt DEF TypeOK
  <2> HIDE DEF n
  <2>4. /\ Cardinality(Unsummarized) \in Nat /\ (n <= Cardinality(Unsummarized) => Len(v) = n)
        /\ ToSet(v) \subseteq ToSet(pages) /\ \A p \in ToSet(v) : ~p.pinned
    BY <2>3, VictimProperties
  <2>5. Len(v) = n
    BY <2>2, <2>3, <2>4
  <2> HIDE DEF v
  <2> QED
    BY <2>1, <2>2, <2>4, <2>5 DEF Batched, n
<1>2. CASE RestorePage
  <2>3. ToSet(pages) \subseteq ToSet(pages')
    BY <1>2, RestoreEffect
  <2> QED
    BY <1>2, <2>3 DEF RestorePage, Batched, loopVars
<1>3. CASE SwapIn
  BY <1>3 DEF SwapIn, Batched, loopVars
<1>4. CASE Assemble \/ EvictLru \/ EvictSwap \/ SummaryReturns \/ SummaryFails
  BY <1>4 DEF Assemble, EvictLru, EvictSwap, SummaryReturns, SummaryFails, Trying, Batched
<1>5. CASE Send \/ Reply \/ ChatFails \/ Reboot
  BY <1>5 DEF Send, Reply, ChatFails, Reboot, Batched
<1> QED
  BY <1>1, <1>2, <1>3, <1>4, <1>5 DEF Next, Pager

\* No policy takes the pinned prompt out of the context.
LEMMA PromptStep ==
    ASSUME PagerInv, Next
    PROVE  PromptKept'
<1> USE DEF PagerInv
<1>0. pages \in Seq(Page)
  BY DEF TypeOK
<1>1. CASE Assemble
  BY <1>1, AssembleEffect DEF PromptKept
<1>2. CASE EvictLru
  <2> DEFINE v == Oldest(Evictable, 1)
  <2>1. v \in Seq(Page) /\ \A p \in ToSet(v) : ~p.pinned
    BY <1>0, VictimProperties
  <2>2. at = "evict" /\ (pages' = pages \/ pages' = Without(pages, v))
    BY <1>2 DEF EvictLru, Trying
  <2> HIDE DEF v
  <2> QED
    BY <1>0, <2>1, <2>2, PinnedStays DEF PromptKept
<1>3. CASE EvictSwap
  <2> DEFINE n == Policies[next].batch
             v == Oldest(Evictable, n)
  <2>1. n \in Nat
    <3>1. next \in 1 .. Len(Policies)
      BY <1>3 DEF EvictSwap, Trying, TypeOK
    <3> QED
      BY <3>1, PolicyAt
  <2>2. at = "evict" /\ (pages' = pages \/ pages' = Without(pages, v))
    BY <1>3 DEF EvictSwap, Trying
  <2> HIDE DEF n
  <2>3. v \in Seq(Page) /\ \A p \in ToSet(v) : ~p.pinned
    BY <1>0, <2>1, VictimProperties
  <2> HIDE DEF v
  <2> QED
    BY <1>0, <2>2, <2>3, PinnedStays DEF PromptKept
<1>4. CASE SummaryReturns
  <2>1. ToSet(pages') = ToSet(Without(pages, batch)) \cup {Summary} /\ batch \in Seq(Page)
    BY <1>4, SummaryEffect
  <2>2. at = "summarize" /\ \A p \in ToSet(batch) : ~p.pinned
    BY <1>4 DEF SummaryReturns, Batched
  <2> QED
    BY <1>0, <2>1, <2>2, PinnedStays DEF PromptKept
<1>5. CASE Send
  <2>1. /\ pages' \in Seq(Page) /\ Len(pages') = Len(pages)
        /\ \A i \in 1 .. Len(pages) : pages'[i].pinned = pages[i].pinned
    BY <1>5, SendEffect
  <2>2. (\E p \in ToSet(pages) : p.pinned) => \E p \in ToSet(pages') : p.pinned
    BY <1>0, <2>1 DEF ToSet
  <2> QED
    BY <1>5, <2>2 DEF Send, PromptKept
<1>6. CASE RestorePage
  <2>3. ToSet(pages) \subseteq ToSet(pages')
    BY <1>6, RestoreEffect
  <2> QED
    BY <1>6, <2>3 DEF RestorePage, PromptKept
<1>7. CASE EvictSummarize
  BY <1>7 DEF EvictSummarize, Trying, PromptKept
<1>8. CASE SummaryFails \/ Reply \/ ChatFails \/ SwapIn \/ Reboot
  BY <1>8 DEF SummaryFails, Reply, ChatFails, SwapIn, Reboot, PromptKept
<1> QED
  BY <1>1, <1>2, <1>3, <1>4, <1>5, <1>6, <1>7, <1>8 DEF Next, Pager

\* Pages that tell of all that others told.
LEMMA TurnsKept ==
    ASSUME NEW s \in Seq(Page), NEW r \in Seq(Page),
           \A p \in ToSet(s) : \E q \in ToSet(r) : p.turns \subseteq q.turns
    PROVE  TurnsOf(s) \subseteq TurnsOf(r)
BY TurnsOfProperties

\* Removing pages removes no turn but theirs.
LEMMA TurnsLeft ==
    ASSUME NEW s \in Seq(Page), NEW b \in Seq(Page)
    PROVE  TurnsOf(s) \subseteq TurnsOf(Without(s, b)) \cup TurnsOf(b)
<1>1. Without(s, b) \in Seq(Page)
      /\ \A p \in ToSet(s) : p \in ToSet(b) \/ p \in ToSet(Without(s, b))
  BY WithoutProperties
<1> QED
  BY <1>1, TurnsOfProperties

\* No turn disappears from the context but into a swap file, a summary or, by an
\* LRU drop, for good.
LEMMA CoveredStep ==
    ASSUME PagerInv, TypeOK', Next
    PROVE  Covered'
<1> USE DEF PagerInv
<1>0. pages \in Seq(Page) /\ pages' \in Seq(Page)
  BY DEF TypeOK
<1> DEFINE Told == TurnsOf(pages) \cup dropped \cup InFiles
<1>1. ASSUME UNCHANGED <<turns, born>>, Told \subseteq Told' PROVE Covered'
  BY <1>1 DEF Covered
<1>2. CASE Assemble
  <2>1. TurnsOf(pages) \subseteq TurnsOf(pages')
    BY <1>0, <1>2, AssembleEffect, TurnsKept
  <2> QED
    BY <1>1, <1>2, <2>1 DEF Assemble, convVars, InFiles
<1>3. CASE EvictLru
  <2> DEFINE v == Oldest(Evictable, 1)
  <2>1. v \in Seq(Page)
    BY <1>0, VictimProperties
  <2>2. /\ UNCHANGED <<turns, born, files>>
        /\ \/ UNCHANGED <<pages, dropped>>
           \/ pages' = Without(pages, v) /\ dropped' = dropped \cup TurnsOf(v)
    BY <1>3 DEF EvictLru, convVars
  <2> HIDE DEF v
  <2>3. TurnsOf(pages) \subseteq TurnsOf(Without(pages, v)) \cup TurnsOf(v)
    BY <1>0, <2>1, TurnsLeft
  <2> QED
    BY <1>1, <2>2, <2>3 DEF InFiles
<1>4. CASE EvictSwap
  <2> DEFINE n == Policies[next].batch
             v == Oldest(Evictable, n)
  <2>1. n \in Nat
    BY <1>4, PolicyAt DEF EvictSwap, Trying, TypeOK
  <2>2. /\ UNCHANGED <<turns, born, dropped>>
        /\ \/ UNCHANGED <<pages, files>>
           \/ pages' = Without(pages, v) /\ files' = Append(files, v)
    BY <1>4 DEF EvictSwap, convVars
  <2> HIDE DEF n
  <2>3. v \in Seq(Page)
    BY <1>0, <2>1, VictimProperties
  <2> HIDE DEF v
  <2>4. TurnsOf(pages) \subseteq TurnsOf(Without(pages, v)) \cup TurnsOf(v)
    BY <1>0, <2>3, TurnsLeft
  <2>5. ToSet(Append(files, v)) = ToSet(files) \cup {v}
    <3>1. files \in Seq(Seq(Page))
      BY DEF TypeOK
    <3> QED
      BY <2>3, <3>1, AppendSet
  <2>6. CASE UNCHANGED <<pages, files>>
    BY <1>1, <2>2, <2>6 DEF InFiles
  <2>7. CASE pages' = Without(pages, v) /\ files' = Append(files, v)
    <3>1. InFiles' = InFiles \cup TurnsOf(v)
      BY <2>5, <2>7 DEF InFiles
    <3> QED
      BY <1>1, <2>2, <2>4, <2>7, <3>1
  <2> QED
    BY <2>2, <2>6, <2>7
<1>5. CASE SummaryReturns
  <2>1. /\ ToSet(pages') = ToSet(Without(pages, batch)) \cup {Summary} /\ batch \in Seq(Page)
        /\ Summary.turns = TurnsOf(batch)
    BY <1>5, SummaryEffect
  <2>2. TurnsOf(pages) \subseteq TurnsOf(Without(pages, batch)) \cup TurnsOf(batch)
    BY <1>0, <2>1, TurnsLeft
  <2>3. Without(pages, batch) \in Seq(Page)
    BY <1>0, <2>1, WithoutProperties
  <2>4. TurnsOf(Without(pages, batch)) \subseteq TurnsOf(pages')
    BY <1>0, <2>1, <2>3, TurnsKept
  <2>5. TurnsOf(batch) \subseteq TurnsOf(pages')
    BY <1>0, <2>1, TurnsOfProperties
  <2> QED
    BY <1>1, <1>5, <2>2, <2>4, <2>5 DEF SummaryReturns, convVars, InFiles
<1>6. CASE Send
  <2>1. /\ Len(pages') = Len(pages)
        /\ \A i \in 1 .. Len(pages) : pages'[i].turns = pages[i].turns
    BY <1>6, SendEffect
  <2>2. \A p \in ToSet(pages) : \E q \in ToSet(pages') : p.turns \subseteq q.turns
    BY <1>0, <2>1 DEF ToSet
  <2>3. TurnsOf(pages) \subseteq TurnsOf(pages')
    BY <1>0, <2>2, TurnsKept
  <2> QED
    BY <1>1, <1>6, <2>3 DEF Send, convVars, InFiles
<1>7. CASE Reply
  <2>1. PICK k \in {2, 3} :
           /\ turns' = turns + k /\ Len(pages') = Len(pages) + k
           /\ \A i \in 1 .. Len(pages) : pages'[i] = pages[i]
           /\ \A i \in 1 .. k : pages'[Len(pages) + i].turns = {turns + i}
    BY <1>7, ReplyEffect
  <2>2. TurnsOf(pages) \subseteq TurnsOf(pages')
    <3>1. \A p \in ToSet(pages) : p \in ToSet(pages')
      BY <1>0, <2>1 DEF ToSet
    <3> QED
      BY <1>0, <3>1, TurnsKept
  <2>3. ASSUME NEW i \in 1 .. k PROVE turns + i \in TurnsOf(pages')
    <3>1. Len(pages) + i \in DOMAIN pages'
      BY <1>0, <2>1
    <3>2. pages'[Len(pages) + i] \in ToSet(pages')
      BY <3>1 DEF ToSet
    <3> QED
      BY <1>0, <2>1, <3>2, TurnsOfProperties
  <2>4. UNCHANGED <<born, dropped, files>>
    BY <1>7 DEF Reply
  <2>5. ASSUME NEW t \in born + 1 .. turns + k
        PROVE  t \in TurnsOf(pages') \cup dropped \cup InFiles
    <3>1. turns \in Nat /\ born \in Nat
      BY DEF Counters
    <3>2. CASE t <= turns
      <4>1. t \in born + 1 .. turns
        BY <3>1, <3>2
      <4> QED
        BY <2>2, <4>1 DEF Covered
    <3>3. CASE t > turns
      <4>1. t - turns \in 1 .. k /\ turns + (t - turns) = t
        BY <3>1, <3>3
      <4> QED
        BY <2>3, <4>1
    <3> QED
      BY <3>1, <3>2, <3>3
  <2> QED
    BY <2>1, <2>4, <2>5 DEF Covered, InFiles
<1>8. CASE RestorePage
  <2>3. ToSet(pages) \subseteq ToSet(pages')
    BY <1>8, RestoreEffect
  <2>4. TurnsOf(pages) \subseteq TurnsOf(pages')
    BY <1>0, <2>3, TurnsKept
  <2> QED
    BY <1>1, <1>8, <2>4 DEF RestorePage, convVars, InFiles
<1>9. CASE Reboot
  <2>1. turns' \in Nat /\ born' = turns'
    BY <1>9 DEF Reboot, Counters
  <2>2. \A n \in Nat : n + 1 .. n = {}
    OBVIOUS
  <2> QED
    BY <2>1, <2>2 DEF Covered
<1>10. CASE EvictSummarize \/ SummaryFails \/ ChatFails \/ SwapIn
  BY <1>1, <1>10 DEF EvictSummarize, SummaryFails, ChatFails, SwapIn, convVars, InFiles
<1> QED
  BY <1>2, <1>3, <1>4, <1>5, <1>6, <1>7, <1>8, <1>9, <1>10 DEF Next, Pager

\* What is left of a sorted list is sorted.
LEMMA SortedWithout ==
    ASSUME NEW s \in Seq(Page), NEW b \in Seq(Page), NEW last, NEW time,
           Sorted(s, last, time)
    PROVE  Sorted(Without(s, b), last, time)
<1> DEFINE r == Without(s, b)
<1>1. r \in Seq(Page) /\ ToSet(r) \subseteq ToSet(s) /\ InOrderOf(r, s)
  BY WithoutProperties
<1> HIDE DEF r
<1>2. /\ DOMAIN r = 1 .. Len(r) /\ DOMAIN s = 1 .. Len(s)
      /\ \A i \in 1 .. Len(r) : \E j \in 1 .. Len(s) : r[i] = s[j]
  <2>1. DOMAIN r = 1 .. Len(r) /\ DOMAIN s = 1 .. Len(s)
    BY <1>1
  <2>2. \A i \in DOMAIN r : r[i] \in ToSet(s)
    BY <1>1 DEF ToSet
  <2>3. \A x \in ToSet(s) : \E j \in DOMAIN s : x = s[j]
    BY DEF ToSet
  <2> QED
    BY <2>1, <2>2, <2>3
<1>3. \A i \in 1 .. Len(r) : r[i].turns \subseteq 1 .. last /\ r[i].access <= time
  BY <1>2 DEF Sorted
<1>4. ASSUME NEW i \in 1 .. Len(r), NEW j \in 1 .. Len(r), i < j
      PROVE  Follows(r[i], r[j])
  <2>1. PICK u, v \in DOMAIN s : u < v /\ r[i] = s[u] /\ r[j] = s[v]
    <3>1. \A p, q \in DOMAIN r :
             p < q => \E u, v \in DOMAIN s : u < v /\ r[p] = s[u] /\ r[q] = s[v]
      BY <1>1 DEF InOrderOf
    <3>2. i \in DOMAIN r /\ j \in DOMAIN r
      BY <1>2
    <3> QED
      BY <1>4, <3>1, <3>2
  <2> QED
    BY <1>2, <2>1 DEF Sorted
<1>5. Sorted(r, last, time)
  BY <1>3, <1>4 DEF Sorted
<1> QED
  BY <1>5 DEF r

\* Time goes on, and so do the turns.
LEMMA SortedLater ==
    ASSUME NEW s \in Seq(Page), NEW last \in Nat, NEW time \in Nat, Sorted(s, last, time),
           NEW last2 \in Nat, NEW time2 \in Nat, last <= last2, time <= time2
    PROVE  Sorted(s, last2, time2)
<1>1. \A i \in 1 .. Len(s) : s[i].access \in Nat
  <2>1. \A p \in Page : p.access \in Nat
    BY DEF Page
  <2> QED
    BY <2>1
<1>2. 1 .. last \subseteq 1 .. last2
  OBVIOUS
<1>3. ASSUME NEW i \in 1 .. Len(s)
      PROVE  s[i].turns \subseteq 1 .. last2 /\ s[i].access <= time2
  <2>1. s[i].turns \subseteq 1 .. last /\ s[i].access <= time
    BY DEF Sorted
  <2> QED
    BY <1>1, <1>2, <2>1
<1> QED
  BY <1>3 DEF Sorted

\* The oldest pages of a sorted context that are no summaries are a stretch of it,
\* right behind the prompt and the summaries.
LEMMA OldestStretch ==
    ASSUME pages \in Seq(Page), NEW last, NEW time, Sorted(pages, last, time),
           NEW n \in Nat, n <= Cardinality(Unsummarized)
    PROVE  \E m \in 0 .. Len(pages) :
              /\ Stretch(pages, Oldest(Unsummarized, n), m)
              /\ \A i \in 1 .. m : ~Plain(pages[i])
<1> DEFINE U == Unsummarized
           L == Len(pages)
           v == Oldest(U, n)
<1>1. L \in Nat /\ DOMAIN pages = 1 .. L /\ U \in SUBSET (1 .. L)
      /\ \A i \in 1 .. L : i \in U <=> Plain(pages[i])
  BY DEF Unsummarized, Evictable, Plain
<1>2. /\ v \in Seq(Page) /\ Cardinality(U) \in Nat
      /\ Len(v) = IF n < Cardinality(U) THEN n ELSE Cardinality(U)
      /\ \A k \in 1 .. Len(v) :
            /\ PlaceOf(U, k) \in U
            /\ Cardinality(Earlier(U, PlaceOf(U, k))) = k - 1
            /\ v[k] = pages[PlaceOf(U, k)]
  BY <1>1, OldestProperties
<1>3. n <= Cardinality(U) /\ Len(v) = n
  BY <1>2
<1> HIDE DEF v, U, L
<1>4. \A i \in 1 .. L : pages[i].access \in Nat
  <2>1. \A p \in Page : p.access \in Nat
    BY DEF Page
  <2> QED
    BY <2>1 DEF L
<1>5. \A i, j \in 1 .. L : i < j /\ i \in U => j \in U /\ pages[i].access < pages[j].access
  BY <1>1 DEF Sorted, Follows, L
<1>6. CASE U = {}
  <2>1. n = 0
    BY <1>2, <1>3, <1>6, FS_EmptySet
  <2>2. Stretch(pages, v, L)
    <3>1. L + Len(v) <= Len(pages)
      BY <1>1, <1>3, <2>1 DEF L
    <3>2. 1 .. Len(v) = {}
      BY <1>3, <2>1
    <3> QED
      BY <3>1, <3>2 DEF Stretch
  <2>3. \A i \in 1 .. L : ~Plain(pages[i])
    BY <1>1, <1>6
  <2>4. L \in 0 .. L
    BY <1>1
  <2> QED
    BY <2>2, <2>3, <2>4 DEF L, v, U
<1>7. CASE U # {}
  <2>1. PICK f \in U : \A y \in U : f <= y
    <3>1. U \in SUBSET Nat
      BY <1>1
    <3> QED
      BY <1>7, <3>1, Least
  <2> DEFINE m == f - 1
  <2>2. m \in 0 .. L /\ m \in Nat /\ m + 1 = f /\ f \in 1 .. L
    BY <1>1, <2>1
  <2> HIDE DEF m
  <2>3. \A i \in 1 .. m : ~Plain(pages[i])
    <3>1. \A i \in 1 .. m : i \in 1 .. L /\ i \notin U
      BY <1>1, <2>1, <2>2
    <3> QED
      BY <1>1, <3>1
  <2>4. \A i \in 1 .. L : i \in U <=> i > m
    BY <1>1, <1>5, <2>1, <2>2
  <2>5. ASSUME NEW i \in U PROVE Cardinality(Earlier(U, i)) = i - 1 - m
    <3>0. i \in 1 .. L /\ i > m
      BY <1>1, <2>4
    <3>1. \A j \in U : j \in Earlier(U, i) <=> j < i
      <4>1. \A j \in U : j \in 1 .. L /\ pages[j].access \in Nat /\ pages[i].access \in Nat
        BY <1>1, <1>4, <3>0
      <4>2. \A j \in U : /\ j < i => pages[j].access < pages[i].access
                         /\ j > i => pages[i].access < pages[j].access
        BY <1>5, <3>0, <4>1
      <4>3. \A j \in U : \/ j < i /\ pages[j].access < pages[i].access
                         \/ j = i
                         \/ j > i /\ pages[i].access < pages[j].access
        BY <1>1, <3>0, <4>1, <4>2
      <4>4. \A j \in U :
               j \in Earlier(U, i) <=>
                  \/ pages[j].access < pages[i].access
                  \/ pages[j].access = pages[i].access /\ j < i
        BY DEF Earlier
      <4>5. ASSUME NEW j \in U PROVE j \in Earlier(U, i) <=> j < i
        <5> DEFINE x == pages[j].access
                   y == pages[i].access
        <5>1. /\ x \in Nat /\ y \in Nat /\ i \in Nat /\ j \in Nat
              /\ ((j < i /\ x < y) \/ j = i \/ (j > i /\ y < x))
          BY <1>1, <3>0, <4>1, <4>3
        <5>2. j \in Earlier(U, i) <=> x < y \/ (x = y /\ j < i)
          BY <4>4
        <5> HIDE DEF x, y
        <5>3. (x < y \/ (x = y /\ j < i)) <=> j < i
          <6>1. CASE j < i /\ x < y
            BY <6>1
          <6>2. CASE j = i
            <7>1. x = y
              BY <6>2 DEF x, y
            <7> QED
              BY <5>1, <6>2, <7>1
          <6>3. CASE j > i /\ y < x
            BY <5>1, <6>3
          <6> QED
            BY <5>1, <6>1, <6>2, <6>3
        <5> QED
          BY <5>2, <5>3
      <4> QED
        BY <4>5
    <3>2. Earlier(U, i) \subseteq U
      BY DEF Earlier
    <3>3. Earlier(U, i) = m + 1 .. i - 1
      <4>1. \A j : j \in m + 1 .. i - 1 <=> j \in 1 .. L /\ j > m /\ j < i
        BY <1>1, <2>2, <3>0
      <4>2. \A j : j \in Earlier(U, i) <=> j \in 1 .. L /\ j \in U /\ j < i
        BY <1>1, <3>1, <3>2
      <4> QED
        BY <2>4, <4>1, <4>2
    <3>4. m + 1 \in Int /\ i - 1 \in Int /\ (m + 1 > i - 1 => i - 1 - m = 0)
          /\ (i - 1) - (m + 1) + 1 = i - 1 - m
      BY <2>2, <3>0
    <3> QED
      BY <3>3, <3>4, FS_Interval
  <2>6. ASSUME NEW k \in 1 .. Len(v) PROVE m + k \in U /\ v[k] = pages[m + k]
    <3>1. /\ PlaceOf(U, k) \in U /\ Cardinality(Earlier(U, PlaceOf(U, k))) = k - 1
          /\ v[k] = pages[PlaceOf(U, k)]
      BY <1>2
    <3>2. PlaceOf(U, k) - 1 - m = k - 1
      BY <2>5, <3>1
    <3>3. PlaceOf(U, k) = m + k
      <4>0. \A u \in U : u \in Nat
        BY <1>1
      <4>1. PlaceOf(U, k) \in Nat
        BY <3>1, <4>0
      <4>2. \A x, y, z \in Int : x - 1 - y = z - 1 => x = y + z
        OBVIOUS
      <4> QED
        BY <2>2, <3>2, <4>1, <4>2
    <3> QED
      BY <3>1, <3>3
  <2>7. ASSUME NEW k \in 1 .. Len(v), NEW p \in 1 .. L, pages[p] = v[k]
        PROVE  p = m + k
    <3>1. m + k \in U /\ m + k \in 1 .. L /\ pages[p] = pages[m + k]
      BY <1>1, <2>6, <2>7
    <3>2. p \in U
      BY <1>1, <3>1
    <3>3. pages[p].access \in Nat /\ pages[p].access = pages[m + k].access
      BY <1>4, <3>1
    <3>4. ~(p < m + k) /\ ~(m + k < p)
      BY <1>5, <3>1, <3>2, <3>3
    <3> QED
      BY <3>1, <3>4
  <2>8. m + Len(v) <= L
    <3>1. CASE Len(v) = 0
      BY <2>2, <3>1
    <3>2. CASE Len(v) # 0
      <4>1. Len(v) \in 1 .. Len(v)
        BY <1>2, <3>2
      <4>2. m + Len(v) \in 1 .. L
        BY <1>1, <2>6, <4>1
      <4> QED
        BY <4>2
    <3> QED
      BY <3>1, <3>2
  <2>9. Stretch(pages, v, m)
    BY <2>6, <2>7, <2>8 DEF Stretch, L
  <2> QED
    BY <2>2, <2>3, <2>9 DEF L, v, U
<1> QED
  BY <1>6, <1>7

\* A summary in the place of its batch keeps the context sorted.
LEMMA SummarySorted ==
    ASSUME NEW s \in Seq(Page), NEW b \in Seq(Page), NEW last \in Nat, NEW time \in Nat,
           Sorted(s, last, time), Len(b) >= 1, NEW m \in 0 .. Len(s), Stretch(s, b, m),
           \A i \in 1 .. m : ~Plain(s[i]),
           NEW x \in Page, x.turns = TurnsOf(b), ~Plain(x), x.access = time,
           NEW r \in Seq(Page), Inserted(r, Without(s, b), x, SummaryPlace(s, b))
    PROVE  Sorted(r, last, time)
<1> DEFINE L == Len(s)
           n == Len(b)
           w == Without(s, b)
<1>0. L \in Nat /\ n \in Nat /\ n >= 1 /\ m \in Nat /\ m + n <= L
      /\ DOMAIN s = 1 .. L /\ DOMAIN b = 1 .. n
  BY DEF Stretch
<1>1. /\ \A k \in 1 .. n : b[k] = s[m + k]
      /\ \A k \in 1 .. n : \A p \in 1 .. L : s[p] = b[k] => p = m + k
  BY DEF Stretch
<1>2. Len(w) = L - n /\ \A p \in 1 .. Len(w) : w[p] = s[IF p <= m THEN p ELSE p + n]
  <2>1. MovedUp(Without(s, b), s, m, Len(b))
    BY <1>0, WithoutStretch
  <2> QED
    BY <2>1 DEF MovedUp
<1>3. FirstPlace(s, b[1]) = m + 1
  <2>1. 1 \in 1 .. n /\ m + 1 \in 1 .. L
    BY <1>0
  <2>2. b[1] = s[m + 1]
    BY <1>1, <2>1
  <2>3. b[1] \in ToSet(s)
    BY <1>0, <2>1, <2>2 DEF ToSet
  <2>4. FirstPlace(s, b[1]) \in 1 .. L /\ s[FirstPlace(s, b[1])] = b[1]
    BY <2>3, FirstPlaceFound
  <2> QED
    BY <1>1, <2>1, <2>4
<1>4. SummaryPlace(s, b) = m + 1
  BY <1>0, <1>2, <1>3 DEF SummaryPlace
<1> HIDE DEF w
<1>5. /\ Len(r) = L - n + 1
      /\ \A p \in 1 .. Len(r) :
            r[p] = IF p < m + 1 THEN w[p] ELSE IF p = m + 1 THEN x ELSE w[p - 1]
  BY <1>2, <1>4 DEF Inserted, w
<1> HIDE DEF L, n
<1> DEFINE place(p) == IF p <= m THEN p ELSE (p - 1) + n
<1>6. ASSUME NEW p \in 1 .. Len(r), p # m + 1
      PROVE  place(p) \in 1 .. L /\ r[p] = s[place(p)]
  <2>1. CASE p <= m
    <3>1. p \in 1 .. Len(w) /\ p \in 1 .. L /\ p < m + 1
      BY <1>0, <1>2, <2>1
    <3>2. r[p] = w[p] /\ w[p] = s[p]
      BY <1>2, <1>5, <2>1, <3>1
    <3> QED
      BY <2>1, <3>1, <3>2
  <2>2. CASE ~(p <= m)
    <3>1. /\ p - 1 \in 1 .. Len(w) /\ ~(p < m + 1) /\ ~(p - 1 <= m)
          /\ (p - 1) + n \in 1 .. L
      BY <1>0, <1>2, <1>5, <1>6, <2>2
    <3>2. r[p] = w[p - 1]
      BY <1>5, <1>6, <3>1
    <3>3. w[p - 1] = s[(p - 1) + n]
      BY <1>2, <3>1
    <3> QED
      BY <2>2, <3>1, <3>2, <3>3
  <2> QED
    BY <2>1, <2>2
<1>7. m + 1 \in 1 .. Len(r) /\ r[m + 1] = x
  <2>1. m + 1 \in 1 .. Len(r) /\ ~(m + 1 < m + 1)
    BY <1>0, <1>5
  <2> QED
    BY <1>5, <2>1
<1>8. ASSUME NEW u \in x.turns
      PROVE  \E k \in 1 .. n : m + k \in 1 .. L /\ u \in s[m + k].turns
  <2>1. PICK p \in ToSet(b) : u \in p.turns
    BY TurnsOfProperties
  <2>2. PICK k \in 1 .. n : p = b[k]
    BY <1>0 DEF ToSet
  <2>3. m + k \in 1 .. L
    BY <1>0
  <2> QED
    BY <1>1, <2>1, <2>2, <2>3
<1>9. /\ \A i \in 1 .. L : s[i].turns \subseteq 1 .. last /\ s[i].access <= time
      /\ \A i, j \in 1 .. L : i < j => Follows(s[i], s[j])
  BY DEF Sorted, L
<1>10. ASSUME NEW p \in 1 .. Len(r)
       PROVE  r[p].turns \subseteq 1 .. last /\ r[p].access <= time
  <2>1. CASE p = m + 1
    <3>1. x.turns \subseteq 1 .. last
      BY <1>8, <1>9
    <3> QED
      BY <1>7, <2>1, <3>1
  <2>2. CASE p # m + 1
    BY <1>6, <1>9, <2>2
  <2> QED
    BY <2>1, <2>2
<1>11. ASSUME NEW i \in 1 .. Len(r), NEW j \in 1 .. Len(r), i < j
       PROVE  Follows(r[i], r[j])
  <2>1. CASE i # m + 1 /\ j # m + 1
    <3>1. place(i) < place(j)
      BY <1>0, <1>11, <2>1
    <3>2. /\ place(i) \in 1 .. L /\ place(j) \in 1 .. L
          /\ r[i] = s[place(i)] /\ r[j] = s[place(j)]
      BY <1>6, <2>1
    <3> HIDE DEF place
    <3> QED
      BY <1>9, <3>1, <3>2
  <2>2. CASE i = m + 1
    <3>1. j # m + 1 /\ ~(j <= m) /\ place(j) = (j - 1) + n /\ (j - 1) + n > m + n
      BY <1>0, <1>11, <2>2
    <3>2. place(j) \in 1 .. L /\ r[j] = s[place(j)] /\ r[i] = x
      BY <1>6, <1>7, <2>2, <3>1
    <3>3. ASSUME NEW t \in x.turns, NEW u \in r[j].turns PROVE t < u
      <4>1. PICK k \in 1 .. n : m + k \in 1 .. L /\ t \in s[m + k].turns
        BY <1>8
      <4>2. m + k < place(j)
        BY <1>0, <3>1
      <4>3. Follows(s[m + k], s[place(j)])
        BY <1>9, <3>2, <4>1, <4>2
      <4> QED
        BY <3>2, <4>1, <4>3 DEF Follows
    <3> QED
      BY <3>2, <3>3 DEF Follows
  <2>3. CASE j = m + 1
    <3>1. i <= m /\ i \in 1 .. m /\ i # m + 1 /\ place(i) = i
      BY <1>0, <1>11, <2>3
    <3>2. i \in 1 .. L /\ r[i] = s[i] /\ r[j] = x
      BY <1>6, <1>7, <2>3, <3>1
    <3>3. ASSUME NEW t \in r[i].turns, NEW u \in x.turns PROVE t < u
      <4>1. PICK k \in 1 .. n : m + k \in 1 .. L /\ u \in s[m + k].turns
        BY <1>8
      <4>2. i < m + k
        BY <1>0, <3>1
      <4>3. Follows(s[i], s[m + k])
        BY <1>9, <3>2, <4>1, <4>2
      <4> QED
        BY <3>2, <4>1, <4>3 DEF Follows
    <3>4. ~Plain(r[i])
      BY <3>1, <3>2
    <3> QED
      BY <3>2, <3>3, <3>4 DEF Follows
  <2> QED
    BY <2>1, <2>2, <2>3
<1> QED
  BY <1>10, <1>11 DEF Sorted

\* The prompt in front tells of no turn.
LEMMA FrontSorted ==
    ASSUME NEW s \in Seq(Page), NEW last \in Nat, NEW time \in Nat, Sorted(s, last, time),
           NEW x \in Page, x.turns = {}, ~Plain(x), x.access = time,
           NEW r \in Seq(Page), Inserted(r, s, x, 1)
    PROVE  Sorted(r, last, time)
<1>1. Len(s) \in Nat /\ Len(r) = Len(s) + 1 /\ 1 \in 1 .. Len(r)
  BY DEF Inserted
<1>2. r[1] = x
  BY <1>1 DEF Inserted
<1>3. ASSUME NEW p \in 1 .. Len(r), p # 1 PROVE p - 1 \in 1 .. Len(s) /\ r[p] = s[p - 1]
  <2>1. ~(p < 1) /\ p - 1 \in 1 .. Len(s)
    BY <1>1, <1>3
  <2> QED
    BY <1>3, <2>1 DEF Inserted
<1>4. /\ \A i \in 1 .. Len(s) : s[i].turns \subseteq 1 .. last /\ s[i].access <= time
      /\ \A i, j \in 1 .. Len(s) : i < j => Follows(s[i], s[j])
  BY DEF Sorted
<1>5. ASSUME NEW p \in 1 .. Len(r)
      PROVE  r[p].turns \subseteq 1 .. last /\ r[p].access <= time
  BY <1>2, <1>3, <1>4, SMTT(30)
<1>6. ASSUME NEW i \in 1 .. Len(r), NEW j \in 1 .. Len(r), i < j
      PROVE  Follows(r[i], r[j])
  <2>1. CASE i = 1
    BY <1>2, <2>1 DEF Follows
  <2>2. CASE i # 1
    <3>1. j # 1 /\ i - 1 < j - 1
      BY <1>1, <1>6, <2>2
    <3>2. /\ i - 1 \in 1 .. Len(s) /\ r[i] = s[i - 1]
          /\ j - 1 \in 1 .. Len(s) /\ r[j] = s[j - 1]
      BY <1>3, <2>2, <3>1
    <3> QED
      BY <1>4, <3>1, <3>2
  <2> QED
    BY <2>1, <2>2
<1> QED
  BY <1>5, <1>6 DEF Sorted

\* Touching the pages one after another keeps the context sorted.
LEMMA SendSorted ==
    ASSUME TypeOK, Counters, Send, Sorted(pages, turns, clock)
    PROVE  Sorted(pages', turns, clock')
<1>1. /\ pages' \in Seq(Page) /\ Len(pages') = Len(pages)
      /\ \A i \in 1 .. Len(pages) :
            /\ pages'[i].turns = pages[i].turns /\ pages'[i].pinned = pages[i].pinned
            /\ pages'[i].summarized = pages[i].summarized
            /\ pages'[i].access = clock + i
  BY SendEffect
<1>2. Len(pages) \in Nat /\ clock \in Nat /\ clock' = clock + Len(pages) + 1
  BY DEF TypeOK, Counters, Send
<1>3. ASSUME NEW i \in 1 .. Len(pages')
      PROVE  pages'[i].turns \subseteq 1 .. turns /\ pages'[i].access <= clock'
  <2>1. i \in 1 .. Len(pages) /\ clock + i <= clock'
    BY <1>1, <1>2
  <2>2. pages[i].turns \subseteq 1 .. turns
    BY <2>1 DEF Sorted
  <2> QED
    BY <1>1, <2>1, <2>2
<1>4. ASSUME NEW i \in 1 .. Len(pages'), NEW j \in 1 .. Len(pages'), i < j
      PROVE  Follows(pages'[i], pages'[j])
  <2>1. i \in 1 .. Len(pages) /\ j \in 1 .. Len(pages) /\ clock + i < clock + j
    BY <1>1, <1>2, <1>4
  <2>2. Follows(pages[i], pages[j])
    BY <1>4, <2>1 DEF Sorted
  <2>3. /\ pages'[i].turns = pages[i].turns /\ pages'[j].turns = pages[j].turns
        /\ Plain(pages'[i]) = Plain(pages[i]) /\ Plain(pages'[j]) = Plain(pages[j])
        /\ pages'[i].access < pages'[j].access
    BY <1>1, <2>1 DEF Plain
  <2> QED
    BY <2>2, <2>3 DEF Follows
<1> QED
  BY <1>3, <1>4 DEF Sorted

\* A reply's pages go to the end, and are later than all others.
LEMMA ReplySorted ==
    ASSUME TypeOK, Counters, Reply, Sorted(pages, turns, clock)
    PROVE  Sorted(pages', turns', clock')
<1> DEFINE L == Len(pages)
<1>1. PICK k \in {2, 3} :
         /\ turns' = turns + k /\ clock' = clock + k + 1
         /\ Len(pages') = L + k
         /\ \A i \in 1 .. L : pages'[i] = pages[i]
         /\ \A i \in 1 .. k :
               /\ pages'[L + i].turns = {turns + i}
               /\ ~pages'[L + i].pinned
               /\ ~pages'[L + i].summarized
               /\ pages'[L + i].access = clock + i
  BY ReplyEffect
<1>2. L \in Nat /\ clock \in Nat /\ turns \in Nat
  BY DEF TypeOK, Counters
<1>3. Sorted(pages, turns', clock')
  BY <1>1, <1>2, SortedLater, SMTT(30) DEF TypeOK
<1> DEFINE new(i) == i - L
<1>4. ASSUME NEW i \in 1 .. Len(pages'), ~(i <= L)
      PROVE  /\ new(i) \in 1 .. k /\ pages'[i].turns = {turns + new(i)}
             /\ Plain(pages'[i]) /\ pages'[i].access = clock + new(i)
  <2>1. new(i) \in 1 .. k /\ L + new(i) = i
    BY <1>1, <1>2, <1>4
  <2> HIDE DEF new
  <2> QED
    BY <1>1, <2>1 DEF Plain
<1>5. ASSUME NEW i \in 1 .. Len(pages'), i <= L
      PROVE  i \in 1 .. L /\ pages'[i] = pages[i]
  BY <1>1, <1>2, <1>5
<1>6. \A i \in 1 .. L : pages[i].access \in Nat /\ pages[i].turns \in SUBSET Nat
  <2>1. \A p \in Page : p.access \in Nat /\ p.turns \in SUBSET Nat
    BY DEF Page
  <2> QED
    BY <2>1 DEF TypeOK
<1> HIDE DEF L
<1>7. ASSUME NEW i \in 1 .. Len(pages')
      PROVE  pages'[i].turns \subseteq 1 .. turns' /\ pages'[i].access <= clock'
  <2>1. CASE i <= L
    BY <1>3, <1>5, <2>1 DEF Sorted, L
  <2>2. CASE ~(i <= L)
    <3>1. turns + new(i) \in 1 .. turns' /\ clock + new(i) <= clock'
      BY <1>1, <1>2, <1>4, <2>2
    <3> QED
      BY <1>4, <2>2, <3>1
  <2> QED
    BY <2>1, <2>2
<1>8. ASSUME NEW i \in 1 .. Len(pages'), NEW j \in 1 .. Len(pages'), i < j
      PROVE  Follows(pages'[i], pages'[j])
  <2>1. CASE j <= L
    <3>1. i <= L
      BY <1>1, <1>2, <1>8, <2>1
    <3> QED
      BY <1>3, <1>5, <1>8, <2>1, <3>1 DEF Sorted, L
  <2>2. CASE i <= L /\ ~(j <= L)
    <3>1. i \in 1 .. L /\ pages'[i] = pages[i]
      BY <1>5, <2>2
    <3>2. pages[i].turns \subseteq 1 .. turns /\ pages[i].access <= clock
      BY <3>1 DEF Sorted, L
    <3>3. /\ new(j) \in 1 .. k /\ pages'[j].turns = {turns + new(j)}
          /\ Plain(pages'[j]) /\ pages'[j].access = clock + new(j)
      BY <1>4, <2>2
    <3> HIDE DEF new
    <3>4. \A t \in pages[i].turns : t < turns + new(j)
      BY <1>2, <3>2, <3>3
    <3>5. pages[i].access < clock + new(j)
      BY <1>2, <1>6, <3>1, <3>2, <3>3
    <3> QED
      BY <3>1, <3>3, <3>4, <3>5 DEF Follows
  <2>3. CASE ~(i <= L)
    <3>1. ~(j <= L)
      BY <1>1, <1>2, <1>8, <2>3
    <3>2. /\ pages'[i].turns = {turns + new(i)} /\ pages'[j].turns = {turns + new(j)}
          /\ Plain(pages'[j])
          /\ pages'[i].access = clock + new(i) /\ pages'[j].access = clock + new(j)
      BY <1>4, <2>3, <3>1
    <3>3. turns + new(i) < turns + new(j) /\ clock + new(i) < clock + new(j)
      BY <1>1, <1>2, <1>8
    <3> HIDE DEF new
    <3> QED
      BY <3>2, <3>3 DEF Follows
  <2> QED
    BY <2>1, <2>2, <2>3
<1> QED
  BY <1>7, <1>8 DEF Sorted

\* Evicting and summarizing keep the order of the turns.
LEMMA OrderedStep ==
    ASSUME PagerInv, TypeOK', Counters', Next
    PROVE  Ordered'
<1> USE DEF PagerInv
<1> SUFFICES ASSUME swapIns' = 0 PROVE Ordered'
  BY DEF Ordered
<1>1. ~SwapIn
  <2> SUFFICES ASSUME SwapIn PROVE FALSE
    OBVIOUS
  <2>1. swapIns' = swapIns + 1 /\ swapIns \in Nat
    BY DEF SwapIn, Counters
  <2> QED
    BY <2>1
<1>2. CASE Reboot
  <2>1. pages' = <<>> /\ restore' = <<>> /\ at' = "idle"
    BY <1>2 DEF Reboot
  <2> QED
    BY <2>1 DEF Ordered, Sorted
<1>3. CASE ~Reboot
  <2>1. swapIns' = swapIns
    BY <1>1, <1>3 DEF Next, Pager, Assemble, EvictLru, EvictSwap, EvictSummarize,
                      SummaryReturns, SummaryFails, Send, Reply, ChatFails, RestorePage,
                      swapInVars
  <2>2. restore = <<>> /\ Sorted(pages, turns, clock)
    BY <2>1 DEF Ordered
  <2>3. ~RestorePage
    BY <2>2 DEF RestorePage
  <2>4. restore' = <<>>
    BY <1>1, <1>3, <2>2, <2>3
       DEF Next, Pager, Assemble, EvictLru, EvictSwap, EvictSummarize, SummaryReturns,
           SummaryFails, Send, Reply, ChatFails, swapInVars
  <2>5. /\ pages \in Seq(Page) /\ pages' \in Seq(Page) /\ clock \in Nat /\ clock' \in Nat
        /\ turns \in Nat
    BY DEF TypeOK, Counters
  <2>6. ASSUME at' # "summarize", Sorted(pages', turns', clock') PROVE Ordered'
    BY <2>4, <2>6 DEF Ordered
  <2>7. CASE Assemble
    <3>1. UNCHANGED turns /\ clock' = clock + 1 /\ at' = "evict"
      BY <2>7 DEF Assemble, convVars
    <3>2. /\ PinnedPage(clock) \in Page
          /\ pages' = pages \/ Inserted(pages', pages, PinnedPage(clock), 1)
      BY <2>7, AssembleEffect
    <3>3. /\ PinnedPage(clock).turns = {} /\ ~Plain(PinnedPage(clock))
          /\ PinnedPage(clock).access = clock
      BY DEF PinnedPage, Plain
    <3>4. Sorted(pages', turns, clock)
      BY <2>2, <2>5, <3>2, <3>3, FrontSorted
    <3>5. Sorted(pages', turns, clock')
      BY <2>5, <3>1, <3>4, SortedLater
    <3> QED
      BY <2>6, <3>1, <3>5
  <2>8. CASE EvictLru
    <3> DEFINE v == Oldest(Evictable, 1)
    <3>1. /\ UNCHANGED <<turns, clock, at>> /\ at = "evict"
          /\ pages' = pages \/ pages' = Without(pages, v)
      BY <2>8 DEF EvictLru, Trying, convVars
    <3>2. v \in Seq(Page)
      BY <2>5, VictimProperties
    <3> HIDE DEF v
    <3>3. Sorted(pages', turns, clock)
      BY <2>2, <2>5, <3>1, <3>2, SortedWithout
    <3> QED
      BY <2>6, <3>1, <3>3
  <2>9. CASE EvictSwap
    <3> DEFINE n == Policies[next].batch
               v == Oldest(Evictable, n)
    <3>1. /\ UNCHANGED <<turns, clock, at>> /\ at = "evict"
          /\ pages' = pages \/ pages' = Without(pages, v)
      BY <2>9 DEF EvictSwap, Trying, convVars
    <3>2. n \in Nat
      <4>1. next \in 1 .. Len(Policies)
        BY <2>9 DEF EvictSwap, Trying, TypeOK
      <4> QED
        BY <4>1, PolicyAt
    <3> HIDE DEF n
    <3>3. v \in Seq(Page)
      BY <2>5, <3>2, VictimProperties
    <3> HIDE DEF v
    <3>4. Sorted(pages', turns, clock)
      BY <2>2, <2>5, <3>1, <3>3, SortedWithout
    <3> QED
      BY <2>6, <3>1, <3>4
  <2>10. CASE EvictSummarize
    <3>1. UNCHANGED <<pages, turns, clock>> /\ at = "evict"
      BY <2>10 DEF EvictSummarize, Trying, convVars
    <3>2. CASE at' # "summarize"
      BY <2>2, <2>6, <3>1, <3>2
    <3>3. CASE at' = "summarize"
      <4> DEFINE n == Policies[next].batch
      <4>1. batch' = Oldest(Unsummarized, n) /\ Cardinality(Unsummarized) >= n
        BY <2>10, <3>1, <3>3 DEF EvictSummarize
      <4>2. n \in Nat
        <5>1. next \in 1 .. Len(Policies)
          BY <2>10 DEF EvictSummarize, Trying, TypeOK
        <5> QED
          BY <5>1, PolicyAt
      <4> HIDE DEF n
      <4>3. n <= Cardinality(Unsummarized)
        <5>1. Cardinality(Unsummarized) \in Nat
          BY <2>5, <4>2, VictimProperties
        <5> QED
          BY <4>1, <4>2, <5>1
      <4>4. \E m \in 0 .. Len(pages) :
               Stretch(pages, batch', m) /\ \A i \in 1 .. m : ~Plain(pages[i])
        BY <2>2, <2>5, <4>1, <4>2, <4>3, OldestStretch
      <4> QED
        BY <2>2, <2>4, <3>1, <4>4 DEF Ordered
    <3> QED
      BY <3>2, <3>3
  <2>11. CASE SummaryReturns
    <3>1. /\ at = "summarize" /\ at' = "evict" /\ UNCHANGED turns /\ clock' = clock + 1
      BY <2>11 DEF SummaryReturns, convVars
    <3>2. /\ Summary \in Page /\ batch \in Seq(Page)
          /\ Summary.turns = TurnsOf(batch) /\ ~Plain(Summary) /\ Summary.access = clock
          /\ Inserted(pages', Without(pages, batch), Summary, SummaryPlace(pages, batch))
      BY <2>11, SummaryEffect
    <3>3. PICK m \in 0 .. Len(pages) :
             Stretch(pages, batch, m) /\ \A i \in 1 .. m : ~Plain(pages[i])
      BY <2>1, <3>1 DEF Ordered
    <3>4. Len(batch) >= 1
      <4>1. next \in 1 .. Len(Policies)
        BY <3>1 DEF Batched, TypeOK
      <4>2. Policies[next].batch \in Nat \ {0}
        BY <4>1, PolicyAt
      <4> QED
        BY <3>1, <4>2 DEF Batched
    <3>5. Sorted(pages', turns, clock)
      BY <2>2, <2>5, <3>2, <3>3, <3>4, SummarySorted
    <3>6. Sorted(pages', turns, clock')
      BY <2>5, <3>1, <3>5, SortedLater
    <3> QED
      BY <2>6, <3>1, <3>6
  <2>12. CASE Send
    <3>1. Sorted(pages', turns, clock')
      BY <2>2, <2>12, SendSorted
    <3> QED
      BY <2>6, <2>12, <3>1 DEF Send, convVars
  <2>13. CASE Reply
    <3>1. Sorted(pages', turns', clock')
      BY <2>2, <2>13, ReplySorted
    <3> QED
      BY <2>6, <2>13, <3>1 DEF Reply
  <2>14. CASE SummaryFails \/ ChatFails
    <3>1. UNCHANGED <<pages, turns, clock>> /\ at' = "failed"
      BY <2>14 DEF SummaryFails, ChatFails, convVars
    <3> QED
      BY <2>2, <2>6, <3>1
  <2> QED
    BY <1>1, <1>3, <2>3, <2>7, <2>8, <2>9, <2>10, <2>11, <2>12, <2>13, <2>14 DEF Next, Pager
<1> QED
  BY <1>2, <1>3

\* The loop gives up only after a whole round in vain.
LEMMA LoopStep ==
    ASSUME LargeBatches, PagerInv, Tried, FitsOrStuck, Next
    PROVE  Tried' /\ FitsOrStuck'
<1> USE DEF PagerInv
<1>0. Len(Policies) \in Nat /\ DOMAIN Policies = 1 .. Len(Policies)
      /\ next \in 1 .. Len(Policies) + 1
  BY PagerAssumption DEF TypeOK
<1>1. ASSUME Evictable' = Evictable, Unsummarized' = Unsummarized, remaining' = remaining,
             NEW p, Stuck(p)
      PROVE  Stuck(p)'
  BY <1>1 DEF Stuck
<1>2. ASSUME UNCHANGED <<pages, remaining>>, NEW p, Stuck(p) PROVE Stuck(p)'
  BY <1>1, <1>2 DEF Evictable, Unsummarized
<1>3. ASSUME next' = 1 PROVE Tried'
  <2>1. 1 .. next' - 1 = {}
    BY <1>3
  <2> QED
    BY <2>1 DEF Tried
<1>4. ASSUME FreedNothing, at = "evict", next <= Len(Policies), Stuck(Policies[next]),
             UNCHANGED <<pages, remaining, disturbed>>
      PROVE  Tried'
  <2> SUFFICES ASSUME ~disturbed, NEW i \in 1 .. next' - 1 PROVE Stuck(Policies[i])'
    BY <1>4 DEF Tried
  <2>1. next' = next + 1
    BY <1>4 DEF FreedNothing
  <2>2. i \in 1 .. next - 1 \/ i = next
    BY <1>0, <2>1
  <2>3. Stuck(Policies[i])
    BY <1>4, <2>2 DEF Tried
  <2> QED
    BY <1>2, <1>4, <2>3
<1>5. CASE Assemble
  BY <1>3, <1>5 DEF Assemble, FitsOrStuck
<1>6. CASE EvictLru
  <2>1. /\ at = "evict" /\ at' = at /\ next <= Len(Policies)
        /\ Policies[next].kind = "lru" /\ UNCHANGED <<remaining, disturbed>>
        /\ \/ Freed
           \/ /\ FreedNothing /\ UNCHANGED pages
              /\ Cardinality(Evictable) <= Policies[next].keep
    BY <1>6 DEF EvictLru, Trying, quotaVars, swapInVars
  <2>2. Tried'
    BY <1>3, <1>4, <2>1 DEF Freed, Stuck
  <2> QED
    BY <2>1, <2>2 DEF FitsOrStuck
<1>7. CASE EvictSwap
  <2>1. /\ at = "evict" /\ at' = at /\ next <= Len(Policies)
        /\ Policies[next].kind = "swap" /\ UNCHANGED <<remaining, disturbed>>
        /\ \/ Freed
           \/ /\ FreedNothing /\ UNCHANGED pages
              /\ Cardinality(Evictable) <= Policies[next].keep
    BY <1>7 DEF EvictSwap, Trying, quotaVars, swapInVars
  <2>2. Tried'
    BY <1>3, <1>4, <2>1 DEF Freed, Stuck
  <2> QED
    BY <2>1, <2>2 DEF FitsOrStuck
<1>8. CASE EvictSummarize
  <2>1. /\ at = "evict" /\ next <= Len(Policies)
        /\ Policies[next].kind = "summarize" /\ UNCHANGED <<pages, disturbed>>
        /\ \/ at' = "summarize"
           \/ /\ FreedNothing /\ UNCHANGED <<remaining, at>>
              /\ Cardinality(Unsummarized) < Policies[next].batch \/ remaining < 1
    BY <1>8 DEF EvictSummarize, Exhausted, Trying, quotaVars, swapInVars
  <2>2. CASE at' = "summarize"
    BY <2>2 DEF Tried, FitsOrStuck
  <2>3. CASE at' # "summarize"
    <3>1. Tried'
      BY <1>4, <2>1, <2>3 DEF Stuck
    <3> QED
      BY <2>1, <2>3, <3>1 DEF FitsOrStuck
  <2> QED
    BY <2>2, <2>3
<1>9. CASE SummaryReturns
  <2>1. at = "summarize" /\ at' = "evict"
    BY <1>9 DEF SummaryReturns
  <2>2. Len(batch) > 1
    <3>1. next \in DOMAIN Policies /\ Policies[next].kind = "summarize"
          /\ Len(batch) = Policies[next].batch
      BY <1>0, <2>1 DEF Batched
    <3>2. Policies[next].batch >= 2 /\ Policies[next].batch \in Nat
      BY <1>0, <3>1, PolicyAt DEF LargeBatches
    <3> QED
      BY <3>1, <3>2
  <2>3. next' = 1
    BY <1>9, <2>2 DEF SummaryReturns, Freed
  <2> QED
    BY <1>3, <2>1, <2>3 DEF FitsOrStuck
<1>10. CASE Send
  <2>1. /\ pages \in Seq(Page) /\ pages' \in Seq(Page) /\ Len(pages') = Len(pages)
        /\ \A i \in 1 .. Len(pages) :
              /\ pages'[i].tokens = pages[i].tokens /\ pages'[i].pinned = pages[i].pinned
              /\ pages'[i].summarized = pages[i].summarized
    BY <1>10, SendEffect DEF TypeOK
  <2>2. Evictable' = Evictable /\ Unsummarized' = Unsummarized
    <3>1. DOMAIN pages = 1 .. Len(pages) /\ DOMAIN pages' = 1 .. Len(pages)
      BY <2>1
    <3> QED
      BY <2>1, <3>1 DEF Evictable, Unsummarized
  <2>3. Size' = Size
    <3>1. \A i \in 1 .. Len(pages) : PageTokens(pages'[i]) = PageTokens(pages[i])
      BY <2>1 DEF PageTokens
    <3>2. SizeOf(pages') = SizeOf(pages)
      BY <2>1, <3>1, SizeByTokens
    <3> QED
      BY <3>2 DEF Size
  <2>4. /\ UNCHANGED <<remaining, turns, born, next, guard, disturbed>>
        /\ at = "evict" /\ at' = "chat" /\ (~Over \/ guard = 0 \/ next > Len(Policies))
    BY <1>10 DEF Send, quotaVars, convVars, loopVars, swapInVars
  <2>5. Over' = Over
    BY <2>3, <2>4 DEF Over
  <2>6. ASSUME ~disturbed, next > Len(Policies), NEW i \in DOMAIN Policies
        PROVE  Stuck(Policies[i])'
    <3>1. i \in 1 .. next - 1
      BY <1>0, <2>6
    <3>2. Stuck(Policies[i])
      BY <2>4, <2>6, <3>1 DEF Tried
    <3> QED
      BY <1>1, <2>2, <2>4, <3>2
  <2>7. FitsOrStuck'
    BY <2>4, <2>5, <2>6 DEF FitsOrStuck
  <2> QED
    BY <2>4, <2>7 DEF Tried
<1>11. CASE SwapIn
  <2>1. UNCHANGED <<pages, remaining, turns, born, next, guard, disturbed, at>>
    BY <1>11 DEF SwapIn, quotaVars, convVars, loopVars
  <2>2. Over' = Over
    BY <2>1 DEF Over, Size
  <2>3. Tried'
    BY <1>2, <2>1 DEF Tried
  <2>4. FitsOrStuck'
    BY <1>2, <2>1, <2>2 DEF FitsOrStuck
  <2> QED
    BY <2>3, <2>4
<1>12. CASE RestorePage
  BY <1>12 DEF RestorePage, Tried, FitsOrStuck
<1>13. CASE SummaryFails \/ Reply \/ ChatFails \/ Reboot
  BY <1>13 DEF SummaryFails, Reply, ChatFails, Reboot, Tried, FitsOrStuck
<1> QED
  BY <1>5, <1>6, <1>7, <1>8, <1>9, <1>10, <1>11, <1>12, <1>13 DEF Next, Pager

(***************************************************************************)
(* The theorems                                                            *)
(***************************************************************************)
\* The invariant depends on the variables only.
LEMMA PagerInvStutters ==
    ASSUME PagerInv, UNCHANGED vars
    PROVE  PagerInv'
<1> USE DEF PagerInv, vars, quotaVars, convVars, loopVars, swapInVars
<1>1. TypeOK' /\ Counters' /\ SummariesPaid'
  BY DEF TypeOK, QuotaTypeOK, Counters, SummariesPaid
<1>2. Batched' /\ PromptKept'
  BY DEF Batched, PromptKept
<1>3. Covered'
  BY DEF Covered, InFiles
<1>4. Ordered'
  BY DEF Ordered
<1> QED
  BY <1>1, <1>2, <1>3, <1>4

\* Every step keeps the invariant.
LEMMA PagerInvStep ==
    ASSUME PagerInv, [Next]_vars
    PROVE  PagerInv'
<1>1. CASE Next
  <2>1. TypeOK' /\ Counters' /\ SummariesPaid'
    BY <1>1, TypesStep
  <2>2. Batched' /\ PromptKept' /\ Covered' /\ Ordered'
    BY <1>1, <2>1, BatchedStep, PromptStep, CoveredStep, OrderedStep
  <2> QED
    BY <2>1, <2>2 DEF PagerInv
<1>2. CASE UNCHANGED vars
  BY <1>2, PagerInvStutters
<1> QED
  BY <1>1, <1>2

\* The inductive invariant holds throughout.
LEMMA PagerInvHolds == Spec => []PagerInv
<1>1. Init => PagerInv
  BY PagerInvInit
<1>2. PagerInv /\ [Next]_vars => PagerInv'
  BY PagerInvStep
<1> QED
  BY <1>1, <1>2, PTL DEF Spec

\* The context, the swap files and the locals of assemble() keep to their domains.
THEOREM PagerTypeCorrect == Spec => []TypeOK
<1>1. PagerInv => TypeOK
  BY DEF PagerInv
<1> QED
  BY <1>1, PagerInvHolds, PTL

\* No turn of a conversation is lost by swapping and summarizing, for any list of
\* policies and any length of the conversation, and the pinned prompt is sent
\* with every call.
THEOREM TurnsAreKept == Spec => []NothingVanishes
<1>1. PagerInv => NothingVanishes
  BY DEF PagerInv, NothingVanishes, Covered, PromptKept, InFiles
<1> QED
  BY <1>1, PagerInvHolds, PTL

\* Until swap_in() is called the context tells the turns in their order.
THEOREM TurnsStayInOrder == Spec => []InTurnOrder
<1>1. PagerInv => InTurnOrder
  <2> SUFFICES ASSUME PagerInv, swapIns = 0,
                      NEW i \in DOMAIN pages, NEW j \in DOMAIN pages, i < j
               PROVE  \A t \in pages[i].turns, u \in pages[j].turns : t < u
    BY DEF InTurnOrder
  <2>1. DOMAIN pages = 1 .. Len(pages)
    BY DEF PagerInv, TypeOK
  <2>2. Follows(pages[i], pages[j])
    BY <2>1 DEF PagerInv, Ordered, Sorted
  <2> QED
    BY <2>2 DEF Follows
<1> QED
  BY <1>1, PagerInvHolds, PTL

\* Each summary costs the OS one unit of its budget, a failed one none.
THEOREM EverySummaryPaid == Spec => []SummariesPaid
<1>1. PagerInv => SummariesPaid
  BY DEF PagerInv
<1> QED
  BY <1>1, PagerInvHolds, PTL

\* Messages over budget are sent only when no policy can free anything or the
\* guard is used up, for every list of policies whose summaries replace at least
\* two pages, as the default of four does.
THEOREM LoopGivesUpLast ==
    ASSUME LargeBatches
    PROVE  Spec => []FitsOrStuck
<1>1. Init => Tried /\ FitsOrStuck
  BY DEF Init, Tried, FitsOrStuck
<1>2. PagerInv /\ Tried /\ FitsOrStuck /\ [Next]_vars => Tried' /\ FitsOrStuck'
  <2> SUFFICES ASSUME PagerInv, Tried, FitsOrStuck, [Next]_vars
               PROVE  Tried' /\ FitsOrStuck'
    OBVIOUS
  <2>1. CASE Next
    BY <2>1, LoopStep
  <2>2. CASE UNCHANGED vars
    BY <2>2 DEF Tried, FitsOrStuck, Stuck, Over, Size, Evictable, Unsummarized, vars,
                quotaVars, convVars, loopVars, swapInVars
  <2> QED
    BY <2>1, <2>2
<1> QED
  BY <1>1, <1>2, PagerInvHolds, PTL DEF Spec
=============================================================================
