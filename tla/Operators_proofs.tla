-------------------------- MODULE Operators_proofs --------------------------
(***************************************************************************)
(* What the operators without a state do, whatever they are given:         *)
(* Selection's with every sequence, Framing's with any bytes, Escapes'     *)
(* with any bytes that are shown.  The proofs are by induction, in the     *)
(* form of the least counterexample; that a recursive definition has a     *)
(* function at all is shown once, in RecursionExists.                      *)
(***************************************************************************)
EXTENDS Selection, Framing, Escapes, WellFoundedInduction, FiniteSetTheorems, TLAPS

\* A set of natural numbers that is not empty has a least element.
LEMMA LeastOf ==
  ASSUME NEW T \in SUBSET Nat, T # {}
  PROVE  \E least \in T : \A n \in T : least <= n
<1>. DEFINE R == {pair \in Nat \X Nat : pair[1] < pair[2]}
<1>1. IsWellFoundedOn(R, Nat)
  BY NatLessThanWellFounded DEF OpToRel
<1>2. \A m, n \in Nat : <<n, m>> \notin R => m <= n
  OBVIOUS
<1>. HIDE DEF R
<1>3. PICK least \in T : \A n \in T : <<n, least>> \notin R
  BY <1>1, WFMin
<1>. QED  BY <1>2, <1>3

\* Induction over the natural numbers up to n, for the set of those for which
\* something holds.
LEMMA UpTo ==
  ASSUME NEW n \in Nat, NEW T, 0 \in T,
         \A i \in 1..n : i - 1 \in T => i \in T
  PROVE  \A i \in 0..n : i \in T
<1>. DEFINE Bad == {i \in 0..n : i \notin T}
<1>. SUFFICES ASSUME Bad # {} PROVE FALSE
  OBVIOUS
<1>1. Bad \in SUBSET Nat
  OBVIOUS
<1>. HIDE DEF Bad
<1>2. PICK i \in Bad : \A j \in Bad : i <= j
  BY <1>1, LeastOf
<1>. USE DEF Bad
<1>3. i \in 1..n /\ i \notin T
  BY <1>2
<1>4. i - 1 \in T
  BY <1>2, <1>3
<1>. QED  BY <1>3, <1>4
----------------------------------------------------------------------------
\* What Kept's function has at one position, after what it has before it.
KeptStep(before, e, S) == IF e \in S THEN Append(before, e) ELSE before

\* g is Kept's function, up to n.
KeptRun(g, s, S, n) ==
  g = [i \in 0..n |-> IF i = 0 THEN <<>>
                      ELSE IF s[i] \in S THEN Append(g[i - 1], s[i]) ELSE g[i - 1]]

\* The run, position by position.
LEMMA RunSteps ==
  ASSUME NEW s, NEW S, NEW n \in Nat, NEW g, KeptRun(g, s, S, n)
  PROVE  g[0] = <<>> /\ \A i \in 1..n : g[i] = KeptStep(g[i - 1], s[i], S)
<1>. DEFINE body(i) == IF i = 0 THEN <<>>
                       ELSE IF s[i] \in S THEN Append(g[i - 1], s[i]) ELSE g[i - 1]
<1>1. g = [i \in 0..n |-> body(i)]
  BY DEF KeptRun
<1>2. body(0) = <<>> /\ \A i \in 1..n : body(i) = KeptStep(g[i - 1], s[i], S)
  BY DEF KeptStep
<1>3. 0 \in 0..n /\ \A i \in 1..n : i \in 0..n
  OBVIOUS
<1>. HIDE DEF body
<1>4. \A i \in 0..n : g[i] = body(i)
  BY <1>1
<1>. QED  BY <1>2, <1>3, <1>4

\* The steps, taken together, are a run.
LEMMA StepsRun ==
  ASSUME NEW s, NEW S, NEW n \in Nat, NEW g,
         g = [i \in 0..n |-> g[i]],
         g[0] = <<>>, \A i \in 1..n : g[i] = KeptStep(g[i - 1], s[i], S)
  PROVE  KeptRun(g, s, S, n)
<1>. DEFINE body(i) == IF i = 0 THEN <<>>
                       ELSE IF s[i] \in S THEN Append(g[i - 1], s[i]) ELSE g[i - 1]
<1>1. body(0) = <<>> /\ \A i \in 1..n : body(i) = KeptStep(g[i - 1], s[i], S)
  BY DEF KeptStep
<1>2. \A i \in 0..n : i = 0 \/ i \in 1..n
  OBVIOUS
<1>3. ASSUME g = [i \in 0..n |-> body(i)] PROVE KeptRun(g, s, S, n)
  BY <1>3 DEF KeptRun
<1>. HIDE DEF body
<1>4. \A i \in 0..n : g[i] = body(i)
  BY <1>1, <1>2
<1>. QED  BY <1>3, <1>4

\* The recursion defines a function.
LEMMA RunExists ==
  ASSUME NEW s, NEW S, NEW n \in Nat
  PROVE  \E g : KeptRun(g, s, S, n)
<1>. DEFINE T == {m \in Nat : \E g : KeptRun(g, s, S, m)}
<1>1. 0 \in T
  <2>1. KeptRun([i \in 0..0 |-> <<>>], s, S, 0)
    BY DEF KeptRun
  <2>. QED  BY <2>1
<1>2. ASSUME NEW m \in 1..n, m - 1 \in T PROVE m \in T
  <2>1. PICK g : KeptRun(g, s, S, m - 1)
    BY <1>2
  <2>2. m - 1 \in Nat
    OBVIOUS
  <2>8. /\ g[0] = <<>>
        /\ \A i \in 1..m - 1 : g[i] = KeptStep(g[i - 1], s[i], S)
    BY <2>1, <2>2, RunSteps
  <2>. DEFINE h == [i \in 0..m |-> IF i < m THEN g[i] ELSE KeptStep(g[m - 1], s[m], S)]
  <2>3. \A i \in 0..m - 1 : h[i] = g[i]
    OBVIOUS
  <2>4. h[m] = KeptStep(g[m - 1], s[m], S) /\ h = [i \in 0..m |-> h[i]]
    OBVIOUS
  <2>. HIDE DEF h
  <2>5. h[0] = <<>>
    BY <2>8, <2>3
  <2>6. \A i \in 1..m : h[i] = KeptStep(h[i - 1], s[i], S)
    <3>. TAKE i \in 1..m
    <3>1. CASE i = m
      <4>1. h[m - 1] = g[m - 1]
        BY <2>3
      <4>. QED  BY <3>1, <4>1, <2>4
    <3>2. CASE i # m
      <4>1. i \in 1..m - 1 /\ i \in 0..m - 1 /\ i - 1 \in 0..m - 1
        BY <3>2
      <4>. QED  BY <4>1, <2>8, <2>3
    <3>. QED  BY <3>1, <3>2
  <2>9. m \in Nat
    OBVIOUS
  <2>7. KeptRun(h, s, S, m)
    BY <2>4, <2>5, <2>6, <2>9, StepsRun
  <2>. QED  BY <2>7
<1>. HIDE DEF T
<1>3. n \in T
  BY <1>1, <1>2, UpTo
<1>. QED  BY <1>3 DEF T

\* Kept is what the run comes to.
LEMMA KeptRuns ==
  ASSUME NEW X, NEW s \in Seq(X), NEW S
  PROVE  \E g : /\ g[0] = <<>>
                /\ \A i \in 1..Len(s) : g[i] = KeptStep(g[i - 1], s[i], S)
                /\ Kept(s, S) = g[Len(s)]
<1>1. Len(s) \in Nat
  OBVIOUS
<1>. DEFINE g == CHOOSE g : KeptRun(g, s, S, Len(s))
<1>2. KeptRun(g, s, S, Len(s))
  BY <1>1, RunExists
<1>3. Kept(s, S) = g[Len(s)]
  BY DEF Kept, KeptRun
<1>. HIDE DEF g
<1>4. g[0] = <<>> /\ \A i \in 1..Len(s) : g[i] = KeptStep(g[i - 1], s[i], S)
  BY <1>1, <1>2, RunSteps
<1>. QED  BY <1>3, <1>4

\* f tells where in the first n elements of s those of k come from.
PickedBy(f, k, s, S, n) ==
  /\ Len(k) <= n
  /\ f \in [1..Len(k) -> 1..n]
  /\ \A a, b \in 1..Len(k) : a < b => f[a] < f[b]
  /\ \A a \in 1..Len(k) : k[a] = s[f[a]] /\ k[a] \in S
  /\ \A p \in 1..n : s[p] \in S => \E a \in 1..Len(k) : f[a] = p

\* One more position of s.
LEMMA PicksMore ==
  ASSUME NEW X, NEW s \in Seq(X), NEW S, NEW n \in 1..Len(s), NEW k \in Seq(X),
         NEW f, PickedBy(f, k, s, S, n - 1)
  PROVE  /\ KeptStep(k, s[n], S) \in Seq(X)
         /\ \E h : PickedBy(h, KeptStep(k, s[n], S), s, S, n)
<1>1. s[n] \in X /\ Len(k) \in Nat /\ n \in Nat /\ n - 1 \in Nat
  OBVIOUS
<1>2. CASE s[n] \notin S
  <2>1. KeptStep(k, s[n], S) = k
    BY <1>2 DEF KeptStep
  <2>2. Len(k) <= n /\ f \in [1..Len(k) -> 1..n]
    BY <1>1 DEF PickedBy
  <2>3. \A p \in 1..n : p = n \/ p \in 1..n - 1
    BY <1>1
  <2>4. \A p \in 1..n : s[p] \in S => \E a \in 1..Len(k) : f[a] = p
    BY <2>3, <1>2 DEF PickedBy
  <2>5. PickedBy(f, k, s, S, n)
    BY <2>2, <2>4 DEF PickedBy
  <2>. QED  BY <2>1, <2>5
<1>3. CASE s[n] \in S
  <2>. DEFINE l == Append(k, s[n])
              h == [a \in 1..Len(k) + 1 |-> IF a <= Len(k) THEN f[a] ELSE n]
  <2>1. KeptStep(k, s[n], S) = l
    BY <1>3 DEF KeptStep
  <2>2. /\ l \in Seq(X) /\ Len(l) = Len(k) + 1
        /\ \A a \in 1..Len(k) : l[a] = k[a]
        /\ l[Len(k) + 1] = s[n]
    BY <1>1
  <2>. HIDE DEF l
  <2>3. \A a \in 1..Len(k) : f[a] \in 1..n - 1
    BY DEF PickedBy
  <2>4. \A a \in 1..Len(l) : a = Len(k) + 1 \/ a \in 1..Len(k)
    BY <1>1, <2>2
  <2>5. /\ \A a \in 1..Len(k) : h[a] = f[a]
        /\ h[Len(k) + 1] = n
        /\ h \in [1..Len(l) -> 1..n]
    BY <1>1, <2>2, <2>3
  <2>. HIDE DEF h
  <2>6. \A a, b \in 1..Len(l) : a < b => h[a] < h[b]
    <3>. TAKE a, b \in 1..Len(l)
    <3>. HAVE a < b
    <3>1. a \in 1..Len(k)
      BY <1>1, <2>2
    <3>2. CASE b \in 1..Len(k)
      BY <3>1, <3>2, <2>5 DEF PickedBy
    <3>3. CASE b = Len(k) + 1
      BY <3>1, <3>3, <2>5, <2>3, <1>1
    <3>. QED  BY <3>2, <3>3, <2>4
  <2>7. \A a \in 1..Len(l) : l[a] = s[h[a]] /\ l[a] \in S
    <3>. TAKE a \in 1..Len(l)
    <3>1. CASE a \in 1..Len(k)
      BY <3>1, <2>2, <2>5 DEF PickedBy
    <3>2. CASE a = Len(k) + 1
      BY <3>2, <2>2, <2>5, <1>3
    <3>. QED  BY <3>1, <3>2, <2>4
  <2>8. \A p \in 1..n : s[p] \in S => \E a \in 1..Len(l) : h[a] = p
    <3>. TAKE p \in 1..n
    <3>. HAVE s[p] \in S
    <3>1. CASE p = n
      BY <3>1, <2>2, <2>5, <1>1
    <3>2. CASE p # n
      <4>1. p \in 1..n - 1
        BY <3>2, <1>1
      <4>2. PICK a \in 1..Len(k) : f[a] = p
        BY <4>1 DEF PickedBy
      <4>3. a \in 1..Len(l) /\ h[a] = p
        BY <4>2, <2>2, <2>5, <1>1
      <4>. QED  BY <4>3
    <3>. QED  BY <3>1, <3>2
  <2>10. Len(l) <= n
    BY <1>1, <2>2 DEF PickedBy
  <2>9. PickedBy(h, l, s, S, n)
    BY <2>10, <2>5, <2>6, <2>7, <2>8 DEF PickedBy
  <2>. QED  BY <2>1, <2>2, <2>9
<1>. QED  BY <1>2, <1>3

\* What is kept is a part of the sequence, in its order, with all that is in
\* the set.
LEMMA KeptPicks ==
  ASSUME NEW X, NEW s \in Seq(X), NEW S
  PROVE  /\ Kept(s, S) \in Seq(X)
         /\ \E f : PickedBy(f, Kept(s, S), s, S, Len(s))
<1>1. PICK g : /\ g[0] = <<>>
               /\ \A i \in 1..Len(s) : g[i] = KeptStep(g[i - 1], s[i], S)
               /\ Kept(s, S) = g[Len(s)]
  BY KeptRuns
<1>. DEFINE T == {i \in 0..Len(s) : g[i] \in Seq(X) /\ \E f : PickedBy(f, g[i], s, S, i)}
<1>2. Len(s) \in Nat
  OBVIOUS
<1>3. 0 \in T
  <2>1. PickedBy(<<>>, <<>>, s, S, 0)
    BY DEF PickedBy
  <2>2. <<>> \in Seq(X)
    OBVIOUS
  <2>3. g[0] \in Seq(X) /\ \E f : PickedBy(f, g[0], s, S, 0)
    BY <1>1, <2>1, <2>2, Zenon
  <2>4. 0 \in 0..Len(s)
    BY <1>2
  <2>. QED  BY <2>3, <2>4
<1>4. ASSUME NEW n \in 1..Len(s), n - 1 \in T PROVE n \in T
  <2>1. PICK f : PickedBy(f, g[n - 1], s, S, n - 1)
    BY <1>4
  <2>2. g[n] = KeptStep(g[n - 1], s[n], S) /\ n \in 0..Len(s)
    BY <1>1
  <2>. QED  BY <2>1, <2>2, <1>4, PicksMore
<1>. HIDE DEF T
<1>5. Len(s) \in T
  <2>1. \A i \in 0..Len(s) : i \in T
    BY <1>2, <1>3, <1>4, UpTo, Zenon
  <2>. QED  BY <1>2, <2>1
<1>. QED  BY <1>1, <1>5 DEF T

\* What is kept are the elements that are in the set, and no more of them
\* than there were.
LEMMA KeptElements ==
  ASSUME NEW X, NEW s \in Seq(X), NEW S
  PROVE  /\ Kept(s, S) \in Seq(X)
         /\ Len(Kept(s, S)) <= Len(s)
         /\ ToSet(Kept(s, S)) = ToSet(s) \cap S
<1>. DEFINE k == Kept(s, S)
<1>1. k \in Seq(X) /\ \E f : PickedBy(f, k, s, S, Len(s))
  BY KeptPicks
<1>. HIDE DEF k
<1>2. PICK f : PickedBy(f, k, s, S, Len(s))
  BY <1>1
<1>3. DOMAIN k = 1..Len(k) /\ DOMAIN s = 1..Len(s)
  BY <1>1
<1>4. \A a \in DOMAIN k : k[a] \in ToSet(s) \cap S
  BY <1>2, <1>3 DEF PickedBy, ToSet
<1>5. ASSUME NEW p \in DOMAIN s, s[p] \in S PROVE s[p] \in ToSet(k)
  <2>1. PICK a \in 1..Len(k) : f[a] = p
    BY <1>2, <1>3, <1>5 DEF PickedBy
  <2>2. k[a] = s[p]
    BY <1>2, <2>1 DEF PickedBy
  <2>. QED  BY <2>1, <2>2, <1>3 DEF ToSet
<1>6. ToSet(k) = ToSet(s) \cap S
  BY <1>4, <1>5 DEF ToSet
<1>7. Len(k) <= Len(s)
  BY <1>2 DEF PickedBy
<1>. QED  BY <1>1, <1>6, <1>7 DEF k

\* What is kept of an ascending sequence is ascending.
LEMMA KeptIncreases ==
  ASSUME NEW s \in Seq(Int), NEW S, Ascending(s)
  PROVE  Ascending(Kept(s, S))
<1>. DEFINE k == Kept(s, S)
<1>1. k \in Seq(Int) /\ \E f : PickedBy(f, k, s, S, Len(s))
  BY KeptPicks
<1>. HIDE DEF k
<1>2. PICK f : PickedBy(f, k, s, S, Len(s))
  BY <1>1
<1>3. DOMAIN k = 1..Len(k) /\ DOMAIN s = 1..Len(s)
  BY <1>1
<1>4. ASSUME NEW a \in DOMAIN k, NEW b \in DOMAIN k, a < b PROVE k[a] < k[b]
  <2>1. f[a] \in 1..Len(s) /\ f[b] \in 1..Len(s) /\ f[a] < f[b] /\ k[a] = s[f[a]] /\ k[b] = s[f[b]]
    BY <1>2, <1>3, <1>4 DEF PickedBy
  <2>. QED  BY <2>1, <1>3 DEF Ascending, IsSorted
<1>5. Ascending(k)
  BY <1>4 DEF Ascending, IsSorted
<1>. QED  BY <1>5 DEF k

\* One more element, and a set that is the same as far as the others go.
LEMMA KeptAppended ==
  ASSUME NEW X, NEW s \in Seq(X), NEW e \in X, NEW S, NEW R,
         \A x \in ToSet(s) : x \in S <=> x \in R
  PROVE  Kept(Append(s, e), R) = KeptStep(Kept(s, S), e, R)
<1>. DEFINE t == Append(s, e)
            n == Len(s)
<1>1. /\ t \in Seq(X) /\ Len(t) = n + 1 /\ n \in Nat
      /\ \A i \in 1..n : t[i] = s[i]
      /\ t[n + 1] = e
  OBVIOUS
<1>. HIDE DEF t, n
<1>2. PICK g : /\ g[0] = <<>>
               /\ \A i \in 1..n : g[i] = KeptStep(g[i - 1], s[i], S)
               /\ Kept(s, S) = g[n]
  BY KeptRuns DEF n
<1>3. PICK h : /\ h[0] = <<>>
               /\ \A i \in 1..Len(t) : h[i] = KeptStep(h[i - 1], t[i], R)
               /\ Kept(t, R) = h[Len(t)]
  BY <1>1, KeptRuns
<1>4. \A i \in 1..n : s[i] \in S <=> s[i] \in R
  <2>1. \A i \in 1..n : s[i] \in ToSet(s)
    BY DEF ToSet, n
  <2>. QED  BY <2>1
<1>. DEFINE T == {i \in 0..n : h[i] = g[i]}
<1>5. 0 \in T
  BY <1>1, <1>2, <1>3
<1>6. ASSUME NEW i \in 1..n, i - 1 \in T PROVE i \in T
  <2>1. h[i - 1] = g[i - 1]
    BY <1>6
  <2>2. i \in 1..Len(t) /\ i \in 0..n
    BY <1>1
  <2>3. h[i] = KeptStep(h[i - 1], s[i], R) /\ g[i] = KeptStep(g[i - 1], s[i], S)
    BY <1>1, <1>2, <1>3, <2>2
  <2>4. h[i] = g[i]
    BY <2>1, <2>3, <1>4 DEF KeptStep
  <2>. QED  BY <2>2, <2>4
<1>. HIDE DEF T
<1>7. n \in T
  <2>1. \A i \in 0..n : i \in T
    BY <1>1, <1>5, <1>6, UpTo, Zenon
  <2>. QED  BY <1>1, <2>1
<1>8. h[n] = g[n]
  BY <1>7 DEF T
<1>9. h[n + 1] = KeptStep(h[n], e, R)
  <2>1. n + 1 \in 1..Len(t) /\ (n + 1) - 1 = n
    BY <1>1
  <2>. QED  BY <1>1, <1>3, <2>1
<1>. QED  BY <1>1, <1>2, <1>3, <1>8, <1>9 DEF t

\* No element of an ascending sequence is there twice.
LEMMA AscendingIsInjective ==
  ASSUME NEW s \in Seq(Int), Ascending(s)
  PROVE  IsInjective(s)
<1>1. DOMAIN s = 1..Len(s) /\ \A i \in 1..Len(s) : s[i] \in Int
  OBVIOUS
<1>2. ASSUME NEW i \in 1..Len(s), NEW j \in 1..Len(s), s[i] = s[j]
      PROVE  i = j
  <2>1. ~(i < j) /\ ~(j < i)
    BY <1>1, <1>2 DEF Ascending, IsSorted
  <2>. QED  BY <2>1
<1>. QED  BY <1>1, <1>2 DEF IsInjective

\* Two ascending sequences, the first below the second, are one.
LEMMA AscendingTogether ==
  ASSUME NEW s \in Seq(Int), NEW t \in Seq(Int), Ascending(s), Ascending(t),
         \A x \in ToSet(s), y \in ToSet(t) : x < y
  PROVE  Ascending(s \o t)
<1>1. /\ DOMAIN s = 1..Len(s) /\ DOMAIN t = 1..Len(t)
      /\ Len(s) \in Nat /\ Len(t) \in Nat /\ Len(s \o t) = Len(s) + Len(t)
      /\ \A i \in 1..Len(s) : (s \o t)[i] = s[i] /\ s[i] \in Int
      /\ \A i \in 1..Len(s) + Len(t) : i > Len(s) => (s \o t)[i] = t[i - Len(s)]
  OBVIOUS
<1>2. \A i \in 1..Len(s), j \in 1..Len(t) : s[i] < t[j]
  BY <1>1 DEF ToSet
<1>. SUFFICES ASSUME NEW i \in 1..Len(s) + Len(t), NEW j \in 1..Len(s) + Len(t), i < j
              PROVE  (s \o t)[i] < (s \o t)[j]
  BY <1>1 DEF Ascending, IsSorted
<1>3. CASE j <= Len(s)
  <2>1. i \in 1..Len(s) /\ j \in 1..Len(s)
    BY <1>1, <1>3
  <2>. QED  BY <1>1, <2>1 DEF Ascending, IsSorted
<1>4. CASE i <= Len(s) /\ j > Len(s)
  <2>1. i \in 1..Len(s) /\ j - Len(s) \in 1..Len(t)
    BY <1>1, <1>4
  <2>. QED  BY <1>1, <1>2, <1>4, <2>1
<1>5. CASE i > Len(s)
  <2>1. i - Len(s) \in 1..Len(t) /\ j - Len(s) \in 1..Len(t) /\ j > Len(s)
        /\ i - Len(s) < j - Len(s)
    BY <1>1, <1>5
  <2>2. t[i - Len(s)] < t[j - Len(s)]
    BY <2>1 DEF Ascending, IsSorted
  <2>. QED  BY <1>1, <1>5, <2>1, <2>2
<1>. QED  BY <1>1, <1>3, <1>4, <1>5

\* What two sequences hold together.
LEMMA ElementsTogether ==
  ASSUME NEW X, NEW s \in Seq(X), NEW t \in Seq(X)
  PROVE  /\ s \o t \in Seq(X) /\ Len(s \o t) = Len(s) + Len(t)
         /\ ToSet(s \o t) = ToSet(s) \cup ToSet(t)
<1>1. /\ DOMAIN s = 1..Len(s) /\ DOMAIN t = 1..Len(t)
      /\ DOMAIN (s \o t) = 1..Len(s) + Len(t)
      /\ Len(s) \in Nat /\ Len(t) \in Nat
      /\ s \o t \in Seq(X) /\ Len(s \o t) = Len(s) + Len(t)
      /\ \A i \in 1..Len(s) : (s \o t)[i] = s[i]
      /\ \A i \in 1..Len(s) + Len(t) : i > Len(s) => (s \o t)[i] = t[i - Len(s)]
  OBVIOUS
<1>2. ASSUME NEW i \in 1..Len(s) + Len(t)
      PROVE  (s \o t)[i] \in ToSet(s) \cup ToSet(t)
  <2>1. i \in 1..Len(s) \/ (i > Len(s) /\ i - Len(s) \in 1..Len(t))
    BY <1>1
  <2>. QED  BY <1>1, <2>1 DEF ToSet
<1>3. ASSUME NEW i \in 1..Len(s) PROVE s[i] \in ToSet(s \o t)
  <2>1. i \in 1..Len(s) + Len(t)
    BY <1>1
  <2>. QED  BY <1>1, <2>1 DEF ToSet
<1>4. ASSUME NEW j \in 1..Len(t) PROVE t[j] \in ToSet(s \o t)
  <2>1. Len(s) + j \in 1..Len(s) + Len(t) /\ Len(s) + j > Len(s) /\ (Len(s) + j) - Len(s) = j
    BY <1>1
  <2>. QED  BY <1>1, <2>1 DEF ToSet
<1>5. ToSet(s \o t) = ToSet(s) \cup ToSet(t)
  <2>1. \A e : e \in ToSet(s \o t) <=> \E i \in 1..Len(s) + Len(t) : (s \o t)[i] = e
    BY <1>1 DEF ToSet
  <2>2. \A e : e \in ToSet(s) \cup ToSet(t) =>
               (\E i \in 1..Len(s) : s[i] = e) \/ (\E j \in 1..Len(t) : t[j] = e)
    BY <1>1 DEF ToSet
  <2>. QED  BY <1>2, <1>3, <1>4, <2>1, <2>2
<1>. QED  BY <1>1, <1>5

\* What has nothing in common, and nothing twice, has nothing twice together.
LEMMA InjectiveTogether ==
  ASSUME NEW X, NEW s \in Seq(X), NEW t \in Seq(X), IsInjective(s), IsInjective(t),
         ToSet(s) \cap ToSet(t) = {}
  PROVE  IsInjective(s \o t)
<1>1. /\ DOMAIN s = 1..Len(s) /\ DOMAIN t = 1..Len(t)
      /\ DOMAIN (s \o t) = 1..Len(s) + Len(t)
      /\ Len(s) \in Nat /\ Len(t) \in Nat
      /\ \A i \in 1..Len(s) : (s \o t)[i] = s[i]
      /\ \A i \in 1..Len(s) + Len(t) : i > Len(s) => (s \o t)[i] = t[i - Len(s)]
  OBVIOUS
<1>2. \A i \in 1..Len(s), j \in 1..Len(t) : s[i] # t[j]
  BY <1>1 DEF ToSet
<1>3. \A i, j \in 1..Len(s) : s[i] = s[j] => i = j
  BY <1>1 DEF IsInjective
<1>4. \A i, j \in 1..Len(t) : t[i] = t[j] => i = j
  BY <1>1 DEF IsInjective
<1>5. ASSUME NEW i \in 1..Len(s) + Len(t), NEW j \in 1..Len(s) + Len(t),
             (s \o t)[i] = (s \o t)[j]
      PROVE  i = j
  <2>1. i \in 1..Len(s) \/ (i > Len(s) /\ i - Len(s) \in 1..Len(t))
    BY <1>1
  <2>2. j \in 1..Len(s) \/ (j > Len(s) /\ j - Len(s) \in 1..Len(t))
    BY <1>1
  <2>3. CASE i \in 1..Len(s) /\ j \in 1..Len(s)
    BY <2>3, <1>1, <1>3, <1>5
  <2>4. CASE i \in 1..Len(s) /\ j > Len(s) /\ j - Len(s) \in 1..Len(t)
    BY <2>4, <1>1, <1>2, <1>5
  <2>5. CASE i > Len(s) /\ i - Len(s) \in 1..Len(t) /\ j \in 1..Len(s)
    BY <2>5, <1>1, <1>2, <1>5
  <2>6. CASE i > Len(s) /\ i - Len(s) \in 1..Len(t) /\ j > Len(s) /\ j - Len(s) \in 1..Len(t)
    <3>1. i - Len(s) = j - Len(s)
      BY <2>6, <1>1, <1>4, <1>5
    <3>. QED  BY <3>1, <1>1
  <2>. QED  BY <2>1, <2>2, <2>3, <2>4, <2>5, <2>6
<1>. QED  BY <1>1, <1>5 DEF IsInjective

-----------------------------------------------------------------------------
\* Recursive definitions.

\* A function that a recursive definition has up to a measure.
Approximates(g, B, m, n) == \A x \in DOMAIN m : m[x] < n => g[x] = B[<<x, g>>]

Recursion(D, V, m, B) ==
  /\ V # {} /\ m \in [D -> Nat] /\ B \in [D \X [D -> V] -> V]
  /\ \A x \in D : \A g, h \in [D -> V] :
       (\A y \in D : m[y] < m[x] => g[y] = h[y]) => B[<<x, g>>] = B[<<x, h>>]

\* A definition that asks only for what is of a lower measure defines a function.
LEMMA RecursionExists ==
  ASSUME NEW D, NEW V, NEW m, NEW B, Recursion(D, V, m, B)
  PROVE  \E g \in [D -> V] : \A x \in D : g[x] = B[<<x, g>>]
<1>. USE DEF Recursion
<1>0. ASSUME NEW n \in Nat, NEW g \in [D -> V], NEW h \in [D -> V],
             Approximates(g, B, m, n), Approximates(h, B, m, n)
      PROVE  \A x \in D : m[x] < n => g[x] = h[x]
  <2>. DEFINE Bad == {x \in D : m[x] < n /\ g[x] # h[x]}
              T == {m[x] : x \in Bad}
  <2>. SUFFICES ASSUME Bad # {} PROVE FALSE
    OBVIOUS
  <2>1. T \in SUBSET Nat /\ T # {}
    <3>1. \A x \in Bad : m[x] \in Nat /\ m[x] \in T
      OBVIOUS
    <3>2. \A t \in T : \E x \in Bad : t = m[x]
      OBVIOUS
    <3>. HIDE DEF T, Bad
    <3>. QED  BY <3>1, <3>2
  <2>. HIDE DEF T
  <2>2. PICK k \in T : \A j \in T : k <= j
    BY <2>1, LeastOf
  <2>3. PICK x \in Bad : k = m[x]
    BY DEF T
  <2>4. \A y \in D : m[y] < m[x] => g[y] = h[y]
    <3>. SUFFICES ASSUME NEW y \in D, m[y] < m[x], g[y] # h[y] PROVE FALSE
      OBVIOUS
    <3>1. m[x] \in Nat /\ m[y] \in Nat /\ m[x] < n
      OBVIOUS
    <3>2. m[y] \in T
      BY <3>1 DEF T
    <3>. QED  BY <2>2, <2>3, <3>1, <3>2
  <2>5. B[<<x, g>>] = B[<<x, h>>]
    BY <2>4
  <2>. QED  BY <1>0, <2>3, <2>5 DEF Approximates
<1>. DEFINE T == {n \in Nat : \E g \in [D -> V] : Approximates(g, B, m, n)}
<1>1. 0 \in T
  <2>1. PICK v \in V : TRUE
    OBVIOUS
  <2>2. [x \in D |-> v] \in [D -> V] /\ \A x \in D : ~(m[x] < 0)
    OBVIOUS
  <2>. QED  BY <2>2 DEF Approximates
<1>2. ASSUME NEW n \in Nat, n > 0, n - 1 \in T PROVE n \in T
  <2>1. PICK g \in [D -> V] : Approximates(g, B, m, n - 1)
    BY <1>2
  <2>. DEFINE h == [x \in D |-> B[<<x, g>>]]
  <2>2. h \in [D -> V] /\ \A x \in D : h[x] = B[<<x, g>>]
    OBVIOUS
  <2>. HIDE DEF h
  <2>3. ASSUME NEW x \in D, m[x] < n PROVE h[x] = B[<<x, h>>]
    <3>1. \A y \in D : m[y] < m[x] => g[y] = h[y]
      <4>. SUFFICES ASSUME NEW y \in D, m[y] < m[x] PROVE g[y] = h[y]
        OBVIOUS
      <4>1. m[y] < n - 1
        <5>1. m[x] \in Nat /\ m[y] \in Nat
          OBVIOUS
        <5>. QED  BY <2>3, <5>1
      <4>. QED  BY <2>1, <2>2, <4>1 DEF Approximates
    <3>2. B[<<x, g>>] = B[<<x, h>>]
      BY <2>2, <3>1
    <3>. QED  BY <2>2, <3>2
  <2>4. Approximates(h, B, m, n)
    BY <2>3 DEF Approximates
  <2>. QED  BY <2>2, <2>4
<1>3. \A n \in Nat : n \in T
  <2>. SUFFICES ASSUME NEW n \in Nat PROVE n \in T
    OBVIOUS
  <2>1. \A i \in 1..n : i - 1 \in T => i \in T
    BY <1>2
  <2>. HIDE DEF T
  <2>2. \A i \in 0..n : i \in T
    BY <1>1, <2>1, UpTo
  <2>. QED  BY <2>2
<1>. DEFINE G == [n \in Nat |-> CHOOSE g \in [D -> V] : Approximates(g, B, m, n)]
<1>4. \A n \in Nat : G[n] \in [D -> V] /\ Approximates(G[n], B, m, n)
  BY <1>3
<1>. HIDE DEF G, T
<1>. DEFINE f == [x \in D |-> G[m[x] + 1][x]]
<1>5. \A x \in D : m[x] \in Nat /\ m[x] + 1 \in Nat /\ m[x] < m[x] + 1
  OBVIOUS
<1>6. f \in [D -> V] /\ \A x \in D : f[x] = G[m[x] + 1][x]
  BY <1>4, <1>5
<1>. HIDE DEF f
<1>7. ASSUME NEW x \in D PROVE f[x] = B[<<x, f>>]
  <2>. DEFINE g == G[m[x] + 1]
  <2>1. g \in [D -> V] /\ Approximates(g, B, m, m[x] + 1)
    BY <1>4, <1>5
  <2>2. ASSUME NEW y \in D, m[y] < m[x] PROVE g[y] = f[y]
    <3>. DEFINE h == G[m[y] + 1]
    <3>1. h \in [D -> V] /\ Approximates(h, B, m, m[y] + 1)
      BY <1>4, <1>5
    <3>2. Approximates(g, B, m, m[y] + 1)
      <4>1. \A z \in D : m[z] < m[y] + 1 => m[z] < m[x] + 1
        BY <1>5, <2>2
      <4>. QED  BY <2>1, <4>1 DEF Approximates
    <3>. HIDE DEF g, h
    <3>3. m[y] + 1 \in Nat /\ g \in [D -> V]
      BY <1>5, <2>1
    <3>4. \A z \in D : m[z] < m[y] + 1 => g[z] = h[z]
      BY <1>0, <3>1, <3>2, <3>3
    <3>. QED  BY <1>5, <1>6, <3>4 DEF h
  <2>. HIDE DEF g
  <2>3. B[<<x, g>>] = B[<<x, f>>]
    BY <1>6, <2>1, <2>2
  <2>. QED  BY <1>5, <1>6, <2>1, <2>3 DEF Approximates, g
<1>. QED  BY <1>6, <1>7

-----------------------------------------------------------------------------
\* Framing: the bytes of numbers.

Continued(v, bytes) == <<(v % 128) + 128>> \o bytes
IsVarint(bytes) ==
  bytes = [v \in Nat |-> IF v < 128 THEN <<v>> ELSE <<(v % 128) + 128>> \o bytes[v \div 128]]

\* A number of more than a byte: seven bits with the top bit set, and the rest.
LEMMA ContinuedIs ==
  ASSUME NEW v \in Nat, NEW bytes \in Seq(Nat)
  PROVE  /\ Continued(v, bytes) \in Seq(Nat) /\ Len(Continued(v, bytes)) = Len(bytes) + 1
         /\ Continued(v, bytes)[1] = (v % 128) + 128
         /\ \A i \in 1..Len(bytes) : Continued(v, bytes)[i + 1] = bytes[i]
<1>1. (v % 128) + 128 \in Nat
  OBVIOUS
<1>. QED  BY <1>1 DEF Continued

\* The bytes of a number: the last is below 128, and is the first that is.
LEMMA VarintIs ==
  \A v \in Nat :
    /\ Varint(v) \in Seq(Nat)
    /\ v < 128 => Varint(v) = <<v>>
    /\ v >= 128 => Varint(v) = Continued(v, Varint(v \div 128))
<1>. DEFINE V == Seq(Nat)
            Alone(v) == <<v>>
            m == [v \in Nat |-> v]
            B == [p \in Nat \X [Nat -> V] |->
                    IF p[1] < 128 THEN Alone(p[1]) ELSE Continued(p[1], p[2][p[1] \div 128])]
<1>1. \A v \in Nat : v \div 128 \in Nat /\ v % 128 \in Nat /\ (v >= 128 => v \div 128 < v)
  OBVIOUS
<1>s. \A v \in Nat : Alone(v) \in V
  OBVIOUS
<1>c. \A v \in Nat : \A s \in V : Continued(v, s) \in V
  BY ContinuedIs
<1>e. V # {}
  <2>1. <<>> \in V
    OBVIOUS
  <2>. QED  BY <2>1
<1>. HIDE DEF Alone, V
<1>2. \A v \in Nat : \A g \in [Nat -> V] :
        B[<<v, g>>] = IF v < 128 THEN Alone(v) ELSE Continued(v, g[v \div 128])
  OBVIOUS
<1>3. B \in [Nat \X [Nat -> V] -> V]
  <2>1. \A v \in Nat : \A g \in [Nat -> V] :
          (IF v < 128 THEN Alone(v) ELSE Continued(v, g[v \div 128])) \in V
    BY <1>1, <1>s, <1>c
  <2>. QED  BY <2>1
<1>4. m \in [Nat -> Nat] /\ \A v \in Nat : m[v] = v
  OBVIOUS
<1>. HIDE DEF B, m
<1>6. \A v \in Nat : \A g, h \in [Nat -> V] :
        (\A y \in Nat : m[y] < m[v] => g[y] = h[y]) => B[<<v, g>>] = B[<<v, h>>]
  <2>. SUFFICES ASSUME NEW v \in Nat, NEW g \in [Nat -> V], NEW h \in [Nat -> V],
                       \A y \in Nat : m[y] < m[v] => g[y] = h[y]
                PROVE  B[<<v, g>>] = B[<<v, h>>]
    OBVIOUS
  <2>1. v >= 128 => g[v \div 128] = h[v \div 128]
    BY <1>1, <1>4
  <2>2. CASE v < 128
    BY <1>2, <2>2
  <2>3. CASE ~(v < 128)
    <3>1. B[<<v, g>>] = Continued(v, g[v \div 128]) /\ B[<<v, h>>] = Continued(v, h[v \div 128])
      BY <1>2, <2>3
    <3>. QED  BY <2>1, <2>3, <3>1
  <2>. QED  BY <2>2, <2>3
<1>7. Recursion(Nat, V, m, B)
  BY <1>e, <1>3, <1>4, <1>6 DEF Recursion
<1>8. PICK f \in [Nat -> V] : \A v \in Nat : f[v] = B[<<v, f>>]
  BY <1>7, RecursionExists
<1>9. IsVarint(f)
  <2>1. f = [v \in Nat |-> IF v < 128 THEN Alone(v) ELSE Continued(v, f[v \div 128])]
    <3>1. f = [v \in Nat |-> f[v]]
      OBVIOUS
    <3>2. \A v \in Nat : f[v] = IF v < 128 THEN Alone(v) ELSE Continued(v, f[v \div 128])
      <4>. SUFFICES ASSUME NEW v \in Nat
                    PROVE  f[v] = IF v < 128 THEN Alone(v) ELSE Continued(v, f[v \div 128])
        OBVIOUS
      <4>1. B[<<v, f>>] = IF v < 128 THEN Alone(v) ELSE Continued(v, f[v \div 128])
        BY <1>2
      <4>. QED  BY <1>8, <4>1
    <3>. HIDE DEF Alone, Continued
    <3>. QED  BY <3>1, <3>2, Zenon
  <2>. QED  BY <2>1 DEF IsVarint, Alone, Continued
<1>. DEFINE c == CHOOSE c : IsVarint(c)
<1>10. IsVarint(c)
  BY <1>9
<1>11. \A v : Varint(v) = c[v]
  BY DEF Varint, IsVarint
<1>. HIDE DEF c
<1>12. c = [v \in Nat |-> IF v < 128 THEN Alone(v) ELSE Continued(v, c[v \div 128])]
  BY <1>10 DEF IsVarint, Alone, Continued
<1>13. \A v \in Nat : /\ v < 128 => c[v] = Alone(v)
                      /\ v >= 128 => c[v] = Continued(v, c[v \div 128])
  BY <1>12
<1>14. \A v \in Nat : c[v] \in V
  <2>. DEFINE Bad == {v \in Nat : c[v] \notin V}
  <2>. SUFFICES ASSUME Bad # {} PROVE FALSE
    OBVIOUS
  <2>1. Bad \in SUBSET Nat
    OBVIOUS
  <2>2. \A v \in Nat : v \in Bad <=> c[v] \notin V
    OBVIOUS
  <2>. HIDE DEF Bad
  <2>3. PICK v \in Bad : \A n \in Bad : v <= n
    BY <2>1, LeastOf
  <2>4. v \in Nat /\ c[v] \notin V
    BY <2>1, <2>2
  <2>5. v >= 128
    BY <1>13, <1>s, <2>4
  <2>6. v \div 128 \in Nat /\ v \div 128 \notin Bad
    BY <1>1, <2>3, <2>4, <2>5
  <2>. QED  BY <1>13, <1>c, <2>2, <2>4, <2>5, <2>6
<1>. QED  BY <1>11, <1>13, <1>14 DEF V, Alone

LEMMA VarintShape ==
  \A v \in Nat :
    /\ Len(Varint(v)) \in Nat \ {0}
    /\ \A i \in 1..Len(Varint(v)) : Varint(v)[i] < 128 <=> i = Len(Varint(v))
<1>. DEFINE Good(v) == /\ Len(Varint(v)) \in Nat \ {0}
                       /\ \A i \in 1..Len(Varint(v)) : Varint(v)[i] < 128 <=> i = Len(Varint(v))
            Bad == {v \in Nat : ~Good(v)}
<1>. SUFFICES ASSUME Bad # {} PROVE FALSE
  OBVIOUS
<1>1. Bad \in SUBSET Nat /\ \A v \in Nat : v \in Bad <=> ~Good(v)
  OBVIOUS
<1>. HIDE DEF Bad
<1>2. PICK v \in Bad : \A n \in Bad : v <= n
  BY <1>1, LeastOf
<1>3. v \in Nat /\ ~Good(v)
  BY <1>1
<1>4. CASE v < 128
  <2>1. Varint(v) = <<v>>
    BY <1>3, <1>4, VarintIs
  <2>. QED  BY <1>3, <1>4, <2>1
<1>5. CASE v >= 128
  <2>. DEFINE rest == Varint(v \div 128)
  <2>1. v \div 128 \in Nat /\ v \div 128 < v
    BY <1>3, <1>5
  <2>2. Good(v \div 128)
    BY <1>1, <1>2, <1>3, <2>1
  <2>3. rest \in Seq(Nat) /\ Varint(v) = Continued(v, rest)
    BY <1>3, <1>5, <2>1, VarintIs
  <2>4. /\ Len(rest) \in Nat \ {0}
        /\ \A i \in 1..Len(rest) : rest[i] < 128 <=> i = Len(rest)
    BY <2>2
  <2>. HIDE DEF rest
  <2>5. /\ Len(Varint(v)) = Len(rest) + 1
        /\ Varint(v)[1] = (v % 128) + 128
        /\ \A i \in 1..Len(rest) : Varint(v)[i + 1] = rest[i]
    BY <1>3, <2>3, ContinuedIs
  <2>6. ASSUME NEW i \in 1..Len(Varint(v)) PROVE Varint(v)[i] < 128 <=> i = Len(Varint(v))
    <3>1. CASE i = 1
      <4>1. ~((v % 128) + 128 < 128)
        BY <1>3
      <4>. QED  BY <2>4, <2>5, <3>1, <4>1
    <3>2. CASE i # 1
      <4>1. i - 1 \in 1..Len(rest) /\ i = (i - 1) + 1
        BY <2>4, <2>5, <3>2
      <4>2. Varint(v)[i] = rest[i - 1]
        BY <2>5, <4>1
      <4>. QED  BY <2>4, <2>5, <4>1, <4>2
    <3>. QED  BY <3>1, <3>2
  <2>. QED  BY <1>3, <2>4, <2>5, <2>6
<1>. QED  BY <1>3, <1>4, <1>5

Within(bound, length) == \A v \in Nat : v < bound => Len(Varint(v)) <= length

LEMMA VarintLonger ==
  ASSUME NEW bound \in Nat, NEW length \in Nat, Within(bound, length)
  PROVE  Within(128 * bound, length + 1)
<1>. USE DEF Within
<1>. SUFFICES ASSUME NEW v \in Nat, v < 128 * bound PROVE Len(Varint(v)) <= length + 1
  OBVIOUS
<1>1. CASE v < 128
  <2>1. Varint(v) = <<v>>
    BY <1>1, VarintIs
  <2>. QED  BY <2>1
<1>2. CASE v >= 128
  <2>1. v \div 128 \in Nat /\ v \div 128 < bound
    OBVIOUS
  <2>. DEFINE rest == Varint(v \div 128)
  <2>2. Varint(v) = Continued(v, rest) /\ rest \in Seq(Nat)
    BY <1>2, <2>1, VarintIs
  <2>4. Len(rest) <= length
    BY <2>1
  <2>. HIDE DEF rest
  <2>3. Len(Varint(v)) = Len(rest) + 1 /\ Len(rest) \in Nat
    BY <2>2, ContinuedIs
  <2>. QED  BY <2>3, <2>4
<1>. QED  BY <1>1, <1>2

\* A number of 35 bits has five bytes at most.
LEMMA VarintLength == Within(34359738368, 5)
<1>1. Within(128, 1)
  <2>. SUFFICES ASSUME NEW v \in Nat, v < 128 PROVE Len(Varint(v)) <= 1
    BY DEF Within
  <2>1. Varint(v) = <<v>>
    BY VarintIs
  <2>. QED  BY <2>1
<1>2. Within(128 * 128, 1 + 1)
  BY <1>1, VarintLonger
<1>3. Within(128 * (128 * 128), (1 + 1) + 1)
  BY <1>2, VarintLonger, SMT
<1>4. Within(128 * (128 * (128 * 128)), ((1 + 1) + 1) + 1)
  BY <1>3, VarintLonger, SMT
<1>5. Within(128 * (128 * (128 * (128 * 128))), (((1 + 1) + 1) + 1) + 1)
  BY <1>4, VarintLonger, SMT
<1>. QED  BY <1>5, SMT

-----------------------------------------------------------------------------
\* Bytes at an offset.
Occurs(data, offset, bytes) ==
  /\ offset + Len(bytes) <= Len(data)
  /\ \A i \in 1..Len(bytes) : data[offset + i] = bytes[i]

\* What a reader adds up, byte by byte, from an offset to an end.
IsValue(value, data, offset, end) ==
  value = [i \in offset + 1 .. end + 1 |-> IF i > end THEN 0 ELSE (data[i] % 128) + 128 * value[i + 1]]

AreBytes(data, first, end) == \A i \in first..end : data[i] \in Nat

\* The sum is there for any bytes.
LEMMA ValueExists ==
  ASSUME NEW data, NEW offset \in Nat, NEW end \in Nat, offset < end,
         AreBytes(data, offset + 1, end)
  PROVE  \E value : IsValue(value, data, offset, end)
<1>. DEFINE D == offset + 1 .. end + 1
            Byte(i) == data[i] % 128
            Sum(i, n) == Byte(i) + 128 * n
            m == [i \in D |-> (end + 1) - i]
            B == [p \in D \X [D -> Nat] |-> IF p[1] > end THEN 0 ELSE Sum(p[1], p[2][p[1] + 1])]
<1>1. \A i \in D : \A n \in Nat : i <= end => Sum(i, n) \in Nat
  <2>. SUFFICES ASSUME NEW i \in D, NEW n \in Nat, i <= end PROVE Sum(i, n) \in Nat
    OBVIOUS
  <2>1. data[i] \in Nat
    BY DEF AreBytes
  <2>. HIDE DEF D
  <2>. QED  BY <2>1
<1>2. \A i \in D : /\ (end + 1) - i \in Nat
                   /\ i <= end => i + 1 \in D /\ (end + 1) - (i + 1) < (end + 1) - i
                   /\ ~(i > end) <=> i <= end
  OBVIOUS
<1>. HIDE DEF Sum, Byte, D
<1>3. m \in [D -> Nat] /\ \A i \in D : m[i] = (end + 1) - i
  BY <1>2
<1>4. \A i \in D : \A g \in [D -> Nat] : B[<<i, g>>] = IF i > end THEN 0 ELSE Sum(i, g[i + 1])
  OBVIOUS
<1>5. B \in [D \X [D -> Nat] -> Nat]
  <2>1. \A i \in D : \A g \in [D -> Nat] : (IF i > end THEN 0 ELSE Sum(i, g[i + 1])) \in Nat
    BY <1>1, <1>2
  <2>. QED  BY <2>1
<1>. HIDE DEF B, m
<1>6. \A i \in D : \A g, h \in [D -> Nat] :
        (\A y \in D : m[y] < m[i] => g[y] = h[y]) => B[<<i, g>>] = B[<<i, h>>]
  <2>. SUFFICES ASSUME NEW i \in D, NEW g \in [D -> Nat], NEW h \in [D -> Nat],
                       \A y \in D : m[y] < m[i] => g[y] = h[y]
                PROVE  B[<<i, g>>] = B[<<i, h>>]
    OBVIOUS
  <2>1. i <= end => g[i + 1] = h[i + 1]
    BY <1>2, <1>3
  <2>. QED  BY <1>2, <1>4, <2>1
<1>7. Recursion(D, Nat, m, B)
  BY <1>3, <1>5, <1>6 DEF Recursion
<1>8. PICK f \in [D -> Nat] : \A i \in D : f[i] = B[<<i, f>>]
  BY <1>7, RecursionExists
<1>9. f = [i \in D |-> IF i > end THEN 0 ELSE Sum(i, f[i + 1])]
  <2>1. f = [i \in D |-> f[i]]
    OBVIOUS
  <2>2. \A i \in D : f[i] = IF i > end THEN 0 ELSE Sum(i, f[i + 1])
    BY <1>4, <1>8
  <2>. QED  BY <2>1, <2>2, Zenon
<1>. QED  BY <1>9, Zenon DEF IsValue, Sum, Byte, D

\* The sum from any offset is the number whose bytes are there, up to the end.
AddsUp(c, data, base, end) ==
  \A v \in Nat : \A o \in base..end :
    (o + Len(Varint(v)) = end /\ \A i \in 1..Len(Varint(v)) : data[o + i] = Varint(v)[i])
      => c[o + 1] = v

\* The sum over the bytes of a number is the number.
LEMMA ValueIs ==
  ASSUME NEW data, NEW base \in Nat, NEW end \in Nat, base < end, NEW c,
         IsValue(c, data, base, end)
  PROVE  AddsUp(c, data, base, end)
<1>. DEFINE Ending(v, o) == o + Len(Varint(v)) = end
                        /\ \A i \in 1..Len(Varint(v)) : data[o + i] = Varint(v)[i]
            Good(v) == \A o \in base..end : Ending(v, o) => c[o + 1] = v
            Bad == {v \in Nat : ~Good(v)}
<1>. SUFFICES ASSUME Bad # {} PROVE FALSE
  BY DEF AddsUp
<1>1. Bad \in SUBSET Nat /\ \A v \in Nat : v \in Bad <=> ~Good(v)
  OBVIOUS
<1>. HIDE DEF Bad, Good
<1>2. PICK v \in Bad : \A n \in Bad : v <= n
  BY <1>1, LeastOf
<1>3. v \in Nat /\ ~Good(v)
  BY <1>1
<1>4. PICK o \in base..end : Ending(v, o) /\ c[o + 1] # v
  BY <1>3 DEF Good
<1>5. c[end + 1] = 0
  BY DEF IsValue
<1>6. \A i \in base + 1 .. end : c[i] = (data[i] % 128) + 128 * c[i + 1]
  <2>. SUFFICES ASSUME NEW i \in base + 1 .. end PROVE c[i] = (data[i] % 128) + 128 * c[i + 1]
    OBVIOUS
  <2>1. i \in base + 1 .. end + 1 /\ ~(i > end)
    OBVIOUS
  <2>. QED  BY <2>1 DEF IsValue
<1>7. CASE v < 128
  <2>1. Varint(v) = <<v>>
    BY <1>3, <1>7, VarintIs
  <2>2. o + 1 = end /\ data[o + 1] = v
    BY <1>4, <2>1
  <2>3. v % 128 = v
    BY <1>3, <1>7
  <2>4. c[o + 1] = v + 128 * 0
    BY <1>5, <1>6, <2>2, <2>3
  <2>. QED  BY <1>3, <1>4, <2>4
<1>8. CASE v >= 128
  <2>. DEFINE rest == Varint(v \div 128)
  <2>1. v \div 128 \in Nat /\ v \div 128 < v
    BY <1>3, <1>8
  <2>2. Good(v \div 128)
    BY <1>1, <1>2, <1>3, <2>1
  <2>3. rest \in Seq(Nat) /\ Varint(v) = Continued(v, rest)
    BY <1>3, <1>8, <2>1, VarintIs
  <2>4. \A p \in base..end :
          (p + Len(rest) = end /\ \A i \in 1..Len(rest) : data[p + i] = rest[i]) => c[p + 1] = v \div 128
    BY <2>2 DEF Good
  <2>a. Len(rest) \in Nat \ {0}
    BY <2>1, VarintShape
  <2>. HIDE DEF rest
  <2>5. /\ Len(Varint(v)) = Len(rest) + 1
        /\ Varint(v)[1] = (v % 128) + 128
        /\ \A i \in 1..Len(rest) : Varint(v)[i + 1] = rest[i]
    BY <1>3, <2>3, ContinuedIs
  <2>6. o + 1 \in base..end /\ (o + 1) + Len(rest) = end
    BY <1>4, <2>5, <2>a
  <2>7. ASSUME NEW i \in 1..Len(rest) PROVE data[(o + 1) + i] = rest[i]
    <3>1. i + 1 \in 1..Len(Varint(v)) /\ o + (i + 1) = (o + 1) + i
      BY <2>5, <2>a
    <3>. QED  BY <1>4, <2>5, <3>1
  <2>8. c[(o + 1) + 1] = v \div 128
    BY <2>4, <2>6, <2>7
  <2>9. data[o + 1] = (v % 128) + 128
    BY <1>4, <2>5, <2>a
  <2>10. c[o + 1] = (data[o + 1] % 128) + 128 * (v \div 128)
    BY <1>6, <2>6, <2>8
  <2>11. ((v % 128) + 128) % 128 = v % 128 /\ (v % 128) + 128 * (v \div 128) = v
    BY <1>3
  <2>. QED  BY <1>4, <2>9, <2>10, <2>11
<1>. QED  BY <1>3, <1>7, <1>8

Has35Bits(v) == v < 34359738368

\* What is read behind an offset is the number that was written there.
LEMMA ReadVarintIs ==
  ASSUME NEW data \in Seq(Nat), NEW offset \in Nat, NEW v \in Nat, Has35Bits(v),
         Occurs(data, offset, Varint(v))
  PROVE  /\ ReadVarint(data, offset) = [ok |-> TRUE, value |-> v, offset |-> offset + Len(Varint(v))]
         /\ offset + Len(Varint(v)) \in offset + 1 .. offset + 5
<1>. DEFINE bytes == Varint(v)
            end == offset + Len(bytes)
            stops == {i \in offset + 1 .. Len(data) : i <= offset + VARINT_MAX_BYTES /\ data[i] < 128}
<1>1. Len(bytes) \in Nat \ {0} /\ Len(bytes) <= 5
  BY VarintShape, VarintLength, SMT DEF Within, Has35Bits
<1>2. /\ \A i \in 1..Len(bytes) : bytes[i] < 128 <=> i = Len(bytes)
      /\ end <= Len(data) /\ \A i \in 1..Len(bytes) : data[offset + i] = bytes[i]
  <2>1. \A i \in 1..Len(bytes) : bytes[i] < 128 <=> i = Len(bytes)
    BY VarintShape, Zenon
  <2>2. end <= Len(data) /\ \A i \in 1..Len(bytes) : data[offset + i] = bytes[i]
    BY Zenon DEF Occurs
  <2>. QED  BY <2>1, <2>2, SMT
<1>. HIDE DEF bytes
<1>3. end \in stops
  <2>1. data[end] = bytes[Len(bytes)] /\ bytes[Len(bytes)] < 128
    BY <1>1, <1>2, SMT
  <2>2. end \in offset + 1 .. Len(data) /\ end <= offset + VARINT_MAX_BYTES
    BY <1>1, <1>2, SMT DEF VARINT_MAX_BYTES
  <2>. QED  BY <2>1, <2>2, Zenon
<1>4. \A i \in stops : end <= i
  <2>. SUFFICES ASSUME NEW i \in stops, i < end PROVE FALSE
    BY <1>1, SMT
  <2>1. i - offset \in 1..Len(bytes) /\ i - offset # Len(bytes) /\ i = offset + (i - offset)
    BY <1>1, SMT
  <2>2. data[i] = bytes[i - offset]
    BY <1>2, <2>1, SMT
  <2>3. ~(data[i] < 128)
    BY <1>2, <2>1, <2>2, SMT
  <2>. QED  BY <2>3, SMT
<1>5. \A i \in stops : i \in Nat
  BY SMT
<1>6. Min(stops) = end
  <2>. HIDE DEF stops
  <2>1. \A x \in stops : (\A y \in stops : x =< y) => x = end
    BY <1>1, <1>3, <1>4, <1>5, SMT
  <2>. QED  BY <1>3, <1>4, <2>1, SMT DEF Min
<1>7. ReadVarint(data, offset) = VarintAt(data, offset, end)
  BY <1>3, <1>6, SMT DEF ReadVarint
<1>8. AreBytes(data, offset + 1, end)
  BY <1>1, <1>2, SMT DEF AreBytes
<1>9. offset < end /\ end \in Nat
  BY <1>1, SMT
<1>. HIDE DEF end, stops
<1>10. \E c : IsValue(c, data, offset, end)
  BY <1>8, <1>9, ValueExists, SMT
<1>. DEFINE c == CHOOSE c : IsValue(c, data, offset, end)
<1>11. IsValue(c, data, offset, end)
  BY <1>10
<1>12. VarintAt(data, offset, end) = [ok |-> TRUE, value |-> c[offset + 1], offset |-> end]
  BY DEF VarintAt, IsValue
<1>. HIDE DEF c
<1>13. AddsUp(c, data, offset, end)
  BY <1>9, <1>11, ValueIs
<1>14. c[offset + 1] = v
  <2>1. offset \in offset..end /\ offset + Len(bytes) = end
    BY <1>9, SMT DEF end
  <2>2. \A i \in 1..Len(bytes) : data[offset + i] = bytes[i]
    BY <1>2
  <2>3. (offset + Len(bytes) = end /\ \A i \in 1..Len(bytes) : data[offset + i] = bytes[i])
          => c[offset + 1] = v
    BY <1>13, <2>1, SMT DEF AddsUp, bytes
  <2>. QED  BY <2>1, <2>2, <2>3, Zenon
<1>. QED  BY <1>1, <1>7, <1>12, <1>14, SMT DEF end, bytes

-----------------------------------------------------------------------------
\* Sequences that are joined are found one behind the other.
LEMMA OccursBefore ==
  ASSUME NEW d \in Seq(Nat), NEW x \in Seq(Nat), NEW offset \in Nat, NEW bytes \in Seq(Nat),
         Occurs(d, offset, bytes)
  PROVE  Occurs(d \o x, offset, bytes)
<1>1. d \o x \in Seq(Nat) /\ Len(d \o x) = Len(d) + Len(x) /\ Len(x) \in Nat /\ Len(d) \in Nat
  OBVIOUS
<1>2. \A i \in 1..Len(d) : (d \o x)[i] = d[i]
  OBVIOUS
<1>3. /\ offset + Len(bytes) <= Len(d) /\ Len(bytes) \in Nat
      /\ \A i \in 1..Len(bytes) : d[offset + i] = bytes[i] /\ offset + i \in 1..Len(d)
  BY <1>1 DEF Occurs
<1>. DEFINE dx == d \o x
<1>. HIDE DEF dx
<1>4. offset + Len(bytes) <= Len(dx)
  BY <1>1, <1>3 DEF dx
<1>5. \A i \in 1..Len(bytes) : dx[offset + i] = bytes[i]
  BY <1>2, <1>3 DEF dx
<1>6. Occurs(dx, offset, bytes)
  BY <1>4, <1>5, Zenon DEF Occurs
<1>. QED  BY <1>6 DEF dx

LEMMA OccursBehind ==
  ASSUME NEW d \in Seq(Nat), NEW bytes \in Seq(Nat)
  PROVE  Occurs(d \o bytes, Len(d), bytes)
<1>1. Len(d \o bytes) = Len(d) + Len(bytes) /\ Len(d) \in Nat /\ Len(bytes) \in Nat
  OBVIOUS
<1>2. \A i \in 1..Len(bytes) : (d \o bytes)[Len(d) + i] = bytes[i]
  OBVIOUS
<1>. QED  BY <1>1, <1>2 DEF Occurs

LEMMA RestBehind ==
  ASSUME NEW d \in Seq(Nat), NEW rest \in Seq(Nat)
  PROVE  SubSeq(d \o rest, Len(d) + 1, Len(d \o rest)) = rest
  OBVIOUS

IsFlat(f, s) == f = [i \in 1..Len(s) |-> IF i = 1 THEN s[i] ELSE f[i - 1] \o s[i]]

\* Where the sequences end, one after the other.
EndsOf(ends, s, flat) ==
  /\ ends \in [0..Len(s) -> Nat] /\ ends[0] = 0 /\ ends[Len(s)] = Len(flat)
  /\ \A i \in 1..Len(s) : ends[i] = ends[i - 1] + Len(s[i]) /\ Occurs(flat, ends[i - 1], s[i])

AreSequences(s) == Len(s) \in Nat \ {0} /\ \A i \in 1..Len(s) : s[i] \in Seq(Nat)

\* Sequences that are joined one after the other, each found where the one
\* before it ends.
LEMMA FlattenIs ==
  ASSUME NEW s, AreSequences(s)
  PROVE  FlattenSeq(s) \in Seq(Nat) /\ \E ends : EndsOf(ends, s, FlattenSeq(s))
<1>. USE DEF AreSequences
<1>. DEFINE V == Seq(Nat)
            D == 1..Len(s)
            Abutted(x, y) == x \o y
            m == [i \in D |-> i]
            B == [p \in D \X [D -> V] |->
                    IF p[1] = 1 THEN s[p[1]] ELSE Abutted(p[2][p[1] - 1], s[p[1]])]
<1>1. /\ Len(s) \in Nat /\ Len(s) > 0 /\ 1 \in D /\ Len(s) \in D
      /\ \A i \in D : i \in Nat /\ s[i] \in V /\ (i # 1 => i - 1 \in D /\ i - 1 < i)
  OBVIOUS
<1>2. \A x, y \in V : Abutted(x, y) \in V
  OBVIOUS
<1>3. V # {}
  BY <1>1
<1>. HIDE DEF V, Abutted
<1>4. m \in [D -> Nat] /\ \A i \in D : m[i] = i
  BY <1>1
<1>. HIDE DEF D
<1>5. \A i \in D : \A g \in [D -> V] :
        B[<<i, g>>] = IF i = 1 THEN s[i] ELSE Abutted(g[i - 1], s[i])
  OBVIOUS
<1>6. B \in [D \X [D -> V] -> V]
  <2>1. \A i \in D : \A g \in [D -> V] : (IF i = 1 THEN s[i] ELSE Abutted(g[i - 1], s[i])) \in V
    BY <1>1, <1>2
  <2>. QED  BY <2>1
<1>. HIDE DEF B, m
<1>7. \A i \in D : \A g, h \in [D -> V] :
        (\A y \in D : m[y] < m[i] => g[y] = h[y]) => B[<<i, g>>] = B[<<i, h>>]
  <2>. SUFFICES ASSUME NEW i \in D, NEW g \in [D -> V], NEW h \in [D -> V],
                       \A y \in D : m[y] < m[i] => g[y] = h[y]
                PROVE  B[<<i, g>>] = B[<<i, h>>]
    OBVIOUS
  <2>1. i # 1 => g[i - 1] = h[i - 1]
    BY <1>1, <1>4
  <2>. QED  BY <1>5, <2>1
<1>8. Recursion(D, V, m, B)
  BY <1>3, <1>4, <1>6, <1>7 DEF Recursion
<1>9. PICK f \in [D -> V] : \A i \in D : f[i] = B[<<i, f>>]
  BY <1>8, RecursionExists
<1>10. f = [i \in D |-> IF i = 1 THEN s[i] ELSE Abutted(f[i - 1], s[i])]
  <2>1. f = [i \in D |-> f[i]]
    OBVIOUS
  <2>2. \A i \in D : f[i] = IF i = 1 THEN s[i] ELSE Abutted(f[i - 1], s[i])
    BY <1>5, <1>9, Zenon
  <2>. QED  BY <2>1, <2>2, Zenon
<1>11. IsFlat(f, s)
  BY <1>10 DEF IsFlat, D, Abutted
<1>. DEFINE c == CHOOSE c : IsFlat(c, s)
<1>12. IsFlat(c, s)
  BY <1>11
<1>13. FlattenSeq(s) = c[Len(s)]
  BY <1>1 DEF FlattenSeq, IsFlat
<1>. HIDE DEF c
<1>14. c[1] = s[1] /\ \A i \in D : i # 1 => c[i] = Abutted(c[i - 1], s[i])
  BY <1>1, <1>12 DEF IsFlat, D, Abutted
<1>15. \A i \in 1..Len(s) : c[i] \in V
  <2>. DEFINE T == {n \in 0..Len(s) : n # 0 => c[n] \in V}
  <2>1. 0 \in T
    BY <1>1
  <2>2. ASSUME NEW n \in 1..Len(s), n - 1 \in T PROVE n \in T
    BY <1>1, <1>2, <1>14, <2>2 DEF D
  <2>. HIDE DEF T
  <2>3. \A i \in 0..Len(s) : i \in T
    BY <1>1, <2>1, <2>2, UpTo
  <2>. QED  BY <2>3 DEF T
<1>. DEFINE ends == [i \in 0..Len(s) |-> IF i = 0 THEN 0 ELSE Len(c[i])]
<1>16. ends \in [0..Len(s) -> Nat]
  <2>1. \A i \in 0..Len(s) : i # 0 => c[i] \in Seq(Nat)
    BY <1>15 DEF V
  <2>. QED  BY <2>1
<1>17. ends[0] = 0 /\ (\A i \in 1..Len(s) : ends[i] = Len(c[i]))
  BY <1>1
<1>. HIDE DEF ends
<1>18. \A i \in 1..Len(s) : ends[i] = ends[i - 1] + Len(s[i]) /\ Occurs(c[i], ends[i - 1], s[i])
  <2>. SUFFICES ASSUME NEW i \in 1..Len(s)
                PROVE  ends[i] = ends[i - 1] + Len(s[i]) /\ Occurs(c[i], ends[i - 1], s[i])
    OBVIOUS
  <2>0. s[i] \in Seq(Nat) /\ Len(s[i]) \in Nat
    OBVIOUS
  <2>1. CASE i = 1
    <3>1. c[1] = s[1]
      BY <1>14
    <3>2. Occurs(s[1], 0, s[1])
      BY <2>0, <2>1 DEF Occurs
    <3>. QED  BY <1>17, <2>0, <2>1, <3>1, <3>2
  <2>2. CASE i # 1
    <3>. DEFINE d == c[i - 1]
                x == s[i]
    <3>1. i - 1 \in 1..Len(s)
      BY <2>2
    <3>2. d \in Seq(Nat) /\ x \in Seq(Nat) /\ c[i] = d \o x
      BY <1>14, <1>15, <2>0, <2>2, <3>1 DEF V, Abutted, D
    <3>3. ends[i - 1] = Len(d) /\ ends[i] = Len(c[i])
      BY <1>17, <3>1
    <3>. HIDE DEF d, x
    <3>4. Len(d \o x) = Len(d) + Len(x) /\ Occurs(d \o x, Len(d), x)
      BY <3>2, OccursBehind
    <3>. QED  BY <3>2, <3>3, <3>4 DEF x
  <2>. QED  BY <2>1, <2>2

\* What was found stays where it is.
<1>19. ASSUME NEW i \in 1..Len(s)
       PROVE  \A j \in i..Len(s) : Occurs(c[j], ends[i - 1], s[i])
  <2>. DEFINE T == {n \in 0..Len(s) : n >= i => Occurs(c[n], ends[i - 1], s[i])}
  <2>1. 0 \in T
    BY <1>1
  <2>2. ASSUME NEW n \in 1..Len(s), n - 1 \in T PROVE n \in T
    <3>1. CASE n <= i
      BY <1>18, <3>1
    <3>2. CASE n > i
      <4>. DEFINE d == c[n - 1]
                  x == s[n]
                  bytes == s[i]
                  offset == ends[i - 1]
      <4>1. n - 1 \in 1..Len(s) /\ n - 1 >= i /\ n # 1 /\ i - 1 \in 0..Len(s)
        BY <3>2
      <4>2. d \in Seq(Nat) /\ x \in Seq(Nat) /\ bytes \in Seq(Nat) /\ c[n] = d \o x
        BY <1>1, <1>14, <1>15, <4>1 DEF V, Abutted, D
      <4>3. offset \in Nat
        BY <1>16, <4>1
      <4>4. Occurs(d, offset, bytes)
        BY <2>2, <4>1
      <4>. HIDE DEF d, x, bytes, offset
      <4>5. Occurs(d \o x, offset, bytes)
        BY <4>2, <4>3, <4>4, OccursBefore
      <4>6. Occurs(c[n], ends[i - 1], s[i])
        BY <4>2, <4>5 DEF bytes, offset
      <4>. QED  BY <4>6
    <3>. QED  BY <3>1, <3>2
  <2>. HIDE DEF T
  <2>3. \A j \in 0..Len(s) : j \in T
    BY <1>1, <2>1, <2>2, UpTo
  <2>. QED  BY <2>3 DEF T
<1>20. EndsOf(ends, s, c[Len(s)])
  <2>1. \A i \in 1..Len(s) : Occurs(c[Len(s)], ends[i - 1], s[i])
    BY <1>1, <1>19
  <2>2. ends[Len(s)] = Len(c[Len(s)]) /\ ends[0] = 0
    BY <1>1, <1>17
  <2>3. \A i \in 1..Len(s) : ends[i] = ends[i - 1] + Len(s[i])
    BY <1>18
  <2>. QED  BY <1>16, <2>1, <2>2, <2>3 DEF EndsOf
<1>21. c[Len(s)] \in Seq(Nat)
  BY <1>1, <1>15 DEF V
<1>. QED  BY <1>13, <1>20, <1>21

-----------------------------------------------------------------------------
\* Message indexes.
IsPath(indexes) ==
  /\ indexes \in Seq(Nat) /\ Len(indexes) \in 1..MAX_MESSAGE_INDEXES
  /\ \A i \in 1..Len(indexes) : indexes[i] <= INT32_MAX

IsIndex(v) == v \in Nat /\ v <= INT32_MAX

LEMMA PathIs ==
  ASSUME NEW indexes, IsPath(indexes)
  PROVE  /\ indexes \in Seq(Nat) /\ Len(indexes) \in Nat \ {0} /\ IsIndex(Len(indexes))
         /\ Len(indexes) <= MAX_MESSAGE_INDEXES
         /\ \A i \in 1..Len(indexes) : IsIndex(indexes[i])
<1>1. indexes \in Seq(Nat) /\ Len(indexes) \in 1..MAX_MESSAGE_INDEXES
  BY DEF IsPath
<1>2. Len(indexes) \in Nat \ {0} /\ Len(indexes) <= INT32_MAX /\ Len(indexes) <= MAX_MESSAGE_INDEXES
  <2>. DEFINE n == Len(indexes)
  <2>1. n \in 1..MAX_MESSAGE_INDEXES
    BY <1>1
  <2>. HIDE DEF n
  <2>2. n \in Nat /\ n # 0 /\ n <= MAX_MESSAGE_INDEXES /\ n <= INT32_MAX
    <3>1. MAX_MESSAGE_INDEXES \in Nat /\ INT32_MAX \in Nat /\ MAX_MESSAGE_INDEXES <= INT32_MAX
      BY ONLY SMT DEF MAX_MESSAGE_INDEXES, INT32_MAX
    <3>. QED  BY <2>1, <3>1, SMT
  <2>. QED  BY <2>2 DEF n
<1>3. \A i \in 1..Len(indexes) : indexes[i] \in Nat /\ indexes[i] <= INT32_MAX
  BY <1>1 DEF IsPath
<1>. QED  BY <1>1, <1>2, <1>3 DEF IsIndex

\* The zigzag of an index is undone.
LEMMA ZigzagIs ==
  ASSUME NEW v, IsIndex(v)
  PROVE  /\ Zigzag(v) \in Nat /\ Has35Bits(Zigzag(v)) /\ Unzigzag(Zigzag(v)) = v
         /\ Varint(Zigzag(v)) \in Seq(Nat)
<1>1. Zigzag(v) = 2 * v /\ v \in Nat
  BY SMT DEF IsIndex, Zigzag
<1>2. (2 * v) % 2 = 0 /\ (2 * v) \div 2 = v
  BY <1>1
<1>3. Has35Bits(Zigzag(v))
  BY <1>1, SMT DEF IsIndex, INT32_MAX, Has35Bits
<1>. QED  BY <1>1, <1>2, <1>3, VarintIs DEF Unzigzag

\* An index that was written at an offset is read there.
LEMMA MessageIndexIs ==
  ASSUME NEW data \in Seq(Nat), NEW offset \in Nat, NEW v, IsIndex(v),
         Occurs(data, offset, Varint(Zigzag(v)))
  PROVE  /\ ReadMessageIndex(data, offset)
               = [ok |-> TRUE, value |-> v, offset |-> offset + Len(Varint(Zigzag(v)))]
         /\ offset + Len(Varint(Zigzag(v))) \in Nat
<1>. DEFINE z == Zigzag(v)
<1>1. z \in Nat /\ Has35Bits(z) /\ Unzigzag(z) = v
  BY ZigzagIs
<1>2. Occurs(data, offset, Varint(z))
  OBVIOUS
<1>. HIDE DEF z
<1>3. /\ ReadVarint(data, offset) = [ok |-> TRUE, value |-> z, offset |-> offset + Len(Varint(z))]
      /\ offset + Len(Varint(z)) \in Nat
  BY <1>1, <1>2, ReadVarintIs
<1>4. ReadMessageIndex(data, offset) = [ok |-> TRUE, value |-> v, offset |-> offset + Len(Varint(z))]
  <2>. DEFINE end == offset + Len(Varint(z))
  <2>. HIDE DEF end
  <2>1. ReadVarint(data, offset) = [ok |-> TRUE, value |-> z, offset |-> end]
    BY <1>3 DEF end
  <2>2. ReadMessageIndex(data, offset) = [ok |-> TRUE, value |-> Unzigzag(z), offset |-> end]
    BY <2>1 DEF ReadMessageIndex
  <2>. QED  BY <1>1, <2>2 DEF end
<1>. QED  BY <1>3, <1>4 DEF z

IsReading(read, data, size) ==
  read = [n \in 0..size.value |->
            IF n = 0 THEN [ok |-> TRUE, indexes |-> <<>>, offset |-> size.offset]
            ELSE LET before == read[n - 1]
                     index == ReadMessageIndex(data, before.offset)
                 IN  [ok      |-> before.ok /\ index.ok,
                      indexes |-> Append(before.indexes, index.value),
                      offset  |-> index.offset]]

\* The indexes behind their number, where each one ends.
InTurn(data, indexes, ends) ==
  /\ ends \in [0..Len(indexes) -> Nat]
  /\ \A i \in 1..Len(indexes) :
       /\ ends[i] = ends[i - 1] + Len(Varint(Zigzag(indexes[i])))
       /\ Occurs(data, ends[i - 1], Varint(Zigzag(indexes[i])))

\* A sequence up to a position has its element there as the last.
LEMMA OneMore ==
  ASSUME NEW s \in Seq(Nat), NEW n \in 1..Len(s)
  PROVE  SubSeq(s, 1, n) = Append(SubSeq(s, 1, n - 1), s[n])
<1>1. Len(s) \in Nat /\ n \in Nat /\ n - 1 \in Nat
  OBVIOUS
<1>. QED  BY <1>1

LEMMA IndexesInTurn ==
  ASSUME NEW data \in Seq(Nat), NEW indexes, IsPath(indexes), NEW ends,
         InTurn(data, indexes, ends), NEW size, size.value = Len(indexes), size.offset = ends[0]
  PROVE  ReadIndexes(data, size) = [ok |-> TRUE, indexes |-> indexes, offset |-> ends[Len(indexes)]]
<1>. DEFINE k == Len(indexes)
            Until(n) == [ok |-> TRUE, indexes |-> SubSeq(indexes, 1, n), offset |-> ends[n]]
            f == [n \in 0..k |-> Until(n)]
            Step(before) == LET index == ReadMessageIndex(data, before.offset)
                            IN  [ok      |-> before.ok /\ index.ok,
                                 indexes |-> Append(before.indexes, index.value),
                                 offset  |-> index.offset]
<1>1. k \in Nat \ {0} /\ indexes \in Seq(Nat)
  BY PathIs
<1>2. Until(0) = [ok |-> TRUE, indexes |-> <<>>, offset |-> size.offset]
  <2>1. SubSeq(indexes, 1, 0) = <<>>
    BY <1>1
  <2>. QED  BY <2>1
<1>3. \A n \in 1..k : Until(n) = Step(Until(n - 1))
  <2>. SUFFICES ASSUME NEW n \in 1..k PROVE Until(n) = Step(Until(n - 1))
    OBVIOUS
  <2>. DEFINE v == indexes[n]
              offset == ends[n - 1]
  <2>1. IsIndex(v) /\ offset \in Nat
    <3>1. n - 1 \in 0..Len(indexes)
      BY <1>1
    <3>. QED  BY PathIs, <3>1 DEF InTurn
  <2>2. Occurs(data, offset, Varint(Zigzag(v))) /\ ends[n] = offset + Len(Varint(Zigzag(v)))
    BY DEF InTurn
  <2>3. SubSeq(indexes, 1, n) = Append(SubSeq(indexes, 1, n - 1), v)
    BY <1>1, OneMore
  <2>. HIDE DEF v, offset
  <2>4. ReadMessageIndex(data, offset)
          = [ok |-> TRUE, value |-> v, offset |-> offset + Len(Varint(Zigzag(v)))]
    BY <2>1, <2>2, MessageIndexIs
  <2>. DEFINE before == Until(n - 1)
              index == ReadMessageIndex(data, before.offset)
  <2>5. before.ok = TRUE /\ before.indexes = SubSeq(indexes, 1, n - 1) /\ before.offset = offset
    BY DEF offset
  <2>6. index.ok = TRUE /\ index.value = v /\ index.offset = ends[n]
    BY <2>2, <2>4, <2>5
  <2>7. Step(before) = [ok      |-> before.ok /\ index.ok,
                        indexes |-> Append(before.indexes, index.value),
                        offset  |-> index.offset]
    OBVIOUS
  <2>. HIDE DEF before, index, Step
  <2>8. Step(before) = [ok |-> TRUE, indexes |-> SubSeq(indexes, 1, n), offset |-> ends[n]]
    BY <2>3, <2>5, <2>6, <2>7
  <2>. QED  BY <2>8 DEF before
<1>. HIDE DEF Until, Step, k
<1>4. f[0] = Until(0) /\ \A n \in 1..k : f[n] = Until(n) /\ f[n - 1] = Until(n - 1)
  BY <1>1
<1>5. f = [n \in 0..k |-> IF n = 0 THEN [ok |-> TRUE, indexes |-> <<>>, offset |-> size.offset]
                          ELSE Step(f[n - 1])]
  <2>1. \A n \in 0..k : f[n] = IF n = 0 THEN [ok |-> TRUE, indexes |-> <<>>, offset |-> size.offset]
                                ELSE Step(f[n - 1])
    BY <1>1, <1>2, <1>3, <1>4
  <2>. QED  BY <2>1
<1>. HIDE DEF f
<1>6. IsReading(f, data, size)
  BY <1>5 DEF IsReading, Step, k
<1>. DEFINE c == CHOOSE c : IsReading(c, data, size)
<1>7. IsReading(c, data, size)
  BY <1>6
<1>8. ReadIndexes(data, size) = c[k]
  BY DEF ReadIndexes, IsReading, k
<1>. HIDE DEF c
<1>9. c[0] = Until(0) /\ \A n \in 1..k : c[n] = Step(c[n - 1])
  <2>1. c = [n \in 0..k |-> IF n = 0 THEN [ok |-> TRUE, indexes |-> <<>>, offset |-> size.offset]
                            ELSE Step(c[n - 1])]
    BY <1>7 DEF IsReading, Step, k
  <2>2. 0 \in 0..k /\ \A n \in 1..k : n \in 0..k /\ n # 0
    BY <1>1
  <2>3. c[0] = [ok |-> TRUE, indexes |-> <<>>, offset |-> size.offset]
    BY <2>1, <2>2
  <2>4. \A n \in 1..k : c[n] = Step(c[n - 1])
    BY <2>1, <2>2
  <2>. QED  BY <1>2, <2>3, <2>4
<1>10. \A n \in 0..k : c[n] = Until(n)
  <2>. DEFINE T == {n \in 0..k : c[n] = Until(n)}
  <2>1. 0 \in T
    BY <1>1, <1>9
  <2>2. ASSUME NEW n \in 1..k, n - 1 \in T PROVE n \in T
    BY <1>1, <1>3, <1>9, <2>2
  <2>. HIDE DEF T
  <2>3. \A n \in 0..k : n \in T
    BY <1>1, <2>1, <2>2, UpTo
  <2>. QED  BY <2>3 DEF T
<1>11. SubSeq(indexes, 1, k) = indexes
  BY <1>1 DEF k
<1>. QED  BY <1>1, <1>8, <1>10, <1>11 DEF Until, k

\* The path to a message is read back as it was written, from Confluent's message
\* indexes, and what stands behind it is left: the zigzag and the bytes of each
\* number are undone, and the short form of the first message is told apart.
THEOREM IndexesAreReadBack ==
  ASSUME NEW indexes, IsPath(indexes), NEW rest \in Seq(Nat)
  PROVE  /\ MessageIndexBytes(indexes) \in Seq(Nat)
         /\ ParseMessageIndexes(MessageIndexBytes(indexes) \o rest)
               = [ok |-> TRUE, indexes |-> indexes, rest |-> rest]
<1>1. CASE indexes = <<0>>
  <2>. DEFINE bytes == <<0>>
              data == bytes \o rest
  <2>1. MessageIndexBytes(indexes) = bytes /\ bytes \in Seq(Nat) /\ data \in Seq(Nat)
    BY <1>1 DEF MessageIndexBytes
  <2>2. IsIndex(0) /\ Zigzag(0) = 0 /\ Varint(0) = bytes
    BY VarintIs, SMT DEF IsIndex, INT32_MAX, Zigzag
  <2>3. Occurs(data, 0, bytes) /\ Len(bytes) = 1 /\ SubSeq(data, 2, Len(data)) = rest
    BY DEF Occurs
  <2>. HIDE DEF bytes, data
  <2>4. ReadMessageIndex(data, 0) = [ok |-> TRUE, value |-> 0, offset |-> 1]
    <3>1. Varint(Zigzag(0)) = bytes /\ 0 \in Nat
      BY <2>2
    <3>2. Occurs(data, 0, Varint(Zigzag(0)))
      BY <2>3, <3>1
    <3>3. ReadMessageIndex(data, 0)
            = [ok |-> TRUE, value |-> 0, offset |-> 0 + Len(Varint(Zigzag(0)))]
      BY <2>1, <2>2, <3>1, <3>2, MessageIndexIs
    <3>4. 0 + Len(Varint(Zigzag(0))) = 1
      BY <2>3, <3>1
    <3>. QED  BY <3>3, <3>4
  <2>5. ParseMessageIndexes(data) = [ok |-> TRUE, indexes |-> <<0>>, rest |-> rest]
    <3>. DEFINE size == [ok |-> TRUE, value |-> 0, offset |-> 1]
    <3>1. size.ok /\ size.value = 0 /\ ~(size.value < 0) /\ ~(size.value > MAX_MESSAGE_INDEXES)
          /\ SubSeq(data, size.offset + 1, Len(data)) = rest
      BY <2>3, SMT DEF MAX_MESSAGE_INDEXES
    <3>2. IndexesBehind(data, size) = [ok |-> TRUE, indexes |-> <<0>>, rest |-> rest]
      BY <3>1, Zenon DEF IndexesBehind
    <3>. QED  BY <2>4, <3>2 DEF ParseMessageIndexes
  <2>. QED  BY <1>1, <2>1, <2>5 DEF data
<1>2. CASE indexes # <<0>>
  <2>. DEFINE k == Len(indexes)
              all == <<k>> \o indexes
              s == [i \in 1..k + 1 |-> Varint(Zigzag(all[i]))]
              flat == FlattenSeq(s)
              data == flat \o rest
  <2>1. /\ k \in Nat \ {0} /\ IsIndex(k) /\ k <= MAX_MESSAGE_INDEXES /\ indexes \in Seq(Nat)
        /\ \A i \in 1..k : IsIndex(indexes[i])
    BY PathIs
  <2>2. all[1] = k /\ \A i \in 1..k : all[i + 1] = indexes[i]
    BY <2>1
  <2>. HIDE DEF all
  <2>3. /\ Len(s) = k + 1 /\ s[1] = Varint(Zigzag(k))
        /\ \A i \in 1..k : s[i + 1] = Varint(Zigzag(indexes[i]))
    <3>1. 1 \in 1..k + 1 /\ \A i \in 1..k : i + 1 \in 1..k + 1
      BY <2>1
    <3>. HIDE DEF k
    <3>. QED  BY <2>1, <2>2, <3>1
  <2>4. MessageIndexBytes(indexes) = flat
    BY <1>2 DEF MessageIndexBytes, all
  <2>. HIDE DEF s, k
  <2>5. \A i \in 1..Len(s) : s[i] \in Seq(Nat)
    <3>. SUFFICES ASSUME NEW i \in 1..k + 1 PROVE s[i] \in Seq(Nat)
      BY <2>3
    <3>1. CASE i = 1
      BY <2>1, <2>3, <3>1, ZigzagIs
    <3>2. CASE i # 1
      <4>1. i - 1 \in 1..k /\ i = (i - 1) + 1
        BY <2>1, <3>2
      <4>2. IsIndex(indexes[i - 1]) /\ s[i] = Varint(Zigzag(indexes[i - 1]))
        BY <2>1, <2>3, <4>1
      <4>. QED  BY <4>2, ZigzagIs
    <3>. QED  BY <3>1, <3>2
  <2>6. flat \in Seq(Nat) /\ \E ends : EndsOf(ends, s, flat)
    <3>1. AreSequences(s)
      BY <2>1, <2>3, <2>5 DEF AreSequences
    <3>. QED  BY <3>1, FlattenIs
  <2>7. PICK ends : EndsOf(ends, s, flat)
    BY <2>6
  <2>8. data \in Seq(Nat) /\ SubSeq(data, Len(flat) + 1, Len(data)) = rest
    BY <2>6, RestBehind
  <2>9. \A i \in 1..Len(s) : Occurs(data, ends[i - 1], s[i])
    <3>. SUFFICES ASSUME NEW i \in 1..k + 1 PROVE Occurs(data, ends[i - 1], s[i])
      BY <2>3
    <3>. DEFINE o == ends[i - 1]
                b == s[i]
    <3>1. o \in Nat /\ b \in Seq(Nat) /\ Occurs(flat, o, b)
      <4>1. i - 1 \in 0..Len(s) /\ i \in 1..Len(s)
        BY <2>1, <2>3
      <4>. HIDE DEF flat
      <4>. QED  BY <2>5, <2>7, <4>1 DEF EndsOf
    <3>. HIDE DEF o, b, flat
    <3>2. Occurs(flat \o rest, o, b)
      BY <2>6, <3>1, OccursBefore
    <3>. QED  BY <3>2 DEF o, b
  <2>. HIDE DEF flat, data
  <2>10. ReadMessageIndex(data, 0) = [ok |-> TRUE, value |-> k, offset |-> ends[1]]
    <3>1. Occurs(data, 0, Varint(Zigzag(k))) /\ ends[1] = 0 + Len(Varint(Zigzag(k)))
      BY <2>1, <2>3, <2>7, <2>9 DEF EndsOf
    <3>. QED  BY <2>1, <2>8, <3>1, MessageIndexIs
  <2>. DEFINE later == [i \in 0..k |-> ends[i + 1]]
              size == [ok |-> TRUE, value |-> k, offset |-> ends[1]]
  <2>11. /\ InTurn(data, indexes, later) /\ size.value = k /\ size.offset = later[0]
         /\ later[k] = Len(flat)
    <3>1. \A i \in 0..k : ends[i + 1] \in Nat
      <4>1. \A i \in 0..k : i + 1 \in 0..Len(s)
        BY <2>1, <2>3
      <4>2. ends \in [0..Len(s) -> Nat]
        BY <2>7 DEF EndsOf
      <4>. QED  BY <4>1, <4>2
    <3>2. \A i \in 0..k : later[i] = ends[i + 1]
      OBVIOUS
    <3>3. later \in [0..k -> Nat]
      BY <3>1
    <3>. HIDE DEF later
    <3>4. later[0] = ends[1] /\ later[k] = ends[k + 1] /\ ends[k + 1] = Len(flat)
      <4>1. 0 \in 0..k /\ k \in 0..k /\ 0 + 1 = 1
        BY <2>1
      <4>2. ends[Len(s)] = Len(flat)
        BY <2>7 DEF EndsOf
      <4>. QED  BY <2>3, <3>2, <4>1, <4>2
    <3>5. ASSUME NEW i \in 1..k
          PROVE  /\ later[i] = later[i - 1] + Len(Varint(Zigzag(indexes[i])))
                 /\ Occurs(data, later[i - 1], Varint(Zigzag(indexes[i])))
      <4>1. i + 1 \in 1..Len(s) /\ i \in 0..k /\ i - 1 \in 0..k /\ (i + 1) - 1 = i /\ (i - 1) + 1 = i
        BY <2>1, <2>3
      <4>2. later[i] = ends[i + 1] /\ later[i - 1] = ends[i]
        BY <3>2, <4>1
      <4>3. ends[i + 1] = ends[i] + Len(s[i + 1]) /\ Occurs(data, ends[i], s[i + 1])
        BY <2>7, <2>9, <4>1 DEF EndsOf
      <4>. QED  BY <2>3, <4>2, <4>3
    <3>. QED  BY <3>3, <3>4, <3>5 DEF InTurn, size, k
  <2>. HIDE DEF later, size
  <2>12. ReadIndexes(data, size) = [ok |-> TRUE, indexes |-> indexes, offset |-> Len(flat)]
    <3>1. size.value = Len(indexes) /\ size.offset = later[0] /\ later[Len(indexes)] = Len(flat)
      BY <2>11 DEF k
    <3>. QED  BY <2>8, <2>11, <3>1, IndexesInTurn
  <2>13. \A i \in DOMAIN indexes : indexes[i] >= 0
    BY <2>1
  <2>14. IndexesOf(data, ReadIndexes(data, size)) = [ok |-> TRUE, indexes |-> indexes, rest |-> rest]
    <3>. DEFINE read == [ok |-> TRUE, indexes |-> indexes, offset |-> Len(flat)]
    <3>1. read.ok /\ read.indexes = indexes /\ read.offset = Len(flat)
      OBVIOUS
    <3>. HIDE DEF read
    <3>2. IndexesOf(data, read) = [ok |-> TRUE, indexes |-> indexes, rest |-> rest]
      BY <2>8, <2>13, <3>1, Zenon DEF IndexesOf
    <3>. QED  BY <2>12, <3>2 DEF read
  <2>15. ParseMessageIndexes(data) = IndexesOf(data, ReadIndexes(data, size))
    <3>1. size.ok /\ ~(size.value < 0) /\ ~(size.value > MAX_MESSAGE_INDEXES) /\ size.value # 0
      BY <2>1, SMT DEF size, MAX_MESSAGE_INDEXES
    <3>. QED  BY <2>10, <3>1 DEF ParseMessageIndexes, IndexesBehind, size
  <2>. QED  BY <2>4, <2>6, <2>14, <2>15 DEF data
<1>. QED  BY <1>1, <1>2

-----------------------------------------------------------------------------
\* Type references.
LEMMA Concatenated ==
  ASSUME NEW s \in Seq(Nat), NEW t \in Seq(Nat)
  PROVE  /\ s \o t \in Seq(Nat) /\ Len(s \o t) = Len(s) + Len(t)
         /\ Len(s) \in Nat /\ Len(t) \in Nat
  OBVIOUS

\* What is written behind its length.
LEMMA DelimitedIs ==
  ASSUME NEW before \in Seq(Nat), NEW bytes \in Seq(Nat), NEW rest \in Seq(Nat),
         NEW least \in Nat, least <= Len(bytes)
  PROVE  Delimited((before \o bytes) \o rest,
                   [ok |-> TRUE, value |-> Len(bytes), offset |-> Len(before)], least)
           = [ok |-> TRUE, bytes |-> bytes, rest |-> rest]
<1>. DEFINE data == (before \o bytes) \o rest
            size == [ok |-> TRUE, value |-> Len(bytes), offset |-> Len(before)]
<1>1. /\ Len(before) \in Nat /\ Len(bytes) \in Nat /\ Len(rest) \in Nat
      /\ Len(data) = Len(before) + Len(bytes) + Len(rest)
  OBVIOUS
<1>2. SubSeq(data, Len(before) + 1, Len(before) + Len(bytes)) = bytes
  OBVIOUS
<1>3. SubSeq(data, Len(before) + Len(bytes) + 1, Len(data)) = rest
  OBVIOUS
<1>4. size.ok = TRUE /\ size.value = Len(bytes) /\ size.offset = Len(before)
  OBVIOUS
<1>5. ~(~size.ok \/ size.value < least \/ size.offset + size.value > Len(data))
  BY <1>1, <1>4
<1>6. Delimited(data, size, least)
        = [ok    |-> TRUE,
           bytes |-> SubSeq(data, size.offset + 1, size.offset + size.value),
           rest  |-> SubSeq(data, size.offset + size.value + 1, Len(data))]
  BY <1>5, Zenon DEF Delimited
<1>. QED  BY <1>2, <1>3, <1>4, <1>6

IsLength(n) == n \in Nat /\ Has35Bits(n)

\* A name that Apicurio's reference can hold: ASCII, and not too long for 35 bits.
IsName(name) ==
  /\ name \in Seq(Nat) /\ IsLength(Len(name) + 6)
  /\ \A i \in 1..Len(name) : name[i] < 128

\* Apicurio's type reference is read back as it was written, and what stands
\* behind it is left: the reader takes the reference for one, its length and its
\* name for what they are, and not a byte of the message.
THEOREM TypeRefsAreReadBack ==
  ASSUME NEW name, IsName(name), NEW rest \in Seq(Nat)
  PROVE  /\ TypeRef(name) \in Seq(Nat)
         /\ ParseTypeRef(TypeRef(name) \o rest) = [named |-> TRUE, name |-> name, rest |-> rest]
<1>. DEFINE n == Len(name)
            tag == <<TYPE_REF_NAME_TAG>>
            size == Varint(n)
            head == tag \o size
            reference == head \o name
            l == Len(reference)
            outer == Varint(l)
            data == (outer \o reference) \o rest
<1>1. name \in Seq(Nat) /\ n \in Nat /\ \A i \in 1..n : name[i] < 128
  BY DEF IsName
<1>2. Has35Bits(n)
  BY <1>1, SMT DEF IsName, IsLength, Has35Bits
<1>3. size \in Seq(Nat) /\ Len(size) \in Nat /\ Len(size) <= 5 /\ Len(size) >= 1
  BY <1>1, <1>2, VarintIs, VarintShape, VarintLength, SMT DEF Within, Has35Bits
<1>. HIDE DEF size, n
<1>4. /\ tag \in Seq(Nat) /\ Len(tag) = 1 /\ tag[1] = 10
      /\ tag = Varint(10) /\ Has35Bits(10)
  <2>1. Varint(10) = <<10>>
    BY VarintIs
  <2>. QED  BY <2>1, SMT DEF Has35Bits, TYPE_REF_NAME_TAG
<1>. HIDE DEF tag
<1>5. head \in Seq(Nat) /\ Len(head) = 1 + Len(size)
  <2>1. head \in Seq(Nat) /\ Len(head) = Len(tag) + Len(size)
    BY <1>3, <1>4, Concatenated, Zenon
  <2>. HIDE DEF head
  <2>. QED  BY <1>4, <2>1, Zenon
<1>6. Occurs(head, 0, tag) /\ Occurs(head, 1, size)
  <2>1. Occurs(tag, 0, tag)
    BY <1>4 DEF Occurs
  <2>. QED  BY <1>3, <1>4, <2>1, OccursBefore, OccursBehind
<1>. HIDE DEF head
<1>7. /\ reference \in Seq(Nat) /\ l = 1 + Len(size) + n /\ l \in Nat /\ l >= 1 /\ Len(reference) = l
      /\ Occurs(reference, 0, tag) /\ Occurs(reference, 1, size)
  <2>1. Occurs(reference, 0, tag) /\ Occurs(reference, 1, size)
    BY <1>1, <1>3, <1>4, <1>5, <1>6, OccursBefore
  <2>2. reference \in Seq(Nat) /\ Len(reference) = Len(head) + Len(name)
    BY <1>1, <1>5, Concatenated
  <2>. QED  BY <1>1, <1>3, <1>5, <2>1, <2>2 DEF n
<1>8. Has35Bits(l)
  BY <1>1, <1>3, <1>7, SMT DEF IsName, IsLength, Has35Bits, n
<1>9. TypeRef(name) = outer \o reference
  <2>1. <<TYPE_REF_NAME_TAG>> \o Varint(Len(name)) \o name = reference
    BY DEF head, tag, size, n
  <2>. QED  BY <2>1, Zenon DEF TypeRef
<1>. HIDE DEF reference, l
<1>10. outer \in Seq(Nat)
  BY <1>7, VarintIs
<1>11. ReadVarint(data, 0) = [ok |-> TRUE, value |-> l, offset |-> Len(outer)]
  <2>1. Occurs(outer, 0, outer)
    BY <1>10 DEF Occurs
  <2>. HIDE DEF outer
  <2>2. Occurs(outer \o reference, 0, outer) /\ outer \o reference \in Seq(Nat)
    BY <1>7, <1>10, <2>1, OccursBefore
  <2>3. Occurs(data, 0, outer) /\ data \in Seq(Nat) /\ Len(outer) \in Nat
    <3>. DEFINE front == outer \o reference
    <3>1. front \in Seq(Nat) /\ Occurs(front, 0, outer) /\ data = front \o rest
      BY <2>2
    <3>. HIDE DEF front, data
    <3>. QED  BY <1>10, <3>1, OccursBefore, Concatenated
  <2>. HIDE DEF data
  <2>4. ReadVarint(data, 0) = [ok |-> TRUE, value |-> l, offset |-> 0 + Len(outer)]
    BY <1>7, <1>8, <2>3, ReadVarintIs DEF outer
  <2>. QED  BY <2>3, <2>4
<1>. DEFINE ref == Delimited(data, ReadVarint(data, 0), 1)
            inner == ReadVarint(reference, 0)
            found == NameIn(inner, reference)
<1>12. ref = [ok |-> TRUE, bytes |-> reference, rest |-> rest]
  <2>. HIDE DEF outer
  <2>. DEFINE at == ReadVarint(data, 0)
  <2>1. at = [ok |-> TRUE, value |-> Len(reference), offset |-> Len(outer)]
    BY <1>7, <1>11
  <2>. HIDE DEF at
  <2>2. Delimited(data, at, 1) = [ok |-> TRUE, bytes |-> reference, rest |-> rest]
    <3>1. 1 \in Nat /\ 1 <= Len(reference)
      BY <1>7
    <3>2. Delimited((outer \o reference) \o rest,
                    [ok |-> TRUE, value |-> Len(reference), offset |-> Len(outer)], 1)
            = [ok |-> TRUE, bytes |-> reference, rest |-> rest]
      BY <1>7, <1>10, <3>1, DelimitedIs
    <3>. QED  BY <2>1, <3>2
  <2>. QED  BY <2>2 DEF at
<1>. HIDE DEF outer, data
<1>13. inner = [ok |-> TRUE, value |-> 10, offset |-> 1]
  <2>1. Occurs(reference, 0, Varint(10)) /\ Len(Varint(10)) = 1
    BY <1>4, <1>7
  <2>2. ReadVarint(reference, 0) = [ok |-> TRUE, value |-> 10, offset |-> 0 + Len(Varint(10))]
    BY <1>4, <1>7, <2>1, ReadVarintIs
  <2>3. 0 + Len(Varint(10)) = 1
    BY <2>1
  <2>. QED  BY <2>2, <2>3
<1>14. ReadVarint(reference, 1) = [ok |-> TRUE, value |-> n, offset |-> Len(head)]
  <2>1. Occurs(reference, 1, Varint(n)) /\ 1 + Len(Varint(n)) = Len(head)
    BY <1>5, <1>7 DEF size
  <2>2. ReadVarint(reference, 1) = [ok |-> TRUE, value |-> n, offset |-> 1 + Len(Varint(n))]
    BY <1>1, <1>2, <1>7, <2>1, ReadVarintIs
  <2>. QED  BY <2>1, <2>2
<1>15. found = [ok |-> TRUE, bytes |-> name, rest |-> <<>>]
  <2>. DEFINE at == ReadVarint(reference, 1)
              none == <<>>
              least == 0
  <2>1. at = [ok |-> TRUE, value |-> Len(name), offset |-> Len(head)]
    BY <1>14 DEF n
  <2>2. none \in Seq(Nat) /\ least \in Nat /\ least <= Len(name)
    BY <1>1 DEF n
  <2>3. reference = (head \o name) \o none
    BY <1>1, <1>5 DEF reference
  <2>. HIDE DEF at, none, least
  <2>4. Delimited((head \o name) \o none,
                  [ok |-> TRUE, value |-> Len(name), offset |-> Len(head)], least)
          = [ok |-> TRUE, bytes |-> name, rest |-> none]
    <3>1. head \in Seq(Nat) /\ name \in Seq(Nat)
      BY <1>1, <1>5
    <3>. HIDE DEF head
    <3>. QED  BY <2>2, <3>1, DelimitedIs
  <2>5. Delimited(reference, at, least) = [ok |-> TRUE, bytes |-> name, rest |-> none]
    BY <2>1, <2>3, <2>4, Zenon
  <2>6. found = Delimited(reference, ReadVarint(reference, 1), 0)
    <3>1. inner.ok /\ inner.value = TYPE_REF_NAME_TAG /\ inner.offset = 1
      BY <1>13 DEF TYPE_REF_NAME_TAG
    <3>. QED  BY <3>1, Zenon DEF NameIn
  <2>. QED  BY <2>5, <2>6 DEF at, none, least
<1>. HIDE DEF inner
<1>16. ParseTypeRef(data) = Referenced(data, ref, found)
  <2>1. ref.bytes = reference
    BY <1>12
  <2>. QED  BY <2>1, Zenon DEF ParseTypeRef, inner
<1>. HIDE DEF ref, found
<1>17. Referenced(data, ref, found) = [named |-> TRUE, name |-> name, rest |-> rest]
  <2>1. ref.ok /\ found.ok /\ found.bytes = name /\ ref.rest = rest
        /\ \A i \in DOMAIN name : name[i] < 128
    BY <1>1, <1>12, <1>15 DEF n
  <2>. QED  BY <2>1 DEF Referenced
<1>. QED  BY <1>7, <1>9, <1>10, <1>16, <1>17 DEF data

-----------------------------------------------------------------------------
\* What is read of any bytes.
LEMMA ValueIsNat ==
  ASSUME NEW data, NEW offset \in Nat, NEW end \in Nat, offset < end,
         AreBytes(data, offset + 1, end), NEW c, IsValue(c, data, offset, end)
  PROVE  c[offset + 1] \in Nat
<1>. DEFINE k == (end + 1) - (offset + 1)
            T == {n \in 0..k : c[(end + 1) - n] \in Nat}
<1>1. k \in Nat /\ (end + 1) - k = offset + 1
  OBVIOUS
<1>2. \A n \in 0..k : (end + 1) - n \in offset + 1 .. end + 1
  OBVIOUS
<1>3. \A i \in offset + 1 .. end + 1 :
        c[i] = IF i > end THEN 0 ELSE (data[i] % 128) + 128 * c[i + 1]
  BY Zenon DEF IsValue
<1>4. 0 \in T
  <2>1. (end + 1) - 0 = end + 1 /\ end + 1 > end /\ end + 1 \in offset + 1 .. end + 1 /\ 0 \in 0..k
    BY <1>1
  <2>. QED  BY <1>3, <2>1
<1>5. \A n \in 1..k : n - 1 \in T => n \in T
  <2>. SUFFICES ASSUME NEW n \in 1..k, n - 1 \in T PROVE n \in T
    OBVIOUS
  <2>. DEFINE i == (end + 1) - n
  <2>1. i \in offset + 1 .. end /\ i \in offset + 1 .. end + 1 /\ ~(i > end) /\ i + 1 = (end + 1) - (n - 1)
    OBVIOUS
  <2>2. c[i + 1] \in Nat
    BY <2>1
  <2>3. data[i] \in Nat
    BY <2>1 DEF AreBytes
  <2>4. c[i] = (data[i] % 128) + 128 * c[i + 1]
    BY <1>3, <2>1
  <2>. HIDE DEF i
  <2>5. c[i] \in Nat
    BY <2>2, <2>3, <2>4
  <2>. QED  BY <1>1, <2>5 DEF i
<1>. HIDE DEF T
<1>6. \A n \in 0..k : n \in T
  BY <1>1, <1>4, <1>5, UpTo
<1>7. k \in T
  BY <1>1, <1>6
<1>. QED  BY <1>1, <1>7 DEF T

\* A number that is read takes at least a byte.
LEMMA ReadVarintTakes ==
  ASSUME NEW data \in Seq(Nat), NEW offset \in Nat, ReadVarint(data, offset).ok
  PROVE  /\ ReadVarint(data, offset).value \in Nat
         /\ ReadVarint(data, offset).offset \in offset + 1 .. Len(data)
<1>. DEFINE stops == {i \in offset + 1 .. Len(data) : i <= offset + VARINT_MAX_BYTES /\ data[i] < 128}
            end == Min(stops)
<1>1. stops # {}
  BY DEF ReadVarint, Unread
<1>2. stops \in SUBSET Nat
  OBVIOUS
<1>3. \E e \in stops : \A i \in stops : e <= i
  <2>. HIDE DEF stops
  <2>. QED  BY <1>1, <1>2, LeastOf
<1>4. end \in stops
  <2>. HIDE DEF stops
  <2>. QED  BY <1>3 DEF Min
<1>5. ReadVarint(data, offset) = VarintAt(data, offset, end)
  BY <1>1 DEF ReadVarint
<1>6. end \in Nat /\ end \in offset + 1 .. Len(data) /\ offset < end
  BY <1>4
<1>. HIDE DEF end, stops
<1>7. AreBytes(data, offset + 1, end)
  BY <1>6 DEF AreBytes
<1>. DEFINE c == CHOOSE c : IsValue(c, data, offset, end)
<1>8. IsValue(c, data, offset, end)
  BY <1>6, <1>7, ValueExists
<1>9. VarintAt(data, offset, end) = [ok |-> TRUE, value |-> c[offset + 1], offset |-> end]
  BY DEF VarintAt, IsValue
<1>. HIDE DEF c
<1>10. c[offset + 1] \in Nat
  BY <1>6, <1>7, <1>8, ValueIsNat
<1>. QED  BY <1>5, <1>6, <1>9, <1>10

\* The rest behind a type reference is what was given, or an end of it.
LEMMA RestOfTypeRef ==
  ASSUME NEW payload \in Seq(Nat)
  PROVE  \/ ParseTypeRef(payload).rest = payload
         \/ \E k \in Nat : k >= 2 /\ ParseTypeRef(payload).rest = SubSeq(payload, k, Len(payload))
<1>. DEFINE size == ReadVarint(payload, 0)
            ref == Delimited(payload, size, 1)
            name == NameIn(ReadVarint(ref.bytes, 0), ref.bytes)
<1>1. ParseTypeRef(payload) = Referenced(payload, ref, name)
  BY Zenon DEF ParseTypeRef
<1>. HIDE DEF name
<1>2. CASE ~ref.ok
  BY <1>1, <1>2 DEF Referenced
<1>3. CASE ref.ok
  <2>1. ParseTypeRef(payload).rest \in {payload, ref.rest}
    BY <1>1 DEF Referenced
  <2>2. size.ok /\ ~(size.value < 1)
        /\ ref.rest = SubSeq(payload, size.offset + size.value + 1, Len(payload))
    BY <1>3 DEF Delimited, NotDelimited
  <2>3. size.value \in Nat /\ size.offset \in 1..Len(payload)
    <3>1. ReadVarint(payload, 0).ok /\ 0 \in Nat
      BY <2>2
    <3>. QED  BY <3>1, ReadVarintTakes
  <2>. HIDE DEF size, ref
  <2>4. size.offset + size.value + 1 \in Nat /\ size.offset + size.value + 1 >= 2
    <3>1. \A o, n \in Nat : ~(n < 1) => o + n + 1 \in Nat /\ o + n + 1 >= 2
      OBVIOUS
    <3>2. size.offset \in Nat
      BY <2>3
    <3>. QED  BY <2>2, <2>3, <3>1, <3>2, Zenon
  <2>. QED  BY <2>1, <2>2, <2>4
<1>. QED  BY <1>2, <1>3

-----------------------------------------------------------------------------
\* Escapes.

\* A byte is written and read as two hexadecimal digits.
LEMMA HexIs ==
  ASSUME NEW b \in BYTES
  PROVE  /\ HexDigit(b \div 16) \in Nat /\ IsHexDigit(HexDigit(b \div 16))
         /\ HexDigit(b % 16) \in Nat /\ IsHexDigit(HexDigit(b % 16))
         /\ 16 * HexValue(HexDigit(b \div 16)) + HexValue(HexDigit(b % 16)) = b
<1>1. \A n \in 0..15 : /\ HexDigit(n) \in Nat /\ IsHexDigit(HexDigit(n))
                       /\ HexValue(HexDigit(n)) = n
  BY DEF HexDigit, IsHexDigit, HexValue
<1>2. b \in Nat /\ b <= 255
  BY DEF BYTES
<1>3. b \div 16 \in 0..15
  BY <1>2
<1>4. b % 16 \in 0..15
  BY <1>2
<1>5. 16 * (b \div 16) + (b % 16) = b
  <2>1. \A n \in Nat : 16 * (n \div 16) + (n % 16) = n
    OBVIOUS
  <2>. QED  BY <1>2, <2>1
<1>6. /\ HexValue(HexDigit(b \div 16)) = b \div 16
      /\ HexValue(HexDigit(b % 16)) = b % 16
  BY <1>1, <1>3, <1>4
<1>7. /\ HexDigit(b \div 16) \in Nat /\ IsHexDigit(HexDigit(b \div 16))
      /\ HexDigit(b % 16) \in Nat /\ IsHexDigit(HexDigit(b % 16))
  BY <1>1, <1>3, <1>4
<1>8. 16 * HexValue(HexDigit(b \div 16)) + HexValue(HexDigit(b % 16)) = b
  BY <1>5, <1>6, Zenon
<1>. QED  BY <1>7, <1>8, Zenon

\* The escape of a byte is found where it was put, and stands for the byte.
LEMMA EscapedByteIs ==
  ASSUME NEW b \in BYTES
  PROVE  /\ EscapedByte(b) \in Seq(Nat) /\ Len(EscapedByte(b)) \in 1..4
         /\ \A text \in Seq(Nat) : \A offset \in Nat :
              Occurs(text, offset, EscapedByte(b)) =>
                /\ LengthAt(text, offset + 1) = Len(EscapedByte(b))
                /\ ByteAt(text, offset + 1) = b
<1>. DEFINE high == HexDigit(b \div 16)
            low == HexDigit(b % 16)
            IsFound(text, offset) ==
              /\ LengthAt(text, offset + 1) = Len(EscapedByte(b))
              /\ ByteAt(text, offset + 1) = b
<1>1. /\ high \in Nat /\ IsHexDigit(high) /\ low \in Nat /\ IsHexDigit(low)
      /\ 16 * HexValue(high) + HexValue(low) = b
  BY HexIs
<1>2. b \in Nat /\ BACKSLASH \in Nat /\ LETTER_X \in Nat /\ LETTER_X # BACKSLASH
      /\ Printable(BACKSLASH)
  BY DEF BYTES, BACKSLASH, LETTER_X, Printable
<1>. HIDE DEF high, low
<1>3. CASE b = BACKSLASH
  <2>. DEFINE s == <<BACKSLASH, BACKSLASH>>
  <2>1. EscapedByte(b) = s /\ s \in Seq(Nat) /\ Len(s) = 2 /\ s[1] = BACKSLASH /\ s[2] = BACKSLASH
    BY <1>2, <1>3 DEF EscapedByte
  <2>. HIDE DEF s
  <2>2. ASSUME NEW text \in Seq(Nat), NEW offset \in Nat, Occurs(text, offset, s)
        PROVE  IsFound(text, offset)
    <3>1. /\ offset + 2 <= Len(text) /\ text[offset + 1] = BACKSLASH
          /\ text[offset + 2] = BACKSLASH
      BY <2>1, <2>2 DEF Occurs
    <3>2. LengthAt(text, offset + 1) = 2
      BY <3>1 DEF LengthAt
    <3>. QED  BY <1>3, <2>1, <3>1, <3>2 DEF ByteAt
  <2>. QED  BY <2>1, <2>2
<1>4. CASE b # BACKSLASH /\ Printable(b)
  <2>. DEFINE s == <<b>>
  <2>1. EscapedByte(b) = s /\ s \in Seq(Nat) /\ Len(s) = 1 /\ s[1] = b
    BY <1>2, <1>4 DEF EscapedByte
  <2>. HIDE DEF s
  <2>2. ASSUME NEW text \in Seq(Nat), NEW offset \in Nat, Occurs(text, offset, s)
        PROVE  IsFound(text, offset)
    <3>1. offset + 1 <= Len(text) /\ text[offset + 1] = b
      BY <2>1, <2>2 DEF Occurs
    <3>2. LengthAt(text, offset + 1) = 1
      BY <1>4, <3>1 DEF LengthAt
    <3>. QED  BY <2>1, <3>1, <3>2 DEF ByteAt
  <2>. QED  BY <2>1, <2>2
<1>5. CASE b # BACKSLASH /\ ~Printable(b)
  <2>. DEFINE s == <<BACKSLASH, LETTER_X, high, low>>
  <2>1. /\ EscapedByte(b) = s /\ s \in Seq(Nat) /\ Len(s) = 4
        /\ s[1] = BACKSLASH /\ s[2] = LETTER_X /\ s[3] = high /\ s[4] = low
    BY <1>1, <1>2, <1>5 DEF EscapedByte, high, low
  <2>. HIDE DEF s
  <2>2. ASSUME NEW text \in Seq(Nat), NEW offset \in Nat, Occurs(text, offset, s)
        PROVE  IsFound(text, offset)
    <3>1. /\ offset + 4 <= Len(text) /\ text[offset + 1] = BACKSLASH
          /\ text[offset + 2] = LETTER_X /\ text[offset + 3] = high /\ text[offset + 4] = low
      BY <2>1, <2>2 DEF Occurs
    <3>2. LengthAt(text, offset + 1) = 4
      <4>1. /\ (offset + 1) + 1 = offset + 2 /\ (offset + 1) + 2 = offset + 3
            /\ (offset + 1) + 3 = offset + 4
        OBVIOUS
      <4>2. IsHexDigit(text[(offset + 1) + 2]) /\ IsHexDigit(text[(offset + 1) + 3])
        BY <1>1, <3>1, <4>1
      <4>3. /\ (offset + 1) + 3 <= Len(text) /\ text[offset + 1] = BACKSLASH
            /\ text[(offset + 1) + 1] = LETTER_X /\ text[(offset + 1) + 1] # BACKSLASH
        BY <1>2, <3>1, <4>1
      <4>. QED  BY <4>2, <4>3, Zenon DEF LengthAt
    <3>3. ByteAt(text, offset + 1) = 16 * HexValue(high) + HexValue(low)
      BY <3>1, <3>2 DEF ByteAt
    <3>. QED  BY <1>1, <2>1, <3>2, <3>3
  <2>. QED  BY <2>1, <2>2
<1>. QED  BY <1>3, <1>4, <1>5

\* What is read from each position of a text.
IsUnescaping(read, text) ==
  read = [i \in 1 .. Len(text) + 1 |->
            IF i > Len(text) THEN <<>>
            ELSE IF LengthAt(text, i) = 0 THEN <<-1>>
            ELSE <<ByteAt(text, i)>> \o read[i + LengthAt(text, i)]]

\* No escape goes beyond the text, and each byte of it is a number.
LEMMA EscapeFits ==
  ASSUME NEW text \in Seq(Nat), NEW i \in 1..Len(text), LengthAt(text, i) # 0
  PROVE  /\ LengthAt(text, i) \in 1..4 /\ i + LengthAt(text, i) \in 1 .. Len(text) + 1
         /\ ByteAt(text, i) \in Int
<1>1. LengthAt(text, i) \in 1..4 /\ i + LengthAt(text, i) <= Len(text) + 1
  BY DEF LengthAt
<1>2. LengthAt(text, i) = 4 => i + 3 <= Len(text)
  BY <1>1
<1>3. \A c \in Nat : HexValue(c) \in Int
  BY DEF HexValue
<1>4. ByteAt(text, i) \in Int
  <2>1. CASE LengthAt(text, i) = 4
    <3>1. i + 2 \in 1..Len(text) /\ i + 3 \in 1..Len(text)
      BY <1>2, <2>1
    <3>2. text[i + 2] \in Nat /\ text[i + 3] \in Nat
      BY <3>1
    <3>3. HexValue(text[i + 2]) \in Int /\ HexValue(text[i + 3]) \in Int
      BY <1>3, <3>2
    <3>. QED  BY <2>1, <3>3 DEF ByteAt
  <2>. QED  BY <2>1 DEF ByteAt
<1>. QED  BY <1>1, <1>4

\* The recursion of what is read defines a function.
LEMMA UnescapingExists ==
  ASSUME NEW text \in Seq(Nat)
  PROVE  \E read : IsUnescaping(read, text)
<1>. DEFINE n == Len(text)
            D == 1 .. n + 1
            V == Seq(Int)
            Onward(i) == i + LengthAt(text, i)
            Put(i, rest) == <<ByteAt(text, i)>> \o rest
            Refusal == <<-1>>
            m == [i \in D |-> (n + 1) - i]
            B == [p \in D \X [D -> V] |->
                    IF p[1] > n THEN <<>>
                    ELSE IF LengthAt(text, p[1]) = 0 THEN Refusal
                    ELSE Put(p[1], p[2][Onward(p[1])])]
<1>1. n \in Nat
  OBVIOUS
<1>2. ASSUME NEW i \in D, ~(i > n), LengthAt(text, i) # 0
      PROVE  Onward(i) \in D /\ (n + 1) - Onward(i) < (n + 1) - i /\ \A rest \in V : Put(i, rest) \in V
  <2>1. i \in 1..Len(text)
    BY <1>1, <1>2
  <2>2. LengthAt(text, i) \in 1..4 /\ Onward(i) \in D /\ ByteAt(text, i) \in Int
    BY <1>2, <2>1, EscapeFits
  <2>3. ASSUME NEW rest \in Seq(Int) PROVE <<ByteAt(text, i)>> \o rest \in Seq(Int)
    BY <2>2
  <2>. QED  BY <1>1, <2>2, <2>3
<1>3. <<>> \in V /\ Refusal \in V
  OBVIOUS
<1>4. m \in [D -> Nat] /\ \A i \in D : m[i] = (n + 1) - i
  BY <1>1
<1>. HIDE DEF n, D, V, Onward, Put, Refusal
<1>5. \A i \in D : \A g \in [D -> V] :
        B[<<i, g>>] = IF i > n THEN <<>> ELSE IF LengthAt(text, i) = 0 THEN Refusal
                      ELSE Put(i, g[Onward(i)])
  OBVIOUS
<1>6. B \in [D \X [D -> V] -> V]
  <2>1. \A i \in D : \A g \in [D -> V] :
          (IF i > n THEN <<>> ELSE IF LengthAt(text, i) = 0 THEN Refusal
           ELSE Put(i, g[Onward(i)])) \in V
    BY <1>2, <1>3
  <2>. QED  BY <2>1
<1>. HIDE DEF B, m
<1>7. \A i \in D : \A g, h \in [D -> V] :
        (\A y \in D : m[y] < m[i] => g[y] = h[y]) => B[<<i, g>>] = B[<<i, h>>]
  <2>. SUFFICES ASSUME NEW i \in D, NEW g \in [D -> V], NEW h \in [D -> V],
                       \A y \in D : m[y] < m[i] => g[y] = h[y]
                PROVE  B[<<i, g>>] = B[<<i, h>>]
    OBVIOUS
  <2>1. ~(i > n) /\ LengthAt(text, i) # 0 => g[Onward(i)] = h[Onward(i)]
    BY <1>2, <1>4
  <2>. QED  BY <1>5, <2>1
<1>8. Recursion(D, V, m, B)
  BY <1>3, <1>4, <1>6, <1>7 DEF Recursion
<1>9. PICK f \in [D -> V] : \A i \in D : f[i] = B[<<i, f>>]
  BY <1>8, RecursionExists
<1>10. f = [i \in D |-> IF i > n THEN <<>> ELSE IF LengthAt(text, i) = 0 THEN Refusal
                        ELSE Put(i, f[Onward(i)])]
  BY <1>5, <1>9
<1>. QED  BY <1>10 DEF IsUnescaping, D, n, Refusal, Put, Onward

\* Bytes that are shown escaped are read back as they were: no byte that looks like
\* an escape, or a part of one, is taken for another.
THEOREM EscapesAreReadBack ==
  ASSUME NEW bytes \in Seq(BYTES)
  PROVE  Unescaped(Escaped(bytes)) = bytes
<1>. DEFINE n == Len(bytes)
            s == [i \in 1..n |-> EscapedByte(bytes[i])]
            text == FlattenSeq(s)
            read == CHOOSE read : IsUnescaping(read, text)
            Rest(j) == SubSeq(bytes, j + 1, n)
<1>1. n \in Nat /\ (\A i \in 1..n : bytes[i] \in BYTES)
  OBVIOUS
<1>2. Escaped(bytes) = text
  BY DEF Escaped
<1>3. Len(s) = n /\ \A i \in 1..n : s[i] = EscapedByte(bytes[i])
  <2>. HIDE DEF n
  <2>. QED  BY <1>1
<1>4. Rest(0) = bytes /\ Rest(n) = <<>>
  BY <1>1
<1>5. \A j \in 1..n : Rest(j - 1) = <<bytes[j]>> \o Rest(j)
  BY <1>1
<1>. HIDE DEF s, n
<1>6. CASE n = 0
  <2>1. text = s
    BY <1>3, <1>6 DEF FlattenSeq
  <2>2. text \in Seq(Nat) /\ Len(text) = 0
    <3>1. s = <<>>
      BY <1>6 DEF s
    <3>. QED  BY <2>1, <3>1
  <2>. HIDE DEF text
  <2>3. IsUnescaping(read, text)
    BY <2>2, UnescapingExists
  <2>4. Unescaped(text) = read[1]
    BY DEF Unescaped, IsUnescaping
  <2>. HIDE DEF read
  <2>5. read[1] = <<>>
    BY <2>2, <2>3 DEF IsUnescaping
  <2>. QED  BY <1>2, <1>4, <1>6, <2>4, <2>5
<1>7. CASE n # 0
  <2>1. AreSequences(s)
    <3>1. \A i \in 1..n : s[i] \in Seq(Nat)
      BY <1>1, <1>3, EscapedByteIs
    <3>. QED  BY <1>1, <1>3, <1>7, <3>1 DEF AreSequences
  <2>2. text \in Seq(Nat) /\ \E ends : EndsOf(ends, s, text)
    BY <2>1, FlattenIs
  <2>. HIDE DEF text
  <2>3. PICK ends : EndsOf(ends, s, text)
    BY <2>2
  <2>4. /\ ends \in [0..n -> Nat] /\ ends[0] = 0 /\ ends[n] = Len(text)
        /\ \A i \in 1..n : /\ ends[i] = ends[i - 1] + Len(s[i])
                           /\ Occurs(text, ends[i - 1], EscapedByte(bytes[i]))
    BY <1>3, <2>3 DEF EndsOf
  <2>5. IsUnescaping(read, text)
    BY <2>2, UnescapingExists
  <2>6. Unescaped(text) = read[1]
    BY DEF Unescaped, IsUnescaping
  <2>. HIDE DEF read
  <2>7. \A i \in 1 .. Len(text) + 1 :
          /\ i > Len(text) => read[i] = <<>>
          /\ ~(i > Len(text)) /\ LengthAt(text, i) # 0
               => read[i] = <<ByteAt(text, i)>> \o read[i + LengthAt(text, i)]
    BY <2>5 DEF IsUnescaping
  <2>8. \A i \in 1..n : read[ends[i] + 1] = Rest(i) => read[ends[i - 1] + 1] = Rest(i - 1)
    <3>. SUFFICES ASSUME NEW i \in 1..n, read[ends[i] + 1] = Rest(i)
                  PROVE  read[ends[i - 1] + 1] = Rest(i - 1)
      OBVIOUS
    <3>. DEFINE b == bytes[i]
                offset == ends[i - 1]
                length == Len(EscapedByte(b))
    <3>1. b \in BYTES /\ i - 1 \in 0..n /\ offset \in Nat
      BY <1>1, <2>4
    <3>2. ends[i] = offset + length /\ Occurs(text, offset, EscapedByte(b))
      BY <1>3, <2>4
    <3>3. length \in 1..4 /\ LengthAt(text, offset + 1) = length /\ ByteAt(text, offset + 1) = b
      BY <2>2, <3>1, <3>2, EscapedByteIs
    <3>4. offset + length <= Len(text)
      BY <3>2 DEF Occurs
    <3>. HIDE DEF offset, length, b
    <3>5. /\ offset + 1 \in 1 .. Len(text) + 1 /\ ~(offset + 1 > Len(text))
          /\ LengthAt(text, offset + 1) # 0 /\ (offset + 1) + length = (offset + length) + 1
      BY <2>2, <3>1, <3>3, <3>4
    <3>6. read[offset + 1] = <<b>> \o read[(offset + length) + 1]
      BY <2>7, <3>3, <3>5
    <3>. QED  BY <1>5, <3>2, <3>6 DEF b, offset
  <2>9. read[ends[n] + 1] = Rest(n)
    <3>1. Len(text) \in Nat /\ Len(text) + 1 \in 1 .. Len(text) + 1 /\ Len(text) + 1 > Len(text)
      BY <2>2
    <3>2. read[Len(text) + 1] = <<>>
      BY <2>7, <3>1
    <3>. HIDE DEF Rest
    <3>. QED  BY <1>4, <2>4, <3>2
  <2>. DEFINE T == {k \in 0..n : read[ends[n - k] + 1] = Rest(n - k)}
  <2>10. 0 \in T
    BY <1>1, <2>9
  <2>11. ASSUME NEW k \in 1..n, k - 1 \in T PROVE k \in T
    <3>1. (n - k) + 1 \in 1..n /\ n - (k - 1) = (n - k) + 1 /\ ((n - k) + 1) - 1 = n - k /\ k \in 0..n
      BY <1>1
    <3>2. read[ends[(n - k) + 1] + 1] = Rest((n - k) + 1)
      BY <2>11, <3>1
    <3>3. read[ends[n - k] + 1] = Rest(n - k)
      <4>. DEFINE i == (n - k) + 1
      <4>1. i \in 1..n /\ i - 1 = n - k /\ read[ends[i] + 1] = Rest(i)
        BY <3>1, <3>2
      <4>. HIDE DEF i, Rest
      <4>. QED  BY <2>8, <4>1
    <3>. QED  BY <3>1, <3>3
  <2>. HIDE DEF T
  <2>12. n \in T
    <3>1. \A k \in 0..n : k \in T
      BY <1>1, <2>10, <2>11, UpTo
    <3>. QED  BY <1>1, <3>1
  <2>13. read[ends[0] + 1] = Rest(0)
    <3>1. n - n = 0
      BY <1>1
    <3>. HIDE DEF Rest
    <3>. QED  BY <2>12, <3>1 DEF T
  <2>. HIDE DEF Rest
  <2>. QED  BY <1>2, <1>4, <2>4, <2>6, <2>13
<1>. QED  BY <1>6, <1>7

=============================================================================
