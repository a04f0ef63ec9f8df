------------------------------ MODULE FoldProofs ------------------------------
(* What the proofs need of numbers and of the folds of the community       *)
(* modules: the least of a set, what a fold computes, and where the members*)
(* of a flattened or filtered sequence come from.  A library theorem with  *)
(* an operator parameter cannot be instantiated by the provers in use, so  *)
(* induction and the existence of a recursive function are stated here     *)
(* about sets and functions.                                               *)
EXTENDS Integers, FiniteSets, Sequences, SequencesExt, TLAPS, FiniteSetTheorems

-----------------------------------------------------------------------------
(* Least and greatest numbers, and induction. *)

(* A non-empty set of numbers has a least one.                             *)
LEMMA LeastNumber ==
  ASSUME NEW T \in SUBSET Nat, T # {}
  PROVE  \E n \in T : \A m \in T : n <= m
<1> DEFINE X == {1..n : n \in T}
<1>1. X \subseteq FiniteSubsetsOf(Nat)
  <2>1. \A n \in T : (1..n) \in SUBSET Nat /\ IsFiniteSet(1..n)
    BY FS_Interval
  <2>. QED  BY <2>1 DEF FiniteSubsetsOf
<1>2. X # {}
  OBVIOUS
<1>3. \E x \in X : \A y \in X : ~ (<<y, x>> \in StrictSubsetOrdering(Nat))
  <2> HIDE DEF X
  <2>. QED  BY <1>1, <1>2, FS_StrictSubsetOrderingWellFounded, WFMin
<1>4. PICK n \in T : \A m \in T : ~ (<<1..m, 1..n>> \in StrictSubsetOrdering(Nat))
  BY <1>3
<1>5. ASSUME NEW m \in T, m < n
      PROVE  <<1..m, 1..n>> \in StrictSubsetOrdering(Nat)
  <2>1. 1..m \subseteq 1..n /\ n \in 1..n /\ n \notin 1..m
    BY <1>5
  <2>. QED  BY <2>1 DEF StrictSubsetOrdering
<1>6. \A m \in T : ~ (m < n)
  <2> HIDE DEF X
  <2>. QED  BY <1>4, <1>5
<1>7. \A m \in T : n <= m
  <2> HIDE DEF X
  <2>1. T \subseteq Nat /\ n \in Nat
    OBVIOUS
  <2>. QED  BY <1>6, <2>1
<1>. QED  BY <1>7

(* A finite one has a greatest.                                            *)
LEMMA GreatestNumber ==
  ASSUME NEW T \in SUBSET Nat, T # {}, IsFiniteSet(T)
  PROVE  \E n \in T : \A m \in T : m <= n
<1> DEFINE From(n) == {m \in T : n <= m}
           X == {From(n) : n \in T}
<1>1. X \subseteq FiniteSubsetsOf(Nat)
  <2>1. \A n \in T : From(n) \in SUBSET T
    OBVIOUS
  <2> HIDE DEF From
  <2>2. \A n \in T : From(n) \in SUBSET Nat /\ IsFiniteSet(From(n))
    BY <2>1, FS_Subset
  <2>. QED  BY <2>2 DEF FiniteSubsetsOf
<1>2. X # {}
  OBVIOUS
<1>3. \E x \in X : \A y \in X : ~ (<<y, x>> \in StrictSubsetOrdering(Nat))
  <2> HIDE DEF X
  <2>. QED  BY <1>1, <1>2, FS_StrictSubsetOrderingWellFounded, WFMin
<1>4. PICK n \in T : \A m \in T : ~ (<<From(m), From(n)>> \in StrictSubsetOrdering(Nat))
  <2> HIDE DEF From
  <2>. QED  BY <1>3
<1>5. ASSUME NEW m \in T, n < m
      PROVE  <<From(m), From(n)>> \in StrictSubsetOrdering(Nat)
  <2>0. T \subseteq Nat /\ m \in Nat /\ n \in Nat /\ n < m
    BY <1>5
  <2>1. From(m) \subseteq From(n) /\ n \in From(n) /\ n \notin From(m)
    <3>1. \A k \in T : k \in From(m) => k \in From(n)
      BY <2>0
    <3>2. n \in From(n) /\ n \notin From(m)
      BY <2>0
    <3>3. From(m) \subseteq T
      OBVIOUS
    <3> HIDE DEF From
    <3>. QED  BY <3>1, <3>2, <3>3
  <2>2. From(m) \in SUBSET Nat /\ From(n) \in SUBSET Nat
    OBVIOUS
  <2> HIDE DEF From
  <2>. QED  BY <2>1, <2>2 DEF StrictSubsetOrdering
<1>6. \A m \in T : ~ (n < m)
  <2> HIDE DEF X, From
  <2>. QED  BY <1>4, <1>5
<1>7. \A m \in T : m <= n
  <2> HIDE DEF X, From
  <2>1. T \subseteq Nat /\ n \in Nat
    OBVIOUS
  <2>. QED  BY <1>6, <2>1
<1>. QED  BY <1>7

LEMMA MinIs ==
  ASSUME NEW T \in SUBSET Nat, T # {}
  PROVE  Min(T) \in T /\ \A m \in T : Min(T) <= m
BY LeastNumber DEF Min

LEMMA MaxIs ==
  ASSUME NEW T \in SUBSET Nat, T # {}, IsFiniteSet(T)
  PROVE  Max(T) \in T /\ \A m \in T : m <= Max(T)
<1>1. \E n \in T : \A m \in T : n >= m
  BY GreatestNumber
<1>. QED  BY <1>1 DEF Max

(* What holds of 0 and of n whenever it holds of n - 1 holds of 0..k.      *)
LEMMA Induction ==
  ASSUME NEW k \in Nat, NEW T, 0 \in T, \A n \in 1..k : n - 1 \in T => n \in T
  PROVE  0..k \subseteq T
<1> DEFINE U == {n \in 0..k : n \notin T}
<1>1. U \in SUBSET Nat
  OBVIOUS
<1>2. ASSUME U # {} PROVE FALSE
  <2>1. PICK n \in U : \A m \in U : n <= m
    <3> HIDE DEF U
    <3>. QED  BY <1>1, <1>2, LeastNumber
  <2>2. n \in 0..k /\ n # 0 /\ n \notin T
    BY <2>1
  <2>3. n \in 1..k /\ n - 1 \in 0..k /\ n - 1 \notin T
    BY <2>2
  <2>4. n - 1 \in U
    BY <2>3
  <2>. QED  BY <2>1, <2>2, <2>4
<1>. QED  BY <1>2

LEMMA MaxOfInterval ==
  ASSUME NEW n \in Nat \ {0}
  PROVE  Max(1..n) = n /\ (1..n) \ {n} = 1..(n - 1)
<1>0. 1..n \in SUBSET Nat /\ n \in 1..n
  OBVIOUS
<1>1. 1..n # {} /\ IsFiniteSet(1..n)
  <2>1. IsFiniteSet(1..n)
    BY FS_Interval
  <2>. QED  BY <1>0, <2>1
<1>2. Max(1..n) \in 1..n /\ \A m \in 1..n : m <= Max(1..n)
  BY <1>0, <1>1, MaxIs
<1>. QED  BY <1>0, <1>2

-----------------------------------------------------------------------------
(* The function by which MapThenFoldSet and so FoldLeft are defined: it    *)
(* recurs over the sets of positions, taking the last position off.        *)
FoldsTo(g, k, A, base, step) ==
    /\ g \in [SUBSET (1..k) -> A]
    /\ g[{}] = base
    /\ \A s \in SUBSET (1..k) : s # {} =>
          /\ Max(s) \in 1..k /\ g[s \ {Max(s)}] \in A
          /\ g[s] = step[Max(s)][g[s \ {Max(s)}]]

LEMMA FoldExists ==
  ASSUME NEW k \in Nat, NEW A, NEW base \in A, NEW step \in [1..k -> [A -> A]]
  PROVE  \E g : FoldsTo(g, k, A, base, step)
<1> DEFINE IsFold(g, n) ==
             /\ g \in [SUBSET (1..n) -> A]
             /\ g[{}] = base
             /\ \A s \in SUBSET (1..n) : s # {} => g[s] = step[Max(s)][g[s \ {Max(s)}]]
           T == {n \in 0..k : \E g : IsFold(g, n)}
<1>1. 0 \in T
  <2> DEFINE g == [s \in {{}} |-> base]
  <2>1. SUBSET (1..0) = {{}}
    OBVIOUS
  <2>2. IsFold(g, 0)
    BY <2>1
  <2>3. \E f : IsFold(f, 0)
    BY <2>2
  <2> HIDE DEF IsFold
  <2>. QED  BY <2>3
<1>2. ASSUME NEW n \in 1..k, n - 1 \in T PROVE n \in T
  <2>1. PICK g : IsFold(g, n - 1)
    BY <1>2
  <2> DEFINE f == [s \in SUBSET (1..n) |->
                     IF n \in s THEN step[n][g[s \ {n}]] ELSE g[s]]
  <2>2. \A s \in SUBSET (1..n) : s \ {n} \in SUBSET (1..(n - 1))
    OBVIOUS
  <2>3. \A s \in SUBSET (1..n) : n \notin s => s \in SUBSET (1..(n - 1))
    OBVIOUS
  <2>4. f \in [SUBSET (1..n) -> A]
    BY <2>1, <2>2, <2>3
  <2>5. f[{}] = base
    BY <2>1
  <2>6. ASSUME NEW s \in SUBSET (1..n), s # {}
        PROVE  f[s] = step[Max(s)][f[s \ {Max(s)}]]
    <3>1. Max(s) \in s /\ \A m \in s : m <= Max(s)
      <4>1. s \in SUBSET Nat /\ s \subseteq 1..n /\ IsFiniteSet(1..n)
        BY FS_Interval
      <4>2. IsFiniteSet(s)
        BY <4>1, FS_Subset
      <4>. QED  BY <2>6, <4>1, <4>2, MaxIs
    <3>2. CASE n \in s
      <4>1. Max(s) \in 1..n /\ n <= Max(s)
        BY <3>1, <3>2
      <4>2. f[s \ {n}] = g[s \ {n}]
        OBVIOUS
      <4>3. Max(s) = n
        BY <4>1
      <4>. QED  BY <3>2, <4>2, <4>3
    <3>3. CASE n \notin s
      <4>1. s \in SUBSET (1..(n - 1)) /\ s \ {Max(s)} \in SUBSET (1..n) /\ n \notin s \ {Max(s)}
        BY <2>3, <3>3
      <4>2. f[s] = g[s] /\ f[s \ {Max(s)}] = g[s \ {Max(s)}]
        BY <3>3, <4>1
      <4>. QED  BY <2>1, <2>6, <4>1, <4>2
    <3>. QED  BY <3>2, <3>3
  <2>7. IsFold(f, n)
    <3> HIDE DEF f
    <3>. QED  BY <2>4, <2>5, <2>6
  <2> HIDE DEF IsFold, f
  <2>8. \E h : IsFold(h, n)
    BY <2>7
  <2>. QED  BY <2>8
<1>3. k \in T
  <2> HIDE DEF T
  <2>1. 0..k \subseteq T
    BY <1>1, <1>2, Induction
  <2>. QED  BY <2>1
<1>4. PICK g : IsFold(g, k)
  BY <1>3
<1>5. ASSUME NEW s \in SUBSET (1..k), s # {}
      PROVE  Max(s) \in 1..k /\ g[s \ {Max(s)}] \in A
  <2>1. s \in SUBSET Nat /\ s \subseteq 1..k /\ IsFiniteSet(1..k)
    BY FS_Interval
  <2>2. IsFiniteSet(s)
    BY <2>1, FS_Subset
  <2>3. Max(s) \in s
    BY <1>5, <2>1, <2>2, MaxIs
  <2>. QED  BY <1>4, <2>3
<1>. QED  BY <1>4, <1>5 DEF FoldsTo


(* What holds of the start and is kept at every position holds of the fold. *)
LEMMA FoldStays ==
  ASSUME NEW k \in Nat, NEW A, NEW h, h[{}] \in A,
         \A n \in 1..k : h[(1..n) \ {Max(1..n)}] \in A => h[1..n] \in A
  PROVE  h[1..k] \in A
<1> DEFINE T == {n \in 0..k : h[1..n] \in A}
<1>1. 0 \in T
  <2>1. 1..0 = {}
    OBVIOUS
  <2>. QED  BY <2>1
<1>2. ASSUME NEW n \in 1..k, n - 1 \in T PROVE n \in T
  <2>1. Max(1..n) = n /\ (1..n) \ {n} = 1..(n - 1)
    BY MaxOfInterval
  <2>2. h[1..(n - 1)] \in A
    BY <1>2
  <2>3. h[1..n] \in A
    BY <2>1, <2>2
  <2>. QED  BY <2>3
<1>3. 0..k \subseteq T
  <2> HIDE DEF T
  <2>. QED  BY <1>1, <1>2, Induction
<1>. QED  BY <1>3


-----------------------------------------------------------------------------
(* Sequences of sequences laid end to end. *)

(* The function by which FlattenSeq is defined.                            *)
IsFlat(g, f, k) == \A i \in 1..k : g[i] = IF i = 1 THEN f[i] ELSE g[i - 1] \o f[i]

LEMMA FlatExists ==
  ASSUME NEW S, NEW k \in Nat, NEW f, \A i \in 1..k : f[i] \in Seq(S)
  PROVE  \E g : g \in [1..k -> Seq(S)] /\ IsFlat(g, f, k)
<1> DEFINE IsFlatTo(g, n) == g \in [1..n -> Seq(S)] /\ IsFlat(g, f, n)
           T == {n \in 0..k : \E g : IsFlatTo(g, n)}
<1>1. 0 \in T
  <2> DEFINE g == [i \in 1..0 |-> <<>>]
  <2>1. IsFlatTo(g, 0)
    BY DEF IsFlat
  <2> HIDE DEF IsFlatTo, g
  <2>2. \E h : IsFlatTo(h, 0)
    BY <2>1
  <2>. QED  BY <2>2
<1>2. ASSUME NEW n \in 1..k, n - 1 \in T PROVE n \in T
  <2>1. PICK g : IsFlatTo(g, n - 1)
    BY <1>2
  <2> DEFINE last == IF n = 1 THEN f[n] ELSE g[n - 1] \o f[n]
             h == [i \in 1..n |-> IF i < n THEN g[i] ELSE last]
  <2>2. n \in Nat \ {0} /\ \A i \in 1..n : i = n \/ i \in 1..(n - 1)
    OBVIOUS
  <2>3. last \in Seq(S)
    <3>1. f[n] \in Seq(S)
      OBVIOUS
    <3>2. n # 1 => n - 1 \in 1..(n - 1)
      BY <2>2
    <3>3. n # 1 => g[n - 1] \in Seq(S)
      BY <2>1, <3>2
    <3>4. \A u, v \in Seq(S) : u \o v \in Seq(S)
      OBVIOUS
    <3>. QED  BY <3>1, <3>3, <3>4
  <2> HIDE DEF last
  <2>4. \A i \in 1..(n - 1) : h[i] = g[i] /\ g[i] \in Seq(S)
    BY <2>1, <2>2
  <2>5. h[n] = last
    BY <2>2
  <2>6. h \in [1..n -> Seq(S)]
    <3>1. DOMAIN h = 1..n /\ h = [i \in 1..n |-> h[i]]
      OBVIOUS
    <3>2. \A i \in 1..n : h[i] \in Seq(S)
      <4> HIDE DEF h
      <4>. QED  BY <2>2, <2>3, <2>4, <2>5
    <3> HIDE DEF h
    <3>. QED  BY <3>1, <3>2
  <2> HIDE DEF h
  <2>7. ASSUME NEW i \in 1..n PROVE h[i] = IF i = 1 THEN f[i] ELSE h[i - 1] \o f[i]
    <3>1. i # 1 => i - 1 \in 1..(n - 1) /\ h[i - 1] = g[i - 1]
      BY <2>2, <2>4
    <3>2. CASE i = n
      BY <2>5, <3>1, <3>2 DEF last
    <3>3. CASE i \in 1..(n - 1)
      <4>1. g[i] = IF i = 1 THEN f[i] ELSE g[i - 1] \o f[i]
        BY <2>1, <3>3 DEF IsFlat
      <4>. QED  BY <2>4, <3>1, <3>3, <4>1
    <3>. QED  BY <2>2, <3>2, <3>3
  <2>8. IsFlatTo(h, n)
    BY <2>6, <2>7 DEF IsFlat
  <2> HIDE DEF IsFlatTo
  <2>9. \E u : IsFlatTo(u, n)
    BY <2>8
  <2>. QED  BY <2>9
<1>3. 0..k \subseteq T
  <2> HIDE DEF T
  <2>. QED  BY <1>1, <1>2, Induction
<1>4. \E g : IsFlatTo(g, k)
  <2> HIDE DEF IsFlatTo
  <2>1. k \in T
    BY <1>3
  <2>. QED  BY <2>1
<1>. QED  BY <1>4

(* Two such functions agree, as far as they agree on what is laid.         *)
SameTo(f, e, k) == \A i \in 1..k : f[i] = e[i]

LEMMA FlatAgree ==
  ASSUME NEW k \in Nat, NEW f, NEW e, SameTo(f, e, k), NEW g, NEW h,
         IsFlat(g, f, k), IsFlat(h, e, k)
  PROVE  SameTo(g, h, k)
<1> DEFINE T == {n \in 0..k : n = 0 \/ g[n] = h[n]}
<1>1. 0 \in T
  OBVIOUS
<1>2. ASSUME NEW n \in 1..k, n - 1 \in T PROVE n \in T
  <2>1. CASE n = 1
    BY <2>1 DEF IsFlat, SameTo
  <2>2. CASE n # 1
    <3>1. n - 1 # 0 /\ g[n - 1] = h[n - 1]
      BY <1>2, <2>2
    <3>2. g[n] = g[n - 1] \o f[n] /\ h[n] = h[n - 1] \o e[n] /\ f[n] = e[n]
      BY <2>2 DEF IsFlat, SameTo
    <3>3. g[n] = h[n]
      BY <3>1, <3>2
    <3>. QED  BY <3>3
  <2>. QED  BY <2>1, <2>2
<1>3. 0..k \subseteq T
  <2> HIDE DEF T
  <2>. QED  BY <1>1, <1>2, Induction
<1>. QED  BY <1>3 DEF SameTo

LEMMA FlattenFunction ==
  ASSUME NEW S, NEW f \in Seq(Seq(S)), f # <<>>
  PROVE  \E g : g \in [1..Len(f) -> Seq(S)] /\ IsFlat(g, f, Len(f)) /\ FlattenSeq(f) = g[Len(f)]
<1> DEFINE k == Len(f)
           flatten[i \in 1..Len(f)] == IF i = 1 THEN f[i] ELSE flatten[i - 1] \o f[i]
<1>1. k \in Nat /\ k > 0 /\ \A i \in 1..k : f[i] \in Seq(S)
  OBVIOUS
<1>2. FlattenSeq(f) = flatten[k]
  BY <1>1 DEF FlattenSeq
<1>3. PICK g : g \in [1..k -> Seq(S)] /\ IsFlat(g, f, k)
  <2> HIDE DEF k
  <2>. QED  BY <1>1, FlatExists
<1>4. g = [i \in 1..Len(f) |-> IF i = 1 THEN f[i] ELSE g[i - 1] \o f[i]]
  BY <1>3 DEF IsFlat
<1>5. flatten = [i \in 1..Len(f) |-> IF i = 1 THEN f[i] ELSE flatten[i - 1] \o f[i]]
  BY <1>4 DEF flatten
<1> HIDE DEF flatten
<1>6. IsFlat(flatten, f, k)
  BY <1>5 DEF IsFlat
<1> HIDE DEF k
<1>7. SameTo(flatten, g, k)
  <2>1. SameTo(f, f, k)
    BY DEF SameTo
  <2>. QED  BY <1>1, <1>3, <1>6, <2>1, FlatAgree
<1>8. FlattenSeq(f) = g[k]
  BY <1>1, <1>2, <1>7 DEF SameTo
<1>. QED  BY <1>3, <1>8 DEF k

(* Each place of the long sequence is one place of one of the short ones.  *)
IsLayout(f, n, r, g, p) ==
    /\ \A j \in 1..Len(r) : g[j] \in 1..n /\ p[j] \in 1..Len(f[g[j]]) /\ r[j] = f[g[j]][p[j]]
    /\ \A i, j \in 1..Len(r) : i < j => g[i] < g[j] \/ (g[i] = g[j] /\ p[i] < p[j])
    /\ \A m \in 1..n : \A q \in 1..Len(f[m]) : \E j \in 1..Len(r) : g[j] = m /\ p[j] = q

LEMMA LayoutGrows ==
  ASSUME NEW S, NEW f, NEW n \in Nat \ {0}, NEW r \in Seq(S), NEW g, NEW p, f[n] \in Seq(S),
         IsLayout(f, n - 1, r, g, p)
  PROVE  \E h, q : IsLayout(f, n, r \o f[n], h, q)
<1> DEFINE k == Len(r)
           l == Len(f[n])
           s == r \o f[n]
           h == [j \in 1..(k + l) |-> IF j <= k THEN g[j] ELSE n]
           q == [j \in 1..(k + l) |-> IF j <= k THEN p[j] ELSE j - k]
<1>1. /\ k \in Nat /\ l \in Nat /\ Len(s) = k + l
      /\ \A j \in 1..k : s[j] = r[j]
      /\ \A j \in (k + 1)..(k + l) : s[j] = f[n][j - k]
  OBVIOUS
<1>2. \A j \in 1..k : h[j] = g[j] /\ q[j] = p[j]
  BY <1>1
<1>3. \A j \in (k + 1)..(k + l) : h[j] = n /\ q[j] = j - k /\ j - k \in 1..l
  BY <1>1
<1>4. \A j \in 1..(k + l) : j \in 1..k \/ j \in (k + 1)..(k + l)
  BY <1>1
<1>5. \A j \in 1..k : g[j] \in 1..(n - 1) /\ p[j] \in 1..Len(f[g[j]]) /\ r[j] = f[g[j]][p[j]]
  BY DEF IsLayout
<1>6. \A i, j \in 1..k : i < j => g[i] < g[j] \/ (g[i] = g[j] /\ p[i] < p[j])
  BY DEF IsLayout
<1>7. \A m \in 1..(n - 1) : \A o \in 1..Len(f[m]) : \E j \in 1..k : g[j] = m /\ p[j] = o
  BY DEF IsLayout
<1> HIDE DEF s, h, q
<1>8. ASSUME NEW j \in 1..(k + l)
      PROVE  h[j] \in 1..n /\ q[j] \in 1..Len(f[h[j]]) /\ s[j] = f[h[j]][q[j]]
  <2>1. CASE j \in 1..k
    BY <1>1, <1>2, <1>5, <2>1
  <2>2. CASE j \in (k + 1)..(k + l)
    BY <1>1, <1>3, <2>2
  <2>. QED  BY <1>4, <2>1, <2>2
<1>9. ASSUME NEW i \in 1..(k + l), NEW j \in 1..(k + l), i < j
      PROVE  h[i] < h[j] \/ (h[i] = h[j] /\ q[i] < q[j])
  <2>1. CASE j \in 1..k
    <3>1. i \in 1..k
      BY <1>1, <1>9, <2>1
    <3>. QED  BY <1>2, <1>6, <1>9, <2>1, <3>1
  <2>2. CASE i \in 1..k /\ j \in (k + 1)..(k + l)
    <3>1. h[i] \in 1..(n - 1) /\ h[j] = n
      BY <1>2, <1>3, <1>5, <2>2
    <3>. QED  BY <3>1
  <2>3. CASE i \in (k + 1)..(k + l) /\ j \in (k + 1)..(k + l)
    BY <1>1, <1>3, <1>9, <2>3
  <2>. QED  BY <1>4, <2>1, <2>2, <2>3
<1>10. ASSUME NEW m \in 1..n, NEW o \in 1..Len(f[m])
       PROVE  \E j \in 1..(k + l) : h[j] = m /\ q[j] = o
  <2>1. CASE m = n
    <3>1. o \in 1..l
      BY <2>1
    <3>2. k + o \in (k + 1)..(k + l) /\ k + o \in 1..(k + l) /\ (k + o) - k = o
      BY <1>1, <3>1
    <3>. QED  BY <1>3, <2>1, <3>2
  <2>2. CASE m # n
    <3>1. m \in 1..(n - 1)
      BY <2>2
    <3>2. PICK j \in 1..k : g[j] = m /\ p[j] = o
      BY <1>7, <3>1
    <3>3. j \in 1..(k + l)
      BY <1>1
    <3>. QED  BY <1>2, <3>2, <3>3
  <2>. QED  BY <2>1, <2>2
<1>11. IsLayout(f, n, s, h, q)
  BY <1>1, <1>8, <1>9, <1>10 DEF IsLayout
<1>. QED  BY <1>11 DEF s

LEMMA FlattenIs ==
  ASSUME NEW S, NEW f \in Seq(Seq(S))
  PROVE  /\ FlattenSeq(f) \in Seq(S)
         /\ \E g, p : IsLayout(f, Len(f), FlattenSeq(f), g, p)
<1>1. CASE f = <<>>
  <2>1. FlattenSeq(f) = <<>> /\ Len(f) = 0
    BY <1>1 DEF FlattenSeq
  <2>2. IsLayout(f, 0, <<>>, <<>>, <<>>)
    BY DEF IsLayout
  <2>. QED  BY <2>1, <2>2
<1>2. CASE f # <<>>
  <2> DEFINE k == Len(f)
  <2>1. PICK g : /\ g \in [1..k -> Seq(S)]
                 /\ IsFlat(g, f, k)
                 /\ FlattenSeq(f) = g[k]
    BY <1>2, FlattenFunction
  <2>2. k \in Nat /\ k \in 1..k /\ \A i \in 1..k : f[i] \in Seq(S)
    BY <1>2
  <2> DEFINE T == {n \in 0..k : n = 0 \/ \E h, p : IsLayout(f, n, g[n], h, p)}
  <2> HIDE DEF k
  <2>3. 0 \in T
    BY <2>2
  <2>4. ASSUME NEW n \in 1..k, n - 1 \in T PROVE n \in T
    <3>0. n \in Nat \ {0} /\ f[n] \in Seq(S)
      BY <2>2
    <3>1. CASE n = 1
      <4>1. IsLayout(f, 0, <<>>, <<>>, <<>>)
        BY DEF IsLayout
      <4>2. n - 1 = 0 /\ <<>> \in Seq(S)
        BY <3>1
      <4>3. \E h, p : IsLayout(f, n, <<>> \o f[n], h, p)
        BY <3>0, <4>1, <4>2, LayoutGrows
      <4>4. g[n] = f[n]
        BY <2>1, <3>1 DEF IsFlat
      <4>5. \A u \in Seq(S) : <<>> \o u = u
        OBVIOUS
      <4>6. <<>> \o f[n] = g[n]
        BY <3>0, <4>4, <4>5
      <4>. QED  BY <4>3, <4>6
    <3>2. CASE n # 1
      <4>1. n - 1 \in 1..k /\ n - 1 # 0
        BY <2>2, <3>2
      <4>2. PICK h, p : IsLayout(f, n - 1, g[n - 1], h, p)
        BY <2>4, <4>1
      <4>3. g[n - 1] \in Seq(S)
        BY <2>1, <4>1
      <4>4. \E u, v : IsLayout(f, n, g[n - 1] \o f[n], u, v)
        BY <3>0, <4>2, <4>3, LayoutGrows
      <4>5. g[n] = g[n - 1] \o f[n]
        BY <2>1, <3>2 DEF IsFlat
      <4>6. \E u, v : IsLayout(f, n, g[n], u, v)
        BY <4>4, <4>5
      <4>. QED  BY <3>0, <4>6
    <3>. QED  BY <3>1, <3>2
  <2>5. 0..k \subseteq T
    <3> HIDE DEF T
    <3>. QED  BY <2>2, <2>3, <2>4, Induction
  <2>6. \E h, p : IsLayout(f, k, g[k], h, p)
    BY <2>2, <2>5
  <2>7. g[k] \in Seq(S)
    BY <2>1, <2>2
  <2>. QED  BY <2>1, <2>6, <2>7 DEF k
<1>. QED  BY <1>1, <1>2

(* A sequence at the end goes to the end.                                  *)
LEMMA FlattenAppend ==
  ASSUME NEW S, NEW f \in Seq(Seq(S)), NEW x \in Seq(S)
  PROVE  FlattenSeq(Append(f, x)) = FlattenSeq(f) \o x
<1> DEFINE e == Append(f, x)
           k == Len(f)
<1>1. /\ e \in Seq(Seq(S)) /\ k \in Nat /\ Len(e) = k + 1
      /\ e[k + 1] = x /\ \A i \in 1..k : e[i] = f[i]
  OBVIOUS
<1> HIDE DEF e
<1>2. e # <<>>
  BY <1>1
<1>3. PICK h : /\ h \in [1..Len(e) -> Seq(S)]
               /\ IsFlat(h, e, Len(e))
               /\ FlattenSeq(e) = h[Len(e)]
  BY <1>1, <1>2, FlattenFunction
<1>4. k + 1 \in 1..Len(e) /\ \A i \in 1..k : i \in 1..Len(e)
  BY <1>1
<1>5. h[k + 1] = IF k + 1 = 1 THEN e[k + 1] ELSE h[(k + 1) - 1] \o e[k + 1]
  BY <1>3, <1>4 DEF IsFlat
<1>6. (k + 1) - 1 = k /\ (k + 1 = 1 => k = 0)
  BY <1>1
<1>7. CASE f = <<>>
  <2>1. FlattenSeq(f) = <<>> /\ k = 0
    BY <1>7 DEF FlattenSeq
  <2>2. FlattenSeq(e) = x
    BY <1>1, <1>3, <1>5, <2>1
  <2>3. x = <<>> \o x
    OBVIOUS
  <2>. QED  BY <2>1, <2>2, <2>3 DEF e
<1>8. CASE f # <<>>
  <2>1. PICK g : /\ g \in [1..k -> Seq(S)]
                 /\ IsFlat(g, f, k)
                 /\ FlattenSeq(f) = g[k]
    BY <1>8, FlattenFunction
  <2>2. k # 0 /\ k \in 1..k
    BY <1>8
  <2> HIDE DEF k
  <2>3. IsFlat(h, e, k)
    BY <1>3, <1>4 DEF IsFlat
  <2>4. SameTo(g, h, k)
    <3>1. k \in Nat /\ SameTo(f, e, k)
      BY <1>1 DEF SameTo
    <3>. QED  BY <2>1, <2>3, <3>1, FlatAgree
  <2>. QED  BY <1>1, <1>3, <1>5, <1>6, <2>1, <2>2, <2>4 DEF e, SameTo
<1>. QED  BY <1>7, <1>8


(* What is chosen of a sequence, in its order.                             *)
IsChoice(s, keep, r, at) ==
    /\ \A j \in 1..Len(r) : at[j] \in 1..Len(s) /\ keep[at[j]] /\ r[j] = s[at[j]]
    /\ \A i, j \in 1..Len(r) : i < j => at[i] < at[j]
    /\ \A n \in 1..Len(s) : keep[n] => \E j \in 1..Len(r) : at[j] = n

LEMMA ChoiceIs ==
  ASSUME NEW S, NEW s \in Seq(S), NEW keep \in [1..Len(s) -> BOOLEAN], NEW r,
         r = FlattenSeq([n \in DOMAIN s |-> IF keep[n] THEN <<s[n]>> ELSE <<>>])
  PROVE  r \in Seq(S) /\ \E at : IsChoice(s, keep, r, at)
<1> DEFINE k == Len(s)
           f == [n \in 1..k |-> IF keep[n] THEN <<s[n]>> ELSE <<>>]
<1>1. k \in Nat /\ DOMAIN s = 1..k
  OBVIOUS
<1>2. \A n \in 1..k : s[n] \in S
  OBVIOUS
<1>3. f \in Seq(Seq(S)) /\ Len(f) = k
  <2>1. \A n \in 1..k : f[n] \in Seq(S)
    BY <1>2
  <2>. QED  BY <1>1, <2>1
<1>4. r = FlattenSeq(f)
  BY <1>1
<1>5. \A n \in 1..k : f[n] = IF keep[n] THEN <<s[n]>> ELSE <<>>
  OBVIOUS
<1> HIDE DEF f
<1>6. r \in Seq(S) /\ \E g, p : IsLayout(f, k, r, g, p)
  BY <1>3, <1>4, FlattenIs
<1>7. PICK g, p : IsLayout(f, k, r, g, p)
  BY <1>6
<1>8. ASSUME NEW j \in 1..Len(r)
      PROVE  g[j] \in 1..k /\ keep[g[j]] /\ r[j] = s[g[j]] /\ p[j] = 1
  <2>1. g[j] \in 1..k /\ p[j] \in 1..Len(f[g[j]]) /\ r[j] = f[g[j]][p[j]]
    BY <1>7 DEF IsLayout
  <2>2. CASE keep[g[j]]
    <3>1. f[g[j]] = <<s[g[j]]>>
      BY <1>5, <2>1, <2>2
    <3>. QED  BY <2>1, <2>2, <3>1
  <2>3. CASE ~ keep[g[j]]
    <3>1. f[g[j]] = <<>>
      BY <1>5, <2>1, <2>3
    <3>. QED  BY <2>1, <3>1
  <2>. QED  BY <2>2, <2>3
<1>9. \A i, j \in 1..Len(r) : i < j => g[i] < g[j]
  <2> TAKE i, j \in 1..Len(r)
  <2>1. i < j => g[i] < g[j] \/ (g[i] = g[j] /\ p[i] < p[j])
    BY <1>7 DEF IsLayout
  <2>2. p[i] = 1 /\ p[j] = 1
    BY <1>8
  <2>. QED  BY <2>1, <2>2
<1>10. ASSUME NEW n \in 1..k, keep[n] PROVE \E j \in 1..Len(r) : g[j] = n
  <2>1. f[n] = <<s[n]>>
    BY <1>5, <1>10
  <2>2. 1 \in 1..Len(f[n])
    BY <2>1
  <2>. QED  BY <1>7, <2>2 DEF IsLayout
<1>11. IsChoice(s, keep, r, g)
  BY <1>8, <1>9, <1>10 DEF IsChoice
<1>. QED  BY <1>6, <1>11

(* Between two that are chosen in a row none is.                           *)
LEMMA ChoiceNext ==
  ASSUME NEW s, NEW keep, NEW r, NEW at, Len(r) \in Nat, Len(s) \in Nat, IsChoice(s, keep, r, at)
  PROVE  /\ \A q \in 1..(Len(r) - 1) :
               /\ at[q] \in 1..Len(s) /\ at[q + 1] \in 1..Len(s) /\ at[q] < at[q + 1]
               /\ \A n \in 1..Len(s) : at[q] < n /\ n < at[q + 1] => ~ keep[n]
         /\ Len(s) > 0 /\ keep[1] => Len(r) > 0 /\ at[1] = 1
         /\ Len(s) > 0 /\ keep[Len(s)] => Len(r) > 0 /\ at[Len(r)] = Len(s)
<1> DEFINE k == Len(s)
           l == Len(r)
<1>1. /\ \A j \in 1..l : at[j] \in 1..k
      /\ \A i, j \in 1..l : i < j => at[i] < at[j]
      /\ \A n \in 1..k : keep[n] => \E j \in 1..l : at[j] = n
      /\ k \in Nat /\ l \in Nat
  BY DEF IsChoice
<1> HIDE DEF k, l
<1>2. ASSUME NEW q \in 1..(l - 1)
      PROVE  /\ at[q] \in 1..k /\ at[q + 1] \in 1..k /\ at[q] < at[q + 1]
             /\ \A n \in 1..k : at[q] < n /\ n < at[q + 1] => ~ keep[n]
  <2>1. q \in 1..l /\ q + 1 \in 1..l /\ q < q + 1
    BY <1>1
  <2>2. ASSUME NEW n \in 1..k, at[q] < n, n < at[q + 1], keep[n] PROVE FALSE
    <3>1. PICK j \in 1..l : at[j] = n
      BY <1>1, <2>2
    <3>2. CASE j = q \/ j = q + 1
      BY <1>1, <2>1, <2>2, <3>1, <3>2
    <3>3. CASE j < q
      <4>1. at[j] < at[q]
        BY <1>1, <2>1, <3>3
      <4>. QED  BY <1>1, <2>1, <2>2, <3>1, <4>1
    <3>4. CASE q + 1 < j
      <4>1. at[q + 1] < at[j]
        BY <1>1, <2>1, <3>4
      <4>. QED  BY <1>1, <2>1, <2>2, <3>1, <4>1
    <3>. QED  BY <2>1, <3>2, <3>3, <3>4
  <2>. QED  BY <1>1, <2>1, <2>2
<1>3. ASSUME k > 0, keep[1] PROVE l > 0 /\ at[1] = 1
  <2>1. PICK j \in 1..l : at[j] = 1
    BY <1>1, <1>3
  <2>2. 1 \in 1..l /\ (j # 1 => 1 < j)
    BY <1>1
  <2>3. j # 1 => at[1] < 1 /\ at[1] \in 1..k
    BY <1>1, <2>1, <2>2
  <2>. QED  BY <1>1, <2>1, <2>2, <2>3
<1>4. ASSUME k > 0, keep[k] PROVE l > 0 /\ at[l] = k
  <2>1. PICK j \in 1..l : at[j] = k
    BY <1>1, <1>4
  <2>2. l \in 1..l /\ (j # l => j < l)
    BY <1>1
  <2>3. j # l => k < at[l] /\ at[l] \in 1..k
    BY <1>1, <2>1, <2>2
  <2>. QED  BY <1>1, <2>1, <2>2, <2>3
<1>. QED  BY <1>2, <1>3, <1>4 DEF k, l

(* Group after group, and in the order of the group.                       *)
InGroups(l, g, p) ==
    /\ \A j \in 1..l : g[j] \in Nat /\ p[j] \in Nat
    /\ \A i, j \in 1..l : i < j => g[i] < g[j] \/ (g[i] = g[j] /\ p[i] < p[j])

(* Who is one place further in the same group comes next.                  *)
LEMMA Neighbours ==
  ASSUME NEW l \in Nat, NEW g, NEW p, InGroups(l, g, p),
         NEW n \in 1..l, NEW m \in 1..l, g[m] = g[n], p[m] = p[n] + 1
  PROVE  m = n + 1
<1>0. /\ \A j \in 1..l : g[j] \in Nat /\ p[j] \in Nat
      /\ \A i, j \in 1..l : i < j => g[i] < g[j] \/ (g[i] = g[j] /\ p[i] < p[j])
  BY DEF InGroups
<1>1. g[n] \in Nat /\ p[n] \in Nat /\ g[m] \in Nat /\ p[m] \in Nat
  BY <1>0
<1>2. m # n
  BY <1>1
<1>3. ~ (m < n)
  <2> SUFFICES ASSUME m < n PROVE FALSE
    OBVIOUS
  <2>1. g[m] < g[n] \/ p[m] < p[n]
    BY <1>0
  <2>. QED  BY <1>1, <2>1
<1>4. ~ (n + 1 < m)
  <2> SUFFICES ASSUME n + 1 < m PROVE FALSE
    OBVIOUS
  <2>1. n + 1 \in 1..l /\ n < n + 1
    OBVIOUS
  <2>2. PICK k \in 1..l : k = n + 1 /\ n < k /\ k < m
    BY <2>1
  <2>3. g[k] \in Nat /\ p[k] \in Nat
    BY <1>0
  <2>4. g[n] < g[k] \/ (g[n] = g[k] /\ p[n] < p[k])
    BY <1>0, <2>2
  <2>5. g[k] < g[m] \/ (g[k] = g[m] /\ p[k] < p[m])
    BY <1>0, <2>2
  <2>. QED  BY <1>1, <2>3, <2>4, <2>5
<1>. QED  BY <1>2, <1>3, <1>4

=============================================================================
