---------------------------- MODULE DocumentProofs ----------------------------
(* That chunking loses nothing, mixes no sections and keeps to its limit,  *)
(* for every paper and every limit.                                        *)
EXTENDS Document, FoldProofs, SequenceTheorems

Lengths == Nat \ {0}

Pairs == Nat \X Nat

-----------------------------------------------------------------------------
(* Sums. *)

(* The sums of the first lengths.                                          *)
IsSums(acc, s) ==
    /\ acc[0] = 0 /\ \A n \in 0..Len(s) : acc[n] \in Nat
    /\ \A n \in 1..Len(s) : acc[n] = acc[n - 1] + s[n]

LEMMA SumIs ==
  ASSUME NEW s \in Seq(Nat)
  PROVE  \E acc : IsSums(acc, s) /\ Sum(s) = acc[Len(s)]
<1> DEFINE k == Len(s)
           iter[t \in SUBSET DOMAIN s] == IF t = {} THEN 0 ELSE iter[t \ {Max(t)}] + s[Max(t)]
           step == [n \in 1..k |-> [m \in Nat |-> m + s[n]]]
<1>1. Sum(s) = iter[DOMAIN s]
  BY DEF Sum, FoldLeft, MapThenFoldSet
<1>2. k \in Nat /\ DOMAIN s = 1..k /\ \A n \in 1..k : s[n] \in Nat
  OBVIOUS
<1> HIDE DEF k
<1>3. step \in [1..k -> [Nat -> Nat]]
  BY <1>2
<1>4. PICK g : FoldsTo(g, k, Nat, 0, step)
  <2> HIDE DEF step
  <2>. QED  BY <1>2, <1>3, FoldExists
<1>5. g = [t \in SUBSET DOMAIN s |-> IF t = {} THEN 0 ELSE g[t \ {Max(t)}] + s[Max(t)]]
  BY <1>2, <1>4 DEF FoldsTo
<1>6. iter = [t \in SUBSET DOMAIN s |-> IF t = {} THEN 0 ELSE iter[t \ {Max(t)}] + s[Max(t)]]
  BY <1>5 DEF iter
<1> HIDE DEF iter
<1> DEFINE acc == [n \in 0..k |-> iter[1..n]]
<1>7. ASSUME NEW n \in 1..k PROVE acc[n] = acc[n - 1] + s[n]
  <2>1. Max(1..n) = n /\ (1..n) \ {n} = 1..(n - 1)
    BY <1>2, MaxOfInterval
  <2>2. 1..n \in SUBSET DOMAIN s /\ 1..n # {}
    BY <1>2
  <2>3. iter[1..n] = iter[(1..n) \ {Max(1..n)}] + s[Max(1..n)]
    BY <1>6, <2>2
  <2>4. acc[n] = iter[1..n] /\ acc[n - 1] = iter[1..(n - 1)]
    BY <1>2
  <2>. QED  BY <2>1, <2>3, <2>4
<1>8. acc[0] = 0
  <2>1. 1..0 = {} /\ {} \in SUBSET DOMAIN s
    OBVIOUS
  <2>2. iter[1..0] = 0
    BY <1>6, <2>1
  <2>. QED  BY <1>2, <2>2
<1>9. Sum(s) = acc[k]
  BY <1>1, <1>2
<1> HIDE DEF acc
<1>10. \A n \in 0..k : acc[n] \in Nat
  <2> DEFINE T == {n \in 0..k : acc[n] \in Nat}
  <2>1. 0 \in T
    BY <1>2, <1>8
  <2>2. ASSUME NEW n \in 1..k, n - 1 \in T PROVE n \in T
    BY <1>2, <1>7, <2>2
  <2>3. 0..k \subseteq T
    <3> HIDE DEF T
    <3>. QED  BY <1>2, <2>1, <2>2, Induction
  <2>. QED  BY <2>3
<1>11. IsSums(acc, s) /\ Sum(s) = acc[Len(s)]
  BY <1>7, <1>8, <1>9, <1>10 DEF IsSums, k
<1>. QED  BY <1>11

LEMMA SumsAgree ==
  ASSUME NEW s \in Seq(Nat), NEW t \in Seq(Nat), Len(s) <= Len(t),
         \A n \in 1..Len(s) : s[n] = t[n], NEW f, NEW g, IsSums(f, s), IsSums(g, t)
  PROVE  \A n \in 0..Len(s) : f[n] = g[n]
<1> DEFINE k == Len(s)
           T == {n \in 0..k : f[n] = g[n]}
<1>1. k \in Nat /\ Len(t) \in Nat /\ k <= Len(t)
  OBVIOUS
<1>2. 0 \in T
  BY <1>1 DEF IsSums
<1>3. ASSUME NEW n \in 1..k, n - 1 \in T PROVE n \in T
  <2>1. f[n] = f[n - 1] + s[n] /\ s[n] = t[n]
    BY DEF IsSums
  <2>2. n \in 1..Len(t)
    BY <1>1
  <2>3. g[n] = g[n - 1] + t[n]
    BY <2>2 DEF IsSums
  <2>. QED  BY <1>1, <1>3, <2>1, <2>3
<1>4. 0..k \subseteq T
  <2> HIDE DEF T, k
  <2>. QED  BY <1>1, <1>2, <1>3, Induction
<1>. QED  BY <1>4

LEMMA SumAppend ==
  ASSUME NEW s \in Seq(Nat), NEW x \in Nat
  PROVE  Sum(s) \in Nat /\ Sum(Append(s, x)) = Sum(s) + x /\ Sum(<<>>) = 0
<1> DEFINE t == Append(s, x)
           k == Len(s)
<1>1. /\ t \in Seq(Nat) /\ k \in Nat /\ Len(t) = k + 1 /\ t[k + 1] = x
      /\ \A n \in 1..k : s[n] = t[n]
  OBVIOUS
<1> HIDE DEF t
<1>2. PICK f : IsSums(f, s) /\ Sum(s) = f[k]
  BY SumIs
<1>3. PICK g : IsSums(g, t) /\ Sum(t) = g[k + 1]
  BY <1>1, SumIs
<1>4. f[k] = g[k] /\ f[k] \in Nat
  <2>1. \A n \in 0..k : f[n] = g[n]
    BY <1>1, <1>2, <1>3, SumsAgree
  <2>. QED  BY <1>1, <1>2, <2>1 DEF IsSums
<1>5. g[k + 1] = g[k] + x
  <2>1. k + 1 \in 1..Len(t) /\ (k + 1) - 1 = k
    BY <1>1
  <2>. QED  BY <1>1, <1>3, <2>1 DEF IsSums
<1>6. Sum(<<>>) = 0
  <2>1. <<>> \in Seq(Nat) /\ Len(<<>>) = 0
    OBVIOUS
  <2>2. PICK h : IsSums(h, <<>>) /\ Sum(<<>>) = h[0]
    BY <2>1, SumIs
  <2>. QED  BY <2>2 DEF IsSums
<1>. QED  BY <1>2, <1>3, <1>4, <1>5, <1>6 DEF t

(* The length of the first sentences, and of one more.                     *)
First(text, n) == Sum(SubSeq(text, 1, n))

LEMMA FirstIs ==
  ASSUME NEW text \in Seq(Nat)
  PROVE  /\ First(text, 0) = 0 /\ First(text, Len(text)) = Sum(text)
         /\ \A n \in 0..Len(text) : First(text, n) \in Nat
         /\ \A n \in 1..Len(text) : First(text, n) = First(text, n - 1) + text[n]
<1> DEFINE k == Len(text)
<1>1. k \in Nat /\ \A n \in 0..k : SubSeq(text, 1, n) \in Seq(Nat)
  OBVIOUS
<1>2. SubSeq(text, 1, 0) = <<>> /\ SubSeq(text, 1, k) = text
  OBVIOUS
<1>3. First(text, 0) = 0 /\ First(text, k) = Sum(text)
  <2>1. Sum(<<>>) = 0
    BY SumAppend
  <2>. QED  BY <1>2, <2>1 DEF First
<1>4. \A n \in 0..k : First(text, n) \in Nat
  <2>1. \A s \in Seq(Nat) : Sum(s) \in Nat
    BY SumAppend
  <2>. QED  BY <1>1, <2>1 DEF First
<1>5. ASSUME NEW n \in 1..k PROVE First(text, n) = First(text, n - 1) + text[n]
  <2>1. n - 1 \in 0..k /\ text[n] \in Nat
    OBVIOUS
  <2>2. SubSeq(text, 1, n) = Append(SubSeq(text, 1, n - 1), text[n])
    OBVIOUS
  <2>. QED  BY <1>1, <2>1, <2>2, SumAppend DEF First
<1>. QED  BY <1>3, <1>4, <1>5


-----------------------------------------------------------------------------
(* Where sentences end. *)

Ends(text, n) == IF n = 0 THEN 0 ELSE First(text, n) + n - 1

LEMMA EndsAre ==
  ASSUME NEW text \in Seq(Lengths)
  PROVE  /\ Ends(text, 0) = 0 /\ Ends(text, Len(text)) = TextLen(text)
         /\ \A n \in 0..Len(text) : Ends(text, n) \in Nat
         /\ \A n \in 1..Len(text) :
               Ends(text, n) = Ends(text, n - 1) + text[n] + (IF n = 1 THEN 0 ELSE 1)
<1> DEFINE k == Len(text)
<1>1. text \in Seq(Nat) /\ k \in Nat /\ (k = 0 <=> text = <<>>)
  BY DEF Lengths
<1>2. /\ First(text, 0) = 0 /\ First(text, k) = Sum(text)
      /\ \A n \in 0..k : First(text, n) \in Nat
      /\ \A n \in 1..k : First(text, n) = First(text, n - 1) + text[n]
  BY <1>1, FirstIs
<1>3. \A n \in 1..k : text[n] \in Nat
  BY <1>1
<1> HIDE DEF k
<1>4. Ends(text, k) = TextLen(text)
  BY <1>1, <1>2 DEF Ends, TextLen, k
<1>5. \A n \in 0..k : Ends(text, n) \in Nat
  BY <1>1, <1>2 DEF Ends
<1>6. ASSUME NEW n \in 1..k
      PROVE  Ends(text, n) = Ends(text, n - 1) + text[n] + (IF n = 1 THEN 0 ELSE 1)
  <2>1. First(text, n) = First(text, n - 1) + text[n] /\ First(text, n - 1) \in Nat /\ text[n] \in Nat
    BY <1>1, <1>2, <1>3
  <2>2. CASE n = 1
    BY <1>2, <2>1, <2>2 DEF Ends
  <2>3. CASE n # 1
    <3>1. n - 1 # 0 /\ n # 0
      BY <2>3
    <3>. QED  BY <2>1, <2>3, <3>1 DEF Ends
  <2>. QED  BY <2>2, <2>3
<1>. QED  BY <1>4, <1>5, <1>6 DEF Ends, k

LEMMA EndsGrow ==
  ASSUME NEW text \in Seq(Lengths)
  PROVE  \A n \in 0..Len(text) : \A m \in 0..(n - 1) :
            Ends(text, m) < Ends(text, n) /\ (m > 0 => Ends(text, m) + 1 < Ends(text, n))
<1> DEFINE k == Len(text)
           T == {n \in 0..k : \A m \in 0..(n - 1) :
                    Ends(text, m) < Ends(text, n) /\ (m > 0 => Ends(text, m) + 1 < Ends(text, n))}
<1>1. /\ k \in Nat /\ \A n \in 0..k : Ends(text, n) \in Nat
      /\ \A n \in 1..k : Ends(text, n) = Ends(text, n - 1) + text[n] + (IF n = 1 THEN 0 ELSE 1)
  BY EndsAre
<1>2. \A n \in 1..k : text[n] \in Nat /\ text[n] >= 1
  BY DEF Lengths
<1> HIDE DEF k
<1>3. 0 \in T
  BY <1>1
<1>4. ASSUME NEW n \in 1..k, n - 1 \in T PROVE n \in T
  <2>1. Ends(text, n) = Ends(text, n - 1) + text[n] + (IF n = 1 THEN 0 ELSE 1)
    BY <1>1
  <2>2. Ends(text, n - 1) \in Nat /\ Ends(text, n) \in Nat /\ text[n] \in Nat /\ text[n] >= 1
    BY <1>1, <1>2
  <2>3. Ends(text, n - 1) < Ends(text, n) /\ (n # 1 => Ends(text, n - 1) + 1 < Ends(text, n))
    BY <2>1, <2>2
  <2>4. ASSUME NEW m \in 0..(n - 1)
        PROVE  Ends(text, m) < Ends(text, n) /\ (m > 0 => Ends(text, m) + 1 < Ends(text, n))
    <3>1. CASE m = n - 1
      BY <2>3, <3>1
    <3>2. CASE m # n - 1
      <4>1. m \in 0..((n - 1) - 1) /\ Ends(text, m) \in Nat
        BY <1>1, <3>2
      <4>2. Ends(text, m) < Ends(text, n - 1) /\ (m > 0 => Ends(text, m) + 1 < Ends(text, n - 1))
        BY <1>4, <4>1
      <4>. QED  BY <2>2, <2>3, <4>1, <4>2
    <3>. QED  BY <3>1, <3>2
  <2>. QED  BY <2>4
<1>5. 0..k \subseteq T
  <2> HIDE DEF T
  <2>. QED  BY <1>1, <1>3, <1>4, Induction
<1>. QED  BY <1>5 DEF k

(* Spaces are the places where all sentences but the last end: inside the  *)
(* text, and never side by side.                                           *)
LEMMA SpacesAre ==
  ASSUME NEW text \in Seq(Lengths)
  PROVE  /\ TextLen(text) \in Nat /\ (text # <<>> => TextLen(text) > 0)
         /\ Spaces(text) = {Ends(text, n) : n \in 1..(Len(text) - 1)}
         /\ \A x \in Spaces(text) : x \in Nat /\ x > 0 /\ x + 1 < TextLen(text)
                                    /\ x + 1 \notin Spaces(text)
<1> DEFINE k == Len(text)
<1>1. /\ k \in Nat /\ \A n \in 0..k : Ends(text, n) \in Nat
      /\ Ends(text, 0) = 0 /\ Ends(text, k) = TextLen(text)
  BY EndsAre
<1>2. \A n \in 0..k : \A m \in 0..(n - 1) :
         Ends(text, m) < Ends(text, n) /\ (m > 0 => Ends(text, m) + 1 < Ends(text, n))
  BY EndsGrow
<1>3. text # <<>> => k > 0
  OBVIOUS
<1>4. Spaces(text) = {Ends(text, n) : n \in 1..(k - 1)}
  BY <1>1 DEF Spaces, Ends, First
<1> HIDE DEF k
<1>5. text # <<>> => TextLen(text) > 0
  BY <1>1, <1>2, <1>3
<1>6. ASSUME NEW x \in Spaces(text)
      PROVE  x \in Nat /\ x > 0 /\ x + 1 < TextLen(text) /\ x + 1 \notin Spaces(text)
  <2>1. PICK n \in 1..(k - 1) : x = Ends(text, n)
    BY <1>4
  <2>2. n \in 0..k /\ 0 \in 0..(n - 1) /\ n \in 0..(k - 1) /\ k \in 0..k /\ n > 0
    BY <1>1
  <2>3. x \in Nat /\ x > 0 /\ x + 1 < TextLen(text)
    BY <1>1, <1>2, <2>1, <2>2
  <2>4. ASSUME NEW m \in 1..(k - 1), x + 1 = Ends(text, m) PROVE FALSE
    <3>1. m \in 0..k /\ Ends(text, m) \in Nat
      BY <1>1
    <3>2. CASE m = n
      BY <2>1, <2>3, <2>4, <3>2
    <3>3. CASE n < m
      <4>1. n \in 0..(m - 1)
        BY <3>3
      <4>2. Ends(text, n) + 1 < Ends(text, m)
        BY <1>2, <2>2, <3>1, <4>1
      <4>. QED  BY <2>1, <2>3, <2>4, <4>2
    <3>4. CASE m < n
      <4>1. m \in 0..(n - 1)
        BY <3>4
      <4>2. Ends(text, m) < Ends(text, n)
        BY <1>2, <2>2, <4>1
      <4>. QED  BY <2>1, <2>3, <2>4, <3>1, <4>2
    <3>. QED  BY <3>2, <3>3, <3>4
  <2>. QED  BY <1>4, <2>3, <2>4
<1>. QED  BY <1>1, <1>4, <1>5, <1>6 DEF k


-----------------------------------------------------------------------------
(* Spans, side by side from one place to another. *)

IsTiling(spans, from, to) ==
    /\ spans \in Seq(Pairs) /\ (spans = <<>> => from = to)
    /\ \A i \in 1..Len(spans) :
          /\ spans[i][1] < spans[i][2]
          /\ i = 1 => spans[i][1] = from
          /\ i = Len(spans) => spans[i][2] = to
          /\ i < Len(spans) => spans[i + 1][1] = spans[i][2]

LEMMA TilingsJoin ==
  ASSUME NEW a, NEW b, NEW x, NEW y, NEW z, IsTiling(a, x, y), IsTiling(b, y, z)
  PROVE  IsTiling(a \o b, x, z)
<1> DEFINE c == a \o b
           k == Len(a)
           l == Len(b)
<1>1. /\ a \in Seq(Pairs) /\ b \in Seq(Pairs)
      /\ (a = <<>> => x = y) /\ (b = <<>> => y = z)
  BY DEF IsTiling
<1>2. /\ c \in Seq(Pairs) /\ k \in Nat /\ l \in Nat /\ Len(c) = k + l
      /\ \A i \in 1..k : c[i] = a[i]
      /\ \A i \in (k + 1)..(k + l) : c[i] = b[i - k]
      /\ (a = <<>> <=> k = 0) /\ (b = <<>> <=> l = 0) /\ (c = <<>> <=> k + l = 0)
  BY <1>1
<1> HIDE DEF c, k, l
<1>3. c = <<>> => x = z
  BY <1>1, <1>2
<1>4. ASSUME NEW i \in 1..(k + l)
      PROVE  /\ c[i][1] < c[i][2]
             /\ i = 1 => c[i][1] = x
             /\ i = k + l => c[i][2] = z
             /\ i < k + l => c[i + 1][1] = c[i][2]
  <2>1. CASE i \in 1..k
    <3>1. /\ c[i] = a[i] /\ a[i][1] < a[i][2] /\ (i = 1 => a[i][1] = x)
          /\ (i = k => a[i][2] = y) /\ (i < k => a[i + 1][1] = a[i][2])
      BY <1>2, <2>1 DEF IsTiling, k
    <3>2. i < k => c[i + 1] = a[i + 1]
      BY <1>2, <2>1
    <3>3. i = k /\ l # 0 => c[i + 1] = b[1] /\ b[1][1] = y
      <4> SUFFICES ASSUME i = k, l # 0 PROVE c[i + 1] = b[1] /\ b[1][1] = y
        OBVIOUS
      <4>1. k + 1 \in (k + 1)..(k + l) /\ (k + 1) - k = 1 /\ 1 \in 1..l
        BY <1>2
      <4>. QED  BY <1>2, <4>1 DEF IsTiling, l
    <3>4. i = k + l => i = k /\ l = 0
      BY <1>2, <2>1
    <3>5. l = 0 => y = z
      BY <1>1, <1>2
    <3>6. i < k + l => i < k \/ (i = k /\ l # 0)
      BY <1>2, <2>1
    <3>. QED  BY <3>1, <3>2, <3>3, <3>4, <3>5, <3>6
  <2>2. CASE i \in (k + 1)..(k + l)
    <3>0. i - k \in 1..l
      <4>1. k \in Nat /\ l \in Nat
        BY <1>2
      <4>. QED  BY <2>2, <4>1
    <3>1. c[i] = b[i - k] /\ i - k \in 1..l
      BY <1>2, <2>2, <3>0
    <3>2. /\ b[i - k][1] < b[i - k][2] /\ (i - k = 1 => b[i - k][1] = y)
          /\ (i - k = l => b[i - k][2] = z) /\ (i - k < l => b[(i - k) + 1][1] = b[i - k][2])
      BY <3>1 DEF IsTiling, l
    <3>3. i < k + l => c[i + 1] = b[(i - k) + 1] /\ i - k < l
      <4> SUFFICES ASSUME i < k + l PROVE c[i + 1] = b[(i - k) + 1] /\ i - k < l
        OBVIOUS
      <4>1. i + 1 \in (k + 1)..(k + l) /\ (i + 1) - k = (i - k) + 1
        BY <1>2, <2>2
      <4>. QED  BY <1>2, <2>2, <4>1
    <3>4. i = 1 => k = 0 /\ i - k = 1
      BY <1>2, <2>2
    <3>5. i = k + l => i - k = l
      BY <1>2, <2>2
    <3>. QED  BY <1>1, <1>2, <3>1, <3>2, <3>3, <3>4, <3>5
  <2>3. i \in 1..k \/ i \in (k + 1)..(k + l)
    BY <1>2
  <2>. QED  BY <2>1, <2>2, <2>3
<1>5. IsTiling(c, x, z)
  BY <1>2, <1>3, <1>4 DEF IsTiling
<1>. QED  BY <1>5 DEF c

(* No span ends after the last.                                            *)
LEMMA TilingInside ==
  ASSUME NEW spans, NEW from, NEW to, IsTiling(spans, from, to)
  PROVE  /\ \A i \in 1..Len(spans) : spans[i][1] \in Nat /\ spans[i][2] \in Nat
                                     /\ spans[i] = <<spans[i][1], spans[i][2]>>
         /\ \A i \in 1..Len(spans) : spans[i][2] <= to
<1> DEFINE k == Len(spans)
           T == {m \in 0..k : \A i \in (k - m + 1)..k : spans[i][2] <= to}
<1>1. /\ spans \in Seq(Pairs) /\ k \in Nat
      /\ \A i \in 1..k : /\ spans[i][1] < spans[i][2]
                         /\ i = k => spans[i][2] = to
                         /\ i < k => spans[i + 1][1] = spans[i][2]
  BY DEF IsTiling
<1>2. \A i \in 1..k : spans[i][1] \in Nat /\ spans[i][2] \in Nat
                      /\ spans[i] = <<spans[i][1], spans[i][2]>>
  <2>1. \A x \in Pairs : x[1] \in Nat /\ x[2] \in Nat /\ x = <<x[1], x[2]>>
    BY DEF Pairs
  <2>2. \A i \in 1..k : spans[i] \in Pairs
    BY <1>1
  <2>. QED  BY <2>1, <2>2
<1> HIDE DEF k
<1>3. 0 \in T
  BY <1>1
<1>4. ASSUME NEW m \in 1..k, m - 1 \in T PROVE m \in T
  <2>1. PICK j : j = k - m + 1
    OBVIOUS
  <2>2. j \in 1..k /\ \A i \in (j + 1)..k : spans[i][2] <= to
    BY <1>1, <1>4, <2>1
  <2>3. spans[j][2] <= to
    <3>1. CASE j = k
      BY <1>1, <1>2, <2>2, <3>1
    <3>2. CASE j < k
      <4>1. j + 1 \in 1..k /\ j + 1 \in (j + 1)..k
        BY <1>1, <2>2, <3>2
      <4>2. spans[j + 1][1] < spans[j + 1][2] /\ spans[j + 1][2] <= to /\ spans[j + 1][1] = spans[j][2]
        BY <1>1, <2>2, <3>2, <4>1
      <4>3. spans[j][2] \in Nat /\ spans[j + 1][2] \in Nat /\ to \in Nat
        <5>1. k \in 1..k /\ spans[k][2] = to
          BY <1>1, <2>2
        <5>. QED  BY <1>2, <2>2, <4>1, <5>1
      <4>. QED  BY <4>2, <4>3
    <3>. QED  BY <1>1, <2>2, <3>1, <3>2
  <2>4. \A i \in j..k : i = j \/ i \in (j + 1)..k
    BY <2>2
  <2>. QED  BY <1>1, <2>1, <2>2, <2>3, <2>4
<1>5. 0..k \subseteq T
  <2> HIDE DEF T
  <2>. QED  BY <1>1, <1>3, <1>4, Induction
<1>6. k \in T /\ k - k + 1 = 1
  BY <1>1, <1>5
<1>. QED  BY <1>2, <1>6 DEF k

LEMMA OneSpan ==
  ASSUME NEW x \in Nat, NEW y \in Nat, x < y
  PROVE  IsTiling(<<<<x, y>>>>, x, y)
<1> DEFINE a == <<<<x, y>>>>
<1>1. a \in Seq(Pairs) /\ Len(a) = 1 /\ a[1] = <<x, y>> /\ a # <<>>
  BY DEF Pairs
<1> HIDE DEF a
<1>2. \A i \in 1..Len(a) : i = 1
  BY <1>1
<1>3. IsTiling(a, x, y)
  BY <1>1, <1>2 DEF IsTiling
<1>. QED  BY <1>3 DEF a

(* What is cut up by length.                                               *)
LEMMA HardCutIs ==
  ASSUME NEW s \in Nat, NEW e \in Nat, s <= e
  PROVE  /\ IsTiling(HardCut(s, e), s, e)
         /\ \A i \in 1..Len(HardCut(s, e)) : HardCut(s, e)[i][2] - HardCut(s, e)[i][1] <= MaxChars
<1> DEFINE M == MaxChars
           d == e - s
           N == (d + M - 1) \div M
           from(n) == s + (n - 1) * M
           to(n) == Smaller(s + n * M, e)
           cut == HardCut(s, e)
<1>1. M \in Nat /\ M > 0 /\ d \in Nat /\ e = s + d
  BY DocumentAssumption
<1>2. cut = [n \in 1..N |-> <<from(n), to(n)>>]
  BY DEF HardCut
<1> HIDE DEF M, d, cut
<1>3. N \in Nat /\ N * M <= d + M - 1 /\ d + M - 1 < (N + 1) * M
  <2> DEFINE a == d + M - 1
             q == a \div M
  <2>1. a \in Nat
    BY <1>1
  <2>2. q \in Int /\ q * M <= a /\ a < (q + 1) * M
    BY <1>1, <2>1
  <2> HIDE DEF q
  <2>3. q >= 0
    <3> SUFFICES ASSUME q < 0 PROVE FALSE
      BY <2>2
    <3>1. q + 1 <= 0 /\ q + 1 \in Int
      BY <2>2
    <3>2. (q + 1) * M <= 0
      BY <1>1, <3>1
    <3>3. (q + 1) * M \in Int
      BY <1>1, <3>1
    <3>. QED  BY <2>1, <2>2, <3>2, <3>3
  <2>. QED  BY <2>2, <2>3 DEF q
<1> HIDE DEF N
<1>4. /\ \A n \in Nat : n * M \in Nat /\ (n + 1) * M = n * M + M
      /\ \A m, n \in Nat : m <= n => m * M <= n * M
  BY <1>1
<1>5. /\ d <= N * M
      /\ \A n \in 1..N : n - 1 \in Nat /\ (n - 1) * M \in Nat /\ n * M = (n - 1) * M + M /\ (n - 1) * M < d
      /\ \A n \in 1..N : n < N => n * M < d
  <2>1. d <= N * M
    <3>1. (N + 1) * M = N * M + M /\ N * M \in Nat
      BY <1>3, <1>4
    <3>. QED  BY <1>1, <1>3, <3>1
  <2>2. ASSUME NEW n \in 1..N
        PROVE  n - 1 \in Nat /\ (n - 1) * M \in Nat /\ n * M = (n - 1) * M + M /\ (n - 1) * M < d
    <3>1. n - 1 \in Nat /\ (n - 1) + 1 = n /\ n \in Nat
      BY <1>3
    <3>2. (n - 1) * M \in Nat /\ ((n - 1) + 1) * M = (n - 1) * M + M
      BY <1>4, <3>1
    <3>3. n * M = (n - 1) * M + M
      BY <3>1, <3>2
    <3>4. n <= N
      BY <1>3
    <3>5. n * M <= N * M /\ N * M \in Nat
      BY <1>3, <1>4, <3>1, <3>4
    <3>. QED  BY <1>1, <1>3, <3>1, <3>2, <3>3, <3>5
  <2>3. ASSUME NEW n \in 1..N, n < N PROVE n * M < d
    <3>1. n + 1 \in 1..N /\ (n + 1) - 1 = n
      BY <1>3, <2>3
    <3>. QED  BY <2>2, <3>1
  <2>. QED  BY <2>1, <2>2, <2>3
<1>6. ASSUME NEW n \in 1..N
      PROVE  /\ from(n) \in Nat /\ to(n) \in Nat /\ from(n) < to(n) /\ to(n) - from(n) <= M
             /\ n = 1 => from(n) = s
             /\ n = N => to(n) = e
             /\ n < N => from(n + 1) = to(n)
  <2> DEFINE a == (n - 1) * M
             b == n * M
  <2>1. a \in Nat /\ b = a + M /\ a < d /\ (n < N => b < d) /\ (n = N => d <= b)
    BY <1>5
  <2>2. n = 1 => a = 0
    BY <1>1
  <2>3. from(n) = s + a /\ to(n) = Smaller(s + b, e) /\ (n < N => from(n + 1) = s + b)
    BY <1>3
  <2> HIDE DEF a, b, from, to
  <2>. QED  BY <1>1, <2>1, <2>2, <2>3 DEF Smaller
<1> HIDE DEF from, to
<1>7. /\ cut \in Seq(Pairs) /\ Len(cut) = N
      /\ \A n \in 1..N : cut[n][1] = from(n) /\ cut[n][2] = to(n)
  BY <1>2, <1>3, <1>6 DEF Pairs
<1>8. cut = <<>> => s = e
  BY <1>1, <1>3, <1>5, <1>7
<1>9. \A n \in 1..N : n < N => n + 1 \in 1..N
  BY <1>3
<1>. QED  BY <1>6, <1>7, <1>8, <1>9 DEF IsTiling, cut, M


-----------------------------------------------------------------------------
(* The walk over the sentences of a text. *)

Walked == {acc \in [cursor : Nat, start : Nat, len : Int, spans : Seq(Pairs)] :
              acc.start <= acc.cursor}

Start0 == [cursor |-> 0, start |-> 0, len |-> 0, spans |-> <<>>]

(* Where the next sentence begins, and the three cases.                    *)
Begin(acc) == IF acc.cursor = 0 THEN 0 ELSE acc.cursor + 1

IsAdded(acc, n, p, e, a) ==
    /\ p \in Nat /\ e \in Nat /\ acc.start <= p /\ p < e
    /\ a \in Walked /\ a.cursor = e
    /\ \/ /\ e - acc.start > MaxChars /\ acc.len = 0
          /\ a.spans = acc.spans \o HardCut(acc.start, e) /\ a.start = e /\ a.len = 0
       \/ /\ e - acc.start > MaxChars /\ acc.len # 0
          /\ a.spans = Append(acc.spans, <<acc.start, p>>) /\ a.start = p /\ a.len = n
       \/ /\ ~ e - acc.start > MaxChars
          /\ a.spans = acc.spans /\ a.start = acc.start /\ a.len = e - acc.start

LEMMA AddSentenceIs ==
  ASSUME NEW acc \in Walked, NEW n \in Lengths
  PROVE  /\ IsAdded(acc, n, Begin(acc), Begin(acc) + n, AddSentence(acc, n))
         /\ AddSentence(acc, n) \in Walked
<1>0. PICK p, e, a : p = Begin(acc) /\ e = p + n /\ a = AddSentence(acc, n)
  OBVIOUS
<1> SUFFICES IsAdded(acc, n, p, e, a)
  BY <1>0 DEF IsAdded
<1>1. /\ acc.cursor \in Nat /\ acc.start \in Nat /\ acc.len \in Int /\ acc.start <= acc.cursor
      /\ acc.spans \in Seq(Pairs) /\ n \in Nat /\ n > 0 /\ MaxChars \in Nat
      /\ acc = [cursor |-> acc.cursor, start |-> acc.start, len |-> acc.len, spans |-> acc.spans]
  BY DocumentAssumption DEF Walked, Lengths
<1>2. p \in Nat /\ e \in Nat /\ acc.start <= p /\ p < e
  BY <1>0, <1>1 DEF Begin
<1>3. CASE e - acc.start > MaxChars /\ acc.len = 0
  <2>1. a = [cursor |-> e, start |-> e, len |-> 0, spans |-> acc.spans \o HardCut(acc.start, e)]
    BY <1>0, <1>1, <1>3 DEF AddSentence, Begin
  <2>2. HardCut(acc.start, e) \in Seq(Pairs)
    BY <1>1, <1>2, HardCutIs DEF IsTiling
  <2>3. acc.spans \o HardCut(acc.start, e) \in Seq(Pairs)
    BY <1>1, <2>2
  <2>. QED  BY <1>2, <1>3, <2>1, <2>3 DEF Walked, IsAdded
<1>4. CASE e - acc.start > MaxChars /\ acc.len # 0
  <2>1. a = [cursor |-> e, start |-> p, len |-> n, spans |-> Append(acc.spans, <<acc.start, p>>)]
    BY <1>0, <1>1, <1>4 DEF AddSentence, Begin
  <2>2. <<acc.start, p>> \in Pairs
    BY <1>1, <1>2 DEF Pairs
  <2>3. Append(acc.spans, <<acc.start, p>>) \in Seq(Pairs)
    BY <1>1, <2>2
  <2>. QED  BY <1>1, <1>2, <1>4, <2>1, <2>3 DEF Walked, IsAdded
<1>5. CASE ~ e - acc.start > MaxChars
  <2>1. a = [cursor |-> e, start |-> acc.start, len |-> e - acc.start, spans |-> acc.spans]
    BY <1>0, <1>1, <1>5 DEF AddSentence, Begin
  <2>. QED  BY <1>1, <1>2, <1>5, <2>1 DEF Walked, IsAdded
<1>. QED  BY <1>3, <1>4, <1>5

IsWalk(st, text) ==
    /\ st[0] = Start0
    /\ \A n \in 0..Len(text) : st[n] \in Walked
    /\ \A n \in 1..Len(text) : st[n] = AddSentence(st[n - 1], text[n])

LEMMA WalkIs ==
  ASSUME NEW text \in Seq(Lengths)
  PROVE  \E st : IsWalk(st, text)
                 /\ Spans(text) = st[Len(text)].spans \o HardCut(st[Len(text)].start, TextLen(text))
<1> DEFINE k == Len(text)
           iter[t \in SUBSET DOMAIN text] ==
               IF t = {} THEN Start0 ELSE AddSentence(iter[t \ {Max(t)}], text[Max(t)])
           step == [n \in 1..k |-> [a \in Walked |-> AddSentence(a, text[n])]]
           end == iter[DOMAIN text]
<1>1. Spans(text) = end.spans \o HardCut(end.start, TextLen(text))
  BY DEF Spans, FoldLeft, MapThenFoldSet, Start0
<1>2. k \in Nat /\ DOMAIN text = 1..k /\ \A n \in 1..k : text[n] \in Lengths
  OBVIOUS
<1>3. Start0 \in Walked
  BY DEF Start0, Walked
<1>4. \A a \in Walked, n \in Lengths : AddSentence(a, n) \in Walked
  BY AddSentenceIs DEF IsAdded
<1> HIDE DEF k
<1>5. step \in [1..k -> [Walked -> Walked]]
  BY <1>2, <1>4
<1>6. PICK g : FoldsTo(g, k, Walked, Start0, step)
  <2> HIDE DEF step
  <2>. QED  BY <1>2, <1>3, <1>5, FoldExists
<1>7. g = [t \in SUBSET DOMAIN text |->
             IF t = {} THEN Start0 ELSE AddSentence(g[t \ {Max(t)}], text[Max(t)])]
  BY <1>2, <1>6 DEF FoldsTo
<1>8. iter = [t \in SUBSET DOMAIN text |->
                IF t = {} THEN Start0 ELSE AddSentence(iter[t \ {Max(t)}], text[Max(t)])]
  BY <1>7 DEF iter
<1> HIDE DEF iter
<1> DEFINE st == [n \in 0..k |-> iter[1..n]]
<1>9. ASSUME NEW n \in 1..k PROVE st[n] = AddSentence(st[n - 1], text[n])
  <2>1. Max(1..n) = n /\ (1..n) \ {n} = 1..(n - 1)
    BY <1>2, MaxOfInterval
  <2>2. 1..n \in SUBSET DOMAIN text /\ 1..n # {}
    BY <1>2
  <2>3. iter[1..n] = AddSentence(iter[(1..n) \ {Max(1..n)}], text[Max(1..n)])
    BY <1>8, <2>2
  <2>4. st[n] = iter[1..n] /\ st[n - 1] = iter[1..(n - 1)]
    BY <1>2
  <2>. QED  BY <2>1, <2>3, <2>4
<1>10. st[0] = Start0
  <2>1. 1..0 = {} /\ {} \in SUBSET DOMAIN text
    OBVIOUS
  <2>2. iter[1..0] = Start0
    BY <1>8, <2>1
  <2>. QED  BY <1>2, <2>2
<1>11. end = st[k]
  BY <1>2
<1> HIDE DEF st, end
<1>12. \A n \in 0..k : st[n] \in Walked
  <2> DEFINE T == {n \in 0..k : st[n] \in Walked}
  <2>1. 0 \in T
    BY <1>2, <1>3, <1>10
  <2>2. ASSUME NEW n \in 1..k, n - 1 \in T PROVE n \in T
    BY <1>2, <1>4, <1>9, <2>2
  <2>3. 0..k \subseteq T
    <3> HIDE DEF T
    <3>. QED  BY <1>2, <2>1, <2>2, Induction
  <2>. QED  BY <2>3
<1>13. IsWalk(st, text)
  BY <1>9, <1>10, <1>12 DEF IsWalk, k
<1>. QED  BY <1>1, <1>11, <1>13 DEF k


-----------------------------------------------------------------------------
(* What strip() leaves of a span, and which spans there are. *)

(* A span is at most a space shorter at each end, and if nothing is left   *)
(* of it then it was one space.                                            *)
LEMMA StrippedIs ==
  ASSUME NEW text \in Seq(Lengths), NEW s \in Nat, NEW e \in Nat, s < e
  PROVE  /\ StrippedLen(text, <<s, e>>) \in Int
         /\ StrippedLen(text, <<s, e>>) <= e - s
         /\ e - 1 \in Spaces(text) => StrippedLen(text, <<s, e>>) <= e - 1 - s
         /\ StrippedLen(text, <<s, e>>) <= 0 => e = s + 1 /\ s \in Spaces(text)
<1> DEFINE X == {s, e - 1} \cap Spaces(text)
           c == Cardinality(X)
<1>1. StrippedLen(text, <<s, e>>) = (e - s) - c
  BY DEF StrippedLen
<1>2. \A x \in Spaces(text) : x + 1 \notin Spaces(text)
  BY SpacesAre
<1>3. CASE X = {}
  <2>1. c = 0
    BY <1>3, FS_EmptySet
  <2>. QED  BY <1>1, <1>3, <2>1
<1>4. ASSUME NEW x \in X, X = {x}
      PROVE  c = 1
  BY <1>4, FS_Singleton
<1>5. CASE X # {} /\ \E x \in X : X = {x}
  <2>1. c = 1
    BY <1>4, <1>5
  <2>2. e - s <= 1 => e = s + 1 /\ s \in Spaces(text)
    BY <1>5
  <2>. QED  BY <1>1, <2>1, <2>2
<1>6. CASE ~ \E x \in X : X = {x}
  <2>1. CASE X # {}
    <3>1. s \in Spaces(text) /\ e - 1 \in Spaces(text) /\ s # e - 1
      BY <1>6, <2>1
    <3>2. X = {s} \cup {e - 1} /\ IsFiniteSet({s}) /\ Cardinality({s}) = 1 /\ e - 1 \notin {s}
      BY <3>1, FS_Singleton
    <3>3. c = 2
      <4>1. Cardinality({s} \cup {e - 1}) = 1 + 1
        <5> HIDE DEF X, c
        <5>. QED  BY <3>2, FS_AddElement
      <4>2. c = Cardinality({s} \cup {e - 1})
        BY Zenon, <3>2
      <4>. QED  BY <4>1, <4>2
    <3>4. e # s + 2
      BY <1>2, <3>1
    <3>. QED  BY <1>1, <3>1, <3>3, <3>4
  <2>. QED  BY <1>3, <2>1
<1>. QED  BY <1>3, <1>5, <1>6

FitsOrInner(text, span) ==
    \/ StrippedLen(text, span) <= MaxChars
    \/ \E n \in 2..(Len(text) - 1) :
          span[1] = Ends(text, n - 1) + 1 /\ span[2] = Ends(text, n) + 1

(* After n sentences: what was emitted is everything before what is        *)
(* pending, and what is pending fits or is the last sentence alone.        *)
WalkInv(st, text, n) ==
    /\ st[n].cursor = Ends(text, n) /\ st[n].len = st[n].cursor - st[n].start
    /\ IsTiling(st[n].spans, 0, st[n].start)
    /\ \A i \in 1..Len(st[n].spans) : FitsOrInner(text, st[n].spans[i])
    /\ \/ st[n].cursor - st[n].start <= MaxChars
       \/ n >= 2 /\ st[n].start = Ends(text, n - 1) + 1

LEMMA HardCutFits ==
  ASSUME NEW text \in Seq(Lengths), NEW s \in Nat, NEW e \in Nat, s <= e
  PROVE  \A i \in 1..Len(HardCut(s, e)) : FitsOrInner(text, HardCut(s, e)[i])
<1> DEFINE cut == HardCut(s, e)
<1>1. /\ IsTiling(cut, s, e)
      /\ \A i \in 1..Len(cut) : cut[i][2] - cut[i][1] <= MaxChars
  BY HardCutIs
<1> HIDE DEF cut
<1>2. ASSUME NEW i \in 1..Len(cut) PROVE FitsOrInner(text, cut[i])
  <2>1. cut[i] \in Pairs /\ cut[i][1] < cut[i][2]
    BY <1>1 DEF IsTiling
  <2>2. PICK x \in Nat, y \in Nat : cut[i] = <<x, y>>
    BY <2>1 DEF Pairs
  <2>3. StrippedLen(text, <<x, y>>) \in Int /\ StrippedLen(text, <<x, y>>) <= y - x
    BY <2>1, <2>2, StrippedIs
  <2>4. y - x <= MaxChars /\ MaxChars \in Nat
    BY <1>1, <2>2, DocumentAssumption
  <2>. QED  BY <2>2, <2>3, <2>4 DEF FitsOrInner
<1>. QED  BY <1>2 DEF cut

LEMMA WalkKeeps ==
  ASSUME NEW text \in Seq(Lengths), NEW st, IsWalk(st, text), NEW n \in 1..Len(text),
         WalkInv(st, text, n - 1)
  PROVE  WalkInv(st, text, n)
<1>0. PICK acc, a, p, e :
         acc = st[n - 1] /\ a = st[n] /\ p = Begin(acc) /\ e = p + text[n]
  OBVIOUS
<1>1. acc \in Walked /\ text[n] \in Lengths /\ a = AddSentence(acc, text[n])
  BY <1>0 DEF IsWalk
<1>2. IsAdded(acc, text[n], p, e, a)
  BY <1>0, <1>1, AddSentenceIs
<1>3. /\ acc.cursor = Ends(text, n - 1) /\ acc.len = acc.cursor - acc.start
      /\ IsTiling(acc.spans, 0, acc.start)
      /\ \A i \in 1..Len(acc.spans) : FitsOrInner(text, acc.spans[i])
      /\ \/ acc.cursor - acc.start <= MaxChars
         \/ n - 1 >= 2 /\ acc.start = Ends(text, n - 1 - 1) + 1
  BY <1>0 DEF WalkInv
<1>4. /\ acc.cursor \in Nat /\ acc.start \in Nat
      /\ p \in Nat /\ e \in Nat /\ p < e /\ acc.start <= p /\ acc.start <= e /\ acc.start <= acc.cursor
      /\ text[n] \in Nat /\ text[n] > 0 /\ MaxChars \in Nat
  <2>1. p \in Nat /\ e \in Nat /\ p < e /\ acc.start <= p /\ a.cursor = e
    BY <1>2 DEF IsAdded
  <2>2. /\ acc.cursor \in Nat /\ acc.start \in Nat /\ acc.spans \in Seq(Pairs) /\ acc.len \in Int
        /\ acc.start <= acc.cursor /\ text[n] \in Nat /\ text[n] > 0 /\ MaxChars \in Nat
    BY <1>1, DocumentAssumption DEF Walked, Lengths
  <2>. QED  BY <2>1, <2>2
<1>9. acc.spans \in Seq(Pairs) /\ a.cursor = e
  BY <1>1, <1>2 DEF Walked, IsAdded
<1>10. \/ /\ e - acc.start > MaxChars /\ acc.len = 0
          /\ a.spans = acc.spans \o HardCut(acc.start, e) /\ a.start = e /\ a.len = 0
       \/ /\ e - acc.start > MaxChars /\ acc.len # 0
          /\ a.spans = Append(acc.spans, <<acc.start, p>>) /\ a.start = p /\ a.len = text[n]
       \/ /\ ~ e - acc.start > MaxChars
          /\ a.spans = acc.spans /\ a.start = acc.start /\ a.len = e - acc.start
  BY <1>2 DEF IsAdded
<1>5. e = Ends(text, n)
  <2>1. Ends(text, n) = Ends(text, n - 1) + text[n] + (IF n = 1 THEN 0 ELSE 1)
    BY EndsAre
  <2>2. n = 1 <=> acc.cursor = 0
    <3>1. Ends(text, 0) = 0
      BY EndsAre
    <3>2. ASSUME n # 1 PROVE Ends(text, n - 1) > 0
      <4>1. n - 1 \in 0..Len(text) /\ 0 \in 0..((n - 1) - 1)
        BY <3>2
      <4>2. Ends(text, 0) < Ends(text, n - 1)
        BY <4>1, EndsGrow
      <4>. QED  BY <3>1, <4>2
    <3>. QED  BY <1>3, <1>4, <3>1, <3>2
  <2>3. acc.cursor = Ends(text, n - 1) /\ p = (IF n = 1 THEN 0 ELSE acc.cursor + 1)
    BY <1>0, <1>3, <2>2 DEF Begin
  <2>4. e = p + text[n] /\ (n = 1 => acc.cursor = 0)
    BY <1>0, <2>2
  <2>5. CASE n = 1
    BY <1>4, <2>1, <2>3, <2>4, <2>5
  <2>6. CASE n # 1
    BY <1>4, <2>1, <2>3, <2>4, <2>6
  <2>. QED  BY <2>5, <2>6
<1>6. CASE e - acc.start > MaxChars /\ acc.len = 0
  <2>1. a.spans = acc.spans \o HardCut(acc.start, e) /\ a.start = e /\ a.len = 0
    BY <1>6, <1>10
  <2>2. IsTiling(HardCut(acc.start, e), acc.start, e)
    BY <1>4, HardCutIs
  <2>3. IsTiling(a.spans, 0, a.start)
    BY <1>3, <2>1, <2>2, TilingsJoin
  <2>4. \A i \in 1..Len(HardCut(acc.start, e)) : FitsOrInner(text, HardCut(acc.start, e)[i])
    BY <1>4, HardCutFits
  <2>5. HardCut(acc.start, e) \in Seq(Pairs)
    BY <2>2 DEF IsTiling
  <2> DEFINE cut == HardCut(acc.start, e)
  <2> HIDE DEF cut
  <2>6. /\ a.spans = acc.spans \o cut /\ cut \in Seq(Pairs)
        /\ \A i \in 1..Len(cut) : FitsOrInner(text, cut[i])
    BY <2>1, <2>4, <2>5 DEF cut
  <2>7. ASSUME NEW i \in 1..Len(a.spans) PROVE FitsOrInner(text, a.spans[i])
    <3>1. CASE i \in 1..Len(acc.spans)
      <4>1. a.spans[i] = acc.spans[i]
        BY <1>9, <2>6, <3>1
      <4>. QED  BY <1>3, <3>1, <4>1
    <3>2. CASE i \notin 1..Len(acc.spans)
      <4>1. i - Len(acc.spans) \in 1..Len(cut) /\ a.spans[i] = cut[i - Len(acc.spans)]
        BY <1>9, <2>6, <3>2
      <4>. QED  BY <2>6, <4>1
    <3>. QED  BY <3>1, <3>2
  <2>8. a.len = a.cursor - a.start /\ a.cursor - a.start <= MaxChars
    BY <1>4, <1>9, <2>1
  <2>. QED  BY <1>0, <1>5, <1>9, <2>3, <2>7, <2>8 DEF WalkInv
<1>7. CASE e - acc.start > MaxChars /\ acc.len # 0
  <2>1. /\ a.spans = Append(acc.spans, <<acc.start, p>>) /\ a.start = p /\ a.len = text[n]
    BY <1>7, <1>10
  <2>2. p = acc.cursor + 1 /\ n # 1 /\ acc.start < p
    <3>1. acc.cursor # 0
      BY <1>3, <1>4, <1>7
    <3>2. Ends(text, 0) = 0
      BY EndsAre
    <3>. QED  BY <1>0, <1>3, <1>4, <3>1, <3>2 DEF Begin
  <2>3. IsTiling(<<<<acc.start, p>>>>, acc.start, p)
    BY <1>4, <2>2, OneSpan
  <2>4. a.spans = acc.spans \o <<<<acc.start, p>>>>
    <3>1. <<acc.start, p>> \in Pairs
      BY <1>4 DEF Pairs
    <3>. QED  BY <1>9, <2>1, <3>1, AppendIsConcat
  <2>5. IsTiling(a.spans, 0, a.start)
    BY <1>3, <2>1, <2>3, <2>4, TilingsJoin
  <2>6. FitsOrInner(text, <<acc.start, p>>)
    <3>1. n - 1 \in 1..(Len(text) - 1)
      BY <2>2
    <3>2. p - 1 \in Spaces(text)
      BY <1>3, <1>4, <2>2, <3>1, SpacesAre
    <3>3. /\ StrippedLen(text, <<acc.start, p>>) \in Int
          /\ StrippedLen(text, <<acc.start, p>>) <= p - 1 - acc.start
      BY <1>4, <2>2, <3>2, StrippedIs
    <3>4. CASE acc.cursor - acc.start <= MaxChars
      <4>1. PICK l : l = StrippedLen(text, <<acc.start, p>>)
        OBVIOUS
      <4>2. l \in Int /\ l <= p - 1 - acc.start
        BY <3>3, <4>1
      <4>3. p - 1 - acc.start = acc.cursor - acc.start
        BY <1>4, <2>2
      <4>4. l <= MaxChars
        BY <1>4, <3>4, <4>2, <4>3
      <4>. QED  BY <4>1, <4>4 DEF FitsOrInner
    <3>5. CASE n - 1 >= 2 /\ acc.start = Ends(text, n - 1 - 1) + 1
      <4>1. n - 1 \in 2..(Len(text) - 1)
        BY <3>1, <3>5
      <4>2. <<acc.start, p>>[1] = Ends(text, n - 1 - 1) + 1 /\ <<acc.start, p>>[2] = Ends(text, n - 1) + 1
        BY <1>3, <2>2, <3>5
      <4>. QED  BY <4>1, <4>2 DEF FitsOrInner
    <3>. QED  BY <1>3, <3>4, <3>5
  <2>7. ASSUME NEW i \in 1..Len(a.spans) PROVE FitsOrInner(text, a.spans[i])
    <3>1. CASE i \in 1..Len(acc.spans)
      <4>1. a.spans[i] = acc.spans[i]
        BY <1>9, <2>1, <3>1
      <4>. QED  BY <1>3, <3>1, <4>1
    <3>2. CASE i \notin 1..Len(acc.spans)
      <4>1. a.spans[i] = <<acc.start, p>>
        BY <1>9, <2>1, <3>2
      <4>. QED  BY <2>6, <4>1
    <3>. QED  BY <3>1, <3>2
  <2>8. n >= 2 /\ a.start = Ends(text, n - 1) + 1 /\ a.len = a.cursor - a.start
    <3>1. n >= 2
      BY <2>2
    <3>2. a.start = Ends(text, n - 1) + 1
      BY <1>3, <2>1, <2>2
    <3>3. a.len = a.cursor - a.start
      <4>1. a.len = text[n] /\ a.cursor = e /\ a.start = p /\ e = p + text[n]
        BY <1>0, <1>9, <2>1
      <4>. QED  BY <1>4, <4>1
    <3>. QED  BY <3>1, <3>2, <3>3
  <2>. QED  BY <1>0, <1>5, <1>9, <2>5, <2>7, <2>8 DEF WalkInv
<1>8. CASE ~ e - acc.start > MaxChars
  <2>1. a.spans = acc.spans /\ a.start = acc.start /\ a.len = e - acc.start
    BY <1>8, <1>10
  <2>2. a.cursor - a.start <= MaxChars /\ a.len = a.cursor - a.start
    BY <1>4, <1>8, <1>9, <2>1
  <2>. QED  BY <1>0, <1>3, <1>5, <1>9, <2>1, <2>2 DEF WalkInv
<1>. QED  BY <1>6, <1>7, <1>8

LEMMA SpansAre ==
  ASSUME NEW text \in Seq(Lengths)
  PROVE  /\ IsTiling(Spans(text), 0, TextLen(text))
         /\ \A i \in 1..Len(Spans(text)) : FitsOrInner(text, Spans(text)[i])
<1> DEFINE k == Len(text)
<1>1. PICK st : IsWalk(st, text) /\ Spans(text) = st[k].spans \o HardCut(st[k].start, TextLen(text))
  BY WalkIs
<1>2. k \in Nat
  OBVIOUS
<1> DEFINE T == {n \in 0..k : WalkInv(st, text, n)}
<1>3. 0 \in T
  <2>1. Ends(text, 0) = 0 /\ MaxChars \in Nat
    BY EndsAre, DocumentAssumption
  <2>2. st[0] = Start0 /\ 0 \in 0..k
    BY <1>1, <1>2 DEF IsWalk
  <2>3. IsTiling(<<>>, 0, 0)
    BY DEF IsTiling
  <2>. QED  BY <2>1, <2>2, <2>3 DEF WalkInv, Start0
<1>4. ASSUME NEW n \in 1..k, n - 1 \in T PROVE n \in T
  BY <1>1, <1>4, WalkKeeps
<1>5. WalkInv(st, text, k)
  <2>1. 0..k \subseteq T
    <3> HIDE DEF T, k
    <3>. QED  BY <1>2, <1>3, <1>4, Induction
  <2>. QED  BY <1>2, <2>1
<1> DEFINE a == st[k].spans
           s == st[k].start
           e == TextLen(text)
           cut == HardCut(s, e)
<1>6. st[k] \in Walked /\ s \in Nat /\ e \in Nat /\ s <= e
  <2>1. st[k] \in Walked /\ Ends(text, k) = e /\ Ends(text, k) \in Nat
    BY <1>1, <1>2, EndsAre DEF IsWalk
  <2>. QED  BY <1>5, <2>1 DEF Walked, WalkInv
<1>7. IsTiling(cut, s, e) /\ \A i \in 1..Len(cut) : FitsOrInner(text, cut[i])
  BY <1>6, HardCutIs, HardCutFits
<1>8. IsTiling(a, 0, s) /\ \A i \in 1..Len(a) : FitsOrInner(text, a[i])
  BY <1>5 DEF WalkInv
<1> DEFINE spans == a \o cut
<1>9. spans = Spans(text)
  BY <1>1
<1> HIDE DEF a, s, e, cut, k, T
<1>10. IsTiling(spans, 0, e)
  BY <1>7, <1>8, TilingsJoin
<1>11. a \in Seq(Pairs) /\ cut \in Seq(Pairs)
  BY <1>7, <1>8 DEF IsTiling
<1>12. ASSUME NEW i \in 1..Len(spans) PROVE FitsOrInner(text, spans[i])
  <2>1. CASE i \in 1..Len(a)
    <3>1. spans[i] = a[i]
      BY <1>11, <2>1
    <3>. QED  BY <1>8, <2>1, <3>1
  <2>2. CASE i \notin 1..Len(a)
    <3>1. i - Len(a) \in 1..Len(cut) /\ spans[i] = cut[i - Len(a)]
      BY <1>11, <2>2
    <3>. QED  BY <1>7, <3>1
  <2>. QED  BY <2>1, <2>2
<1>. QED  BY <1>9, <1>10, <1>12 DEF e


-----------------------------------------------------------------------------
(* What the blocks are when chunking starts. *)

Triples == Nat \X Nat \X Nat

Blocks ==
    [src : Triples, kind : Splittable \cup {"section_head", "equation", "list_item", "figure_caption", "table"},
     text : Seq(Lengths), from : Nat, to : Nat, len : Nat, label : Nat, div : Nat, overlap : BOOLEAN]

(* A block of the list: that of a heading is the first of its div, and one *)
(* that is too long must not be split or is a sentence between two others. *)
ReadyBlock(b) ==
    /\ b \in Blocks /\ IsBlock(b) /\ b.overlap = FALSE
    /\ IsHead(b) => b = BlocksOf(b.div)[1]
    /\ Rendered(b) > MaxChars => b.kind \notin Splittable \/ IsInnerSentence(b)

(* What is not a heading.                                                  *)
Texts(s) == FlattenSeq([n \in DOMAIN s |-> IF ~ IsHead(s[n]) THEN <<s[n]>> ELSE <<>>])

(* The text the extractor reads at a place, and the places where it reads  *)
(* one.                                                                    *)
TextAt(src) == TextsOf(body[src[1]].kids[src[2]])[src[3]]

Sources ==
    {src \in UNION {UNION {{<<d, k, i>> : i \in DOMAIN TextsOf(body[d].kids[k])} :
                              k \in DOMAIN body[d].kids} : d \in DOMAIN body} :
        TextAt(src) # <<>>}

(* What EveryTextIsIndexed says of a sequence of blocks, with what the     *)
(* extractor reads in the place of what the paper says.                    *)
ReadsAll(t) ==
    /\ {t[n].src : n \in DOMAIN t} = Sources
    /\ \A n \in DOMAIN t :
          /\ t[n].text = TextAt(t[n].src)
          /\ n = 1 \/ t[n].src # t[n - 1].src => t[n].from = 0
          /\ n = Len(t) \/ t[n].src # t[n + 1].src => t[n].to = TextLen(TextAt(t[n].src))
          /\ n > 1 => \/ ComesBefore(t[n - 1].src, t[n].src)
                      \/ /\ t[n].src = t[n - 1].src
                         /\ t[n - 1].to <= t[n].from
                         /\ t[n - 1].to..(t[n].from - 1) \subseteq Spaces(t[n].text)

(* Divs follow each other, a heading comes before all else of its div, and *)
(* a div that has one does not go without it.                              *)
DivsInOrder ==
    /\ \A i, j \in 1..Len(prepared) : i < j =>
          /\ prepared[i].div <= prepared[j].div
          /\ IsHead(prepared[j]) => prepared[i].div < prepared[j].div
    /\ \A i \in 1..Len(prepared) : body[prepared[i].div].head # <<>> =>
          \E j \in 1..i : IsHead(prepared[j]) /\ prepared[j].div = prepared[i].div

PreparedInv ==
    /\ prepared \in Seq(Blocks) /\ \A i \in 1..Len(prepared) : ReadyBlock(prepared[i])
    /\ DivsInOrder
    /\ ReadsAll(Texts(prepared))

-----------------------------------------------------------------------------
(* The chunks and the buffer. *)

Drafts == [index : Nat, blocks : Seq(Blocks), norms : Seq(Blocks), len : Nat, div : Nat]

HasChunk(cs, div) == \E m \in 1..Len(cs) : cs[m].div = div

(* The first text of a section comes with the heading, unless the two do   *)
(* not fit into one chunk.                                                 *)
StartsWell(b, div, before) ==
    \/ IsHead(b) \/ body[div].head = <<>>
    \/ HasChunk(before, div)
    \/ Rendered(b) + 2 + Rendered(BlocksOf(div)[1]) > MaxChars

(* What the properties say of a chunk that comes after others.             *)
ChunkInv(c, before) ==
    /\ c.index = Len(before) /\ c.blocks # <<>> /\ c.div \in 1..Len(body)
    /\ \A m \in 1..Len(c.blocks) :
          /\ ReadyBlock(c.blocks[m]) /\ c.blocks[m].div = c.div
          /\ IsHead(c.blocks[m]) => m = 1
    /\ c.len > MaxChars =>
          /\ Len(c.blocks) = 1
          /\ c.blocks[1].kind \notin Splittable \/ IsInnerSentence(c.blocks[1])
    /\ StartsWell(c.blocks[1], c.div, before)

ChunksInv(cs) ==
    cs \in Seq(Drafts) /\ \A n \in 1..Len(cs) : ChunkInv(cs[n], SubSeq(cs, 1, n - 1))

Buffers == [blocks : Seq(Blocks), norms : Seq(Blocks), len : Nat]

(* The buffer is of one div and a heading only opens it; no normalised     *)
(* text but that of a heading is kept, so no block can be carried over; it *)
(* is longer than the limit only when it is a heading alone.               *)
BufInv(bf, div) ==
    /\ bf \in Buffers /\ bf.len = JoinLen(bf.blocks)
    /\ \A m \in 1..Len(bf.blocks) :
          /\ ReadyBlock(bf.blocks[m]) /\ bf.blocks[m].div = div
          /\ IsHead(bf.blocks[m]) => m = 1
    /\ \/ bf.norms = <<>>
       \/ Len(bf.norms) = 1 /\ bf.blocks # <<>> /\ IsHead(bf.blocks[1])
    /\ bf.len > MaxChars => Len(bf.blocks) = 1 /\ IsHead(bf.blocks[1])

(* The buffer starts well, and it is empty in the middle of a div only     *)
(* after a chunk of that div.                                              *)
Continues(bf, cs, div) ==
    /\ bf.blocks # <<>> => StartsWell(bf.blocks[1], div, cs)
    /\ bf.blocks = <<>> /\ div # None => HasChunk(cs, div)

(* All chunks laid end to end, without the headings.                       *)
Laid(cs) == FlattenSeq([n \in DOMAIN cs |-> Texts(cs[n].blocks)])

(* The texts of the first n blocks are those of the chunks and the buffer. *)
HasRead(bf, cs, n) == Texts(SubSeq(prepared, 1, n)) = Laid(cs) \o Texts(bf.blocks)

ChunkingInv ==
    /\ next \in 1..(Len(prepared) + 1)
    /\ currentDiv = IF next = 1 THEN None ELSE prepared[next - 1].div
    /\ ChunksInv(chunks)
    /\ pc = "chunk" => BufInv(buf, currentDiv) /\ Continues(buf, chunks, currentDiv)
    /\ pc = "done" => buf = EmptyBuf /\ next = Len(prepared) + 1
    /\ HasRead(buf, chunks, next - 1)

-----------------------------------------------------------------------------
(* Lengths and texts of one block more. *)

LEMMA RenderedIs ==
  ASSUME NEW b \in Blocks
  PROVE  /\ Rendered(b) \in Nat /\ b.len \in Nat /\ b.label \in Nat
         /\ b.kind \in Splittable => Rendered(b) = b.len
<1>1. b.len \in Nat /\ b.label \in Nat
  BY DEF Blocks
<1>2. Prefix(b) \in Nat
  BY <1>1 DEF Prefix
<1>3. b.kind \in Splittable => Prefix(b) = 0
  BY DEF Prefix, Splittable
<1>. QED  BY <1>1, <1>2, <1>3 DEF Rendered

LEMMA JoinLenIs ==
  ASSUME NEW s \in Seq(Blocks), NEW b \in Blocks
  PROVE  /\ JoinLen(s) \in Nat
         /\ JoinLen(Append(s, b)) = JoinLen(s) + (IF s = <<>> THEN 0 ELSE 2) + Rendered(b)
<1> DEFINE r(t) == [n \in DOMAIN t |-> Rendered(t[n])]
           k == Len(s)
<1>1. k \in Nat /\ DOMAIN s = 1..k /\ \A n \in 1..k : s[n] \in Blocks
  OBVIOUS
<1>2. /\ DOMAIN Append(s, b) = 1..(k + 1) /\ Append(s, b)[k + 1] = b /\ Append(s, b) # <<>>
      /\ \A n \in 1..k : Append(s, b)[n] = s[n]
      /\ Len(Append(s, b)) = k + 1
  OBVIOUS
<1>3. r(s) \in Seq(Nat) /\ Len(r(s)) = k /\ Rendered(b) \in Nat
  BY <1>1, RenderedIs
<1>4. r(Append(s, b)) = Append(r(s), Rendered(b))
  BY <1>1, <1>2, <1>3
<1>5. Sum(r(s)) \in Nat /\ Sum(Append(r(s), Rendered(b))) = Sum(r(s)) + Rendered(b) /\ Sum(<<>>) = 0
  BY <1>3, SumAppend
<1>6. JoinLen(Append(s, b)) = Sum(r(s)) + Rendered(b) + 2 * k
  <2>1. JoinLen(Append(s, b)) = Sum(r(Append(s, b))) + 2 * (Len(Append(s, b)) - 1)
    BY <1>2 DEF JoinLen
  <2>2. Len(Append(s, b)) = k + 1 /\ k \in Nat /\ Sum(r(s)) \in Nat /\ Rendered(b) \in Nat
    BY <1>1, <1>2, <1>3, <1>5
  <2>3. Sum(r(Append(s, b))) = Sum(r(s)) + Rendered(b)
    BY <1>4, <1>5
  <2>4. JoinLen(Append(s, b)) = (Sum(r(s)) + Rendered(b)) + 2 * ((k + 1) - 1)
    BY <2>1, <2>2, <2>3
  <2>5. (k + 1) - 1 = k
    BY <2>2
  <2>. QED  BY <2>4, <2>5
<1>7. CASE s = <<>>
  <2>1. k = 0 /\ r(s) = <<>>
    BY <1>7
  <2>2. JoinLen(s) = 0 /\ Sum(r(s)) = 0
    BY <1>5, <1>7, <2>1 DEF JoinLen
  <2>. QED  BY <1>3, <1>6, <1>7, <2>1, <2>2
<1>8. CASE s # <<>>
  <2>1. k > 0 /\ JoinLen(s) = Sum(r(s)) + 2 * (k - 1)
    BY <1>1, <1>8 DEF JoinLen
  <2>2. k \in Nat /\ Rendered(b) \in Nat /\ Sum(r(s)) \in Nat
    BY <1>1, <1>3, <1>5
  <2>. QED  BY <1>6, <1>8, <2>1, <2>2
<1>. QED  BY <1>7, <1>8

LEMMA JoinLenOfOne ==
  ASSUME NEW b \in Blocks
  PROVE  JoinLen(<<>>) = 0 /\ JoinLen(<<b>>) = Rendered(b)
<1>1. JoinLen(<<>>) = 0
  BY DEF JoinLen
<1>2. <<b>> = Append(<<>>, b) /\ <<>> \in Seq(Blocks)
  OBVIOUS
<1>3. JoinLen(Append(<<>>, b)) = JoinLen(<<>>) + 0 + Rendered(b) /\ Rendered(b) \in Nat
  BY <1>2, JoinLenIs, RenderedIs
<1>. QED  BY <1>1, <1>2, <1>3

LEMMA TextsAre ==
  ASSUME NEW s \in Seq(Blocks), NEW b \in Blocks
  PROVE  /\ Texts(s) \in Seq(Blocks)
         /\ Texts(Append(s, b)) = IF IsHead(b) THEN Texts(s) ELSE Append(Texts(s), b)
<1> DEFINE f(t) == [n \in DOMAIN t |-> IF ~ IsHead(t[n]) THEN <<t[n]>> ELSE <<>>]
           k == Len(s)
           x == IF ~ IsHead(b) THEN <<b>> ELSE <<>>
<1>1. k \in Nat /\ DOMAIN s = 1..k /\ \A n \in 1..k : s[n] \in Blocks
  OBVIOUS
<1>2. /\ DOMAIN Append(s, b) = 1..(k + 1) /\ Append(s, b)[k + 1] = b
      /\ \A n \in 1..k : Append(s, b)[n] = s[n]
  OBVIOUS
<1>3. f(s) \in Seq(Seq(Blocks)) /\ Len(f(s)) = k /\ x \in Seq(Blocks)
  <2>1. \A n \in 1..k : f(s)[n] \in Seq(Blocks)
    BY <1>1
  <2>. QED  BY <1>1, <2>1
<1>4. f(Append(s, b)) = Append(f(s), x)
  BY <1>1, <1>2, <1>3
<1>5. Texts(s) = FlattenSeq(f(s)) /\ Texts(Append(s, b)) = FlattenSeq(f(Append(s, b)))
  BY DEF Texts
<1> HIDE DEF f, x
<1>6. FlattenSeq(f(s)) \in Seq(Blocks)
  BY <1>3, FlattenIs
<1>7. FlattenSeq(Append(f(s), x)) = FlattenSeq(f(s)) \o x
  BY <1>3, FlattenAppend
<1>8. Texts(Append(s, b)) = Texts(s) \o x
  BY <1>4, <1>5, <1>7
<1>9. CASE IsHead(b)
  <2>1. x = <<>>
    BY <1>9 DEF x
  <2>. QED  BY <1>5, <1>6, <1>8, <1>9, <2>1
<1>10. CASE ~ IsHead(b)
  <2>1. x = <<b>>
    BY <1>10 DEF x
  <2>2. Append(Texts(s), b) = Texts(s) \o <<b>>
    BY <1>5, <1>6, AppendIsConcat
  <2>. QED  BY <1>5, <1>6, <1>8, <1>10, <2>1, <2>2
<1>. QED  BY <1>9, <1>10

LEMMA TextsOfOne ==
  ASSUME NEW b \in Blocks
  PROVE  Texts(<<>>) = <<>> /\ Texts(<<b>>) = IF IsHead(b) THEN <<>> ELSE <<b>>
<1>1. Texts(<<>>) = <<>>
  BY DEF Texts, FlattenSeq
<1>2. <<b>> = Append(<<>>, b) /\ <<>> \in Seq(Blocks)
  OBVIOUS
<1>3. Texts(Append(<<>>, b)) = IF IsHead(b) THEN Texts(<<>>) ELSE Append(Texts(<<>>), b)
  BY <1>2, TextsAre
<1>. QED  BY <1>1, <1>2, <1>3

LEMMA LaidIs ==
  ASSUME NEW cs \in Seq(Drafts), NEW c \in Drafts
  PROVE  /\ Laid(cs) \in Seq(Blocks)
         /\ Laid(Append(cs, c)) = Laid(cs) \o Texts(c.blocks)
<1> DEFINE f(t) == [n \in DOMAIN t |-> Texts(t[n].blocks)]
           k == Len(cs)
<1>1. /\ k \in Nat /\ DOMAIN cs = 1..k
      /\ \A n \in 1..k : cs[n] \in Drafts
  OBVIOUS
<1>2. \A d \in Drafts : Texts(d.blocks) \in Seq(Blocks)
  <2> SUFFICES ASSUME NEW d \in Drafts PROVE Texts(d.blocks) \in Seq(Blocks)
    OBVIOUS
  <2>1. d.blocks \in Seq(Blocks)
    BY DEF Drafts
  <2>2. CASE d.blocks = <<>>
    <3>1. Texts(d.blocks) = <<>>
      BY <2>2 DEF Texts, FlattenSeq
    <3>. QED  BY <3>1
  <2>3. CASE d.blocks # <<>>
    <3>1. d.blocks[1] \in Blocks
      BY <2>1, <2>3
    <3>. QED  BY <2>1, <3>1, TextsAre
  <2>. QED  BY <2>2, <2>3
<1>3. /\ DOMAIN Append(cs, c) = 1..(k + 1) /\ Append(cs, c)[k + 1] = c
      /\ \A n \in 1..k : Append(cs, c)[n] = cs[n]
  OBVIOUS
<1>4. f(cs) \in Seq(Seq(Blocks)) /\ Len(f(cs)) = k /\ Texts(c.blocks) \in Seq(Blocks)
  <2>1. \A n \in 1..k : f(cs)[n] \in Seq(Blocks)
    BY <1>1, <1>2
  <2>. QED  BY <1>1, <1>2, <2>1
<1>5. f(Append(cs, c)) = Append(f(cs), Texts(c.blocks))
  BY <1>1, <1>3, <1>4
<1>6. Laid(cs) = FlattenSeq(f(cs)) /\ Laid(Append(cs, c)) = FlattenSeq(f(Append(cs, c)))
  BY DEF Laid
<1> HIDE DEF f
<1>. QED  BY <1>4, <1>5, <1>6, FlattenIs, FlattenAppend

-----------------------------------------------------------------------------
(* The flush. *)

(* The chunks after a flush: a buffer without text adds none.              *)
Emitted(bf, cs, div) ==
    IF \A n \in 1..Len(bf.blocks) : IsHead(bf.blocks[n]) THEN cs
    ELSE Append(cs, Draft(bf.blocks, bf.norms, JoinLen(bf.blocks), div, Len(cs)))

LEMMA EmptyIs ==
  ASSUME NEW div
  PROVE  EmptyBuf \in Buffers /\ BufInv(EmptyBuf, div)
<1>1. EmptyBuf \in Buffers
  BY DEF EmptyBuf, Buffers
<1>2. JoinLen(<<>>) = 0
  BY DEF JoinLen
<1>. QED  BY <1>1, <1>2, DocumentAssumption DEF BufInv, EmptyBuf

(* Nothing is ever carried over: a normalised text is there for a heading  *)
(* only, and a heading is not carried.                                     *)
LEMMA NothingIsCarried ==
  ASSUME NEW bf, NEW div, BufInv(bf, div)
  PROVE  Carry(bf) = EmptyBuf
<1> DEFINE paired == {n \in 1..Smaller(Len(bf.blocks), Len(bf.norms)) :
                         ~ bf.blocks[n].overlap /\ ~ IsHead(bf.blocks[n])}
<1>1. bf.blocks \in Seq(Blocks) /\ bf.norms \in Seq(Blocks)
  BY DEF BufInv, Buffers
<1>2. paired = {}
  <2>1. CASE bf.norms = <<>>
    <3>1. Len(bf.norms) = 0
      BY <2>1
    <3>. QED  BY <1>1, <3>1 DEF Smaller
  <2>2. CASE Len(bf.norms) = 1 /\ IsHead(bf.blocks[1])
    <3>1. \A n \in 1..Smaller(Len(bf.blocks), Len(bf.norms)) : n = 1
      BY <1>1, <2>2 DEF Smaller
    <3>. QED  BY <2>2, <3>1
  <2>. QED  BY <2>1, <2>2 DEF BufInv
<1> HIDE DEF paired
<1>. QED  BY <1>2 DEF Carry, paired

LEMMA FlushIs ==
  ASSUME NEW bf, NEW cs, NEW d, NEW div, NEW reason, BufInv(bf, d), NEW s, s = [buf |-> bf, chunks |-> cs]
  PROVE  Flush(s, div, reason) = [buf |-> EmptyBuf, chunks |-> Emitted(bf, cs, div)]
<1>1. s.buf = bf /\ s.chunks = cs
  OBVIOUS
<1>2. bf.blocks \in Seq(Blocks) /\ bf.norms \in Seq(Blocks) /\ bf.len = JoinLen(bf.blocks)
      /\ bf = [blocks |-> bf.blocks, norms |-> bf.norms, len |-> bf.len]
  BY DEF BufInv, Buffers
<1>3. DOMAIN bf.blocks = 1..Len(bf.blocks)
  BY <1>2
<1>4. CASE bf.blocks = <<>>
  <2>1. bf.norms = <<>> /\ bf.len = 0
    BY <1>2, <1>4 DEF BufInv, JoinLen
  <2>2. bf = EmptyBuf
    BY <1>2, <1>4, <2>1 DEF EmptyBuf
  <2>3. Emitted(bf, cs, div) = cs
    BY <1>4 DEF Emitted
  <2>. QED  BY <1>1, <1>4, <2>2, <2>3 DEF Flush
<1>5. CASE bf.blocks # <<>> /\ \A n \in 1..Len(bf.blocks) : IsHead(bf.blocks[n])
  <2>1. Emitted(bf, cs, div) = cs
    BY <1>5 DEF Emitted
  <2>2. Flush(s, div, reason) = [s EXCEPT !.buf = EmptyBuf]
    BY <1>1, <1>3, <1>5 DEF Flush
  <2>. QED  BY <2>1, <2>2
<1>6. CASE ~ \A n \in 1..Len(bf.blocks) : IsHead(bf.blocks[n])
  <2>1. bf.blocks # <<>>
    BY <1>6
  <2>2. Carry(bf) = EmptyBuf
    BY NothingIsCarried
  <2>3. Flush(s, div, reason) =
          [chunks |-> Append(cs, Draft(bf.blocks, bf.norms, JoinLen(bf.blocks), div, Len(cs))),
           buf |-> EmptyBuf]
    BY <1>1, <1>3, <1>6, <2>1, <2>2 DEF Flush
  <2>. QED  BY <1>6, <2>3 DEF Emitted
<1>. QED  BY <1>4, <1>5, <1>6

(* No block is marked as overlap, so none is dropped to make room.         *)
LEMMA FitIs ==
  ASSUME NEW bf, NEW cs, NEW d, NEW div, NEW b, BufInv(bf, d), NEW s, s = [buf |-> bf, chunks |-> cs]
  PROVE  EnsureFitNext(s, div, b) =
            IF TooLong(bf, b) THEN [buf |-> EmptyBuf, chunks |-> Emitted(bf, cs, div)] ELSE s
<1> DEFINE Stops(m) == \/ m = Len(s.buf.blocks)
                       \/ ~ TooLong(Drop(s.buf, m), b)
                       \/ ~ s.buf.blocks[m + 1].overlap
           m0 == CHOOSE m \in 0..Len(s.buf.blocks) : Stops(m) /\ \A k \in 0..(m - 1) : ~ Stops(k)
           dropped == [s EXCEPT !.buf = Drop(@, m0)]
<1>1. s.buf = bf /\ s.chunks = cs /\ bf.blocks \in Seq(Blocks)
  BY DEF BufInv, Buffers
<1>2. Stops(0)
  <2>1. CASE bf.blocks = <<>>
    BY <1>1, <2>1
  <2>2. CASE bf.blocks # <<>>
    <3>1. 1 \in 1..Len(bf.blocks)
      BY <1>1, <2>2
    <3>2. bf.blocks[1].overlap = FALSE
      BY <3>1 DEF BufInv, ReadyBlock
    <3>. QED  BY <1>1, <3>2
  <2>. QED  BY <2>1, <2>2
<1>3. Len(s.buf.blocks) \in Nat
  BY <1>1
<1> HIDE DEF Stops
<1>4. m0 = 0
  <2>1. \A m \in 0..Len(s.buf.blocks) : (\A k \in 0..(m - 1) : ~ Stops(k)) => m = 0
    <3> SUFFICES ASSUME NEW m \in 0..Len(s.buf.blocks), m # 0 PROVE \E k \in 0..(m - 1) : Stops(k)
      OBVIOUS
    <3>1. 0 \in 0..(m - 1)
      BY <1>3
    <3>. QED  BY <1>2, <3>1
  <2>2. 0 \in 0..Len(s.buf.blocks) /\ \A k \in 0..(0 - 1) : ~ Stops(k)
    BY <1>3
  <2>. QED  BY <1>2, <2>1, <2>2
<1>5. EnsureFitNext(s, div, b) = IF TooLong(dropped.buf, b) THEN Flush(dropped, div, "size") ELSE dropped
  BY DEF EnsureFitNext, Stops
<1> HIDE DEF m0
<1>6. dropped = s
  BY <1>1, <1>4 DEF Drop
<1> HIDE DEF dropped
<1>7. Flush(s, div, "size") = [buf |-> EmptyBuf, chunks |-> Emitted(bf, cs, div)]
  BY FlushIs
<1>. QED  BY <1>1, <1>5, <1>6, <1>7

LEMMA LaidTyped ==
  ASSUME NEW cs, ChunksInv(cs)
  PROVE  Laid(cs) \in Seq(Blocks)
<1>1. cs \in Seq(Drafts)
  BY DEF ChunksInv
<1>2. CASE cs = <<>>
  BY <1>2 DEF Laid, FlattenSeq
<1>3. CASE cs # <<>>
  <2>1. cs[1] \in Drafts
    BY <1>1, <1>3
  <2>. QED  BY <1>1, <2>1, LaidIs
<1>. QED  BY <1>2, <1>3

LEMMA OneChunkMore ==
  ASSUME NEW cs, ChunksInv(cs), NEW c \in Drafts, ChunkInv(c, cs)
  PROVE  ChunksInv(Append(cs, c))
<1> DEFINE t == Append(cs, c)
           k == Len(cs)
<1>1. cs \in Seq(Drafts)
  BY DEF ChunksInv
<1>2. t \in Seq(Drafts) /\ Len(t) = k + 1 /\ k \in Nat
  BY <1>1
<1>3. ASSUME NEW n \in 1..k PROVE t[n] = cs[n] /\ SubSeq(t, 1, n - 1) = SubSeq(cs, 1, n - 1)
  BY <1>1
<1>4. t[k + 1] = c /\ SubSeq(t, 1, (k + 1) - 1) = cs
  BY <1>1
<1> HIDE DEF t, k
<1>5. ASSUME NEW n \in 1..(k + 1) PROVE ChunkInv(t[n], SubSeq(t, 1, n - 1))
  <2>1. CASE n \in 1..k
    BY <1>3, <2>1 DEF ChunksInv, k
  <2>2. CASE n = k + 1
    BY <1>4, <2>2
  <2>. QED  BY <1>2, <2>1, <2>2
<1>6. ChunksInv(t)
  BY <1>2, <1>5 DEF ChunksInv
<1>. QED  BY <1>6 DEF t

LEMMA HasMore ==
  ASSUME NEW cs \in Seq(Drafts), NEW c \in Drafts, NEW div
  PROVE  HasChunk(Append(cs, c), div) <=> HasChunk(cs, div) \/ c.div = div
<1> DEFINE t == Append(cs, c)
           k == Len(cs)
<1>1. Len(t) = k + 1 /\ k \in Nat /\ t[k + 1] = c /\ \A n \in 1..k : t[n] = cs[n]
  OBVIOUS
<1> HIDE DEF t, k
<1>2. HasChunk(t, div) => HasChunk(cs, div) \/ c.div = div
  BY <1>1 DEF HasChunk, k
<1>3. HasChunk(cs, div) => HasChunk(t, div)
  BY <1>1 DEF HasChunk, k
<1>4. c.div = div => HasChunk(t, div)
  BY <1>1 DEF HasChunk
<1>. QED  BY <1>2, <1>3, <1>4 DEF t

(* A buffer of headings only is one heading, or none.                      *)
LEMMA HeadsOnly ==
  ASSUME NEW bf, NEW div, BufInv(bf, div), \A n \in 1..Len(bf.blocks) : IsHead(bf.blocks[n])
  PROVE  /\ Texts(bf.blocks) = <<>>
         /\ bf.blocks # <<>> => Len(bf.blocks) = 1 /\ IsHead(bf.blocks[1])
<1>1. bf.blocks \in Seq(Blocks)
  BY DEF BufInv, Buffers
<1>2. CASE bf.blocks = <<>>
  BY <1>2 DEF Texts, FlattenSeq
<1>3. CASE bf.blocks # <<>>
  <2>1. 1 \in 1..Len(bf.blocks)
    BY <1>1, <1>3
  <2>2. Len(bf.blocks) = 1
    <3>1. Len(bf.blocks) \in Nat /\ Len(bf.blocks) >= 1
      BY <1>1, <2>1
    <3>2. ASSUME Len(bf.blocks) >= 2 PROVE FALSE
      <4>1. 2 \in 1..Len(bf.blocks)
        BY <3>1, <3>2
      <4>2. IsHead(bf.blocks[2])
        BY <4>1
      <4>3. 2 = 1
        BY <4>1, <4>2 DEF BufInv
      <4>. QED  BY <4>3
    <3>3. ~ Len(bf.blocks) >= 2
      BY <3>2
    <3> DEFINE l == Len(bf.blocks)
    <3>4. l \in Nat /\ l >= 1 /\ ~ l >= 2
      BY <3>1, <3>3
    <3> HIDE DEF l
    <3>5. l = 1
      BY <3>4
    <3>. QED  BY <3>5 DEF l
  <2>3. bf.blocks[1] \in Blocks /\ bf.blocks = <<bf.blocks[1]>>
    BY <1>1, <2>1, <2>2
  <2>4. Texts(<<bf.blocks[1]>>) = <<>>
    BY <2>1, <2>3, TextsOfOne
  <2>. QED  BY <2>1, <2>2, <2>3, <2>4
<1>. QED  BY <1>2, <1>3

(* A flush keeps what holds of the chunks, lays the texts of the buffer    *)
(* behind those of the chunks, and leaves a chunk of the div unless all it *)
(* had was a heading.                                                      *)
LEMMA EmittedIs ==
  ASSUME NEW cs, NEW bf, NEW div, ChunksInv(cs), BufInv(bf, div),
         bf.blocks # <<>> => StartsWell(bf.blocks[1], div, cs)
  PROVE  /\ ChunksInv(Emitted(bf, cs, div))
         /\ Laid(Emitted(bf, cs, div)) = Laid(cs) \o Texts(bf.blocks)
         /\ \A d : HasChunk(cs, d) => HasChunk(Emitted(bf, cs, div), d)
         /\ bf.blocks # <<>> => \/ Len(bf.blocks) = 1 /\ IsHead(bf.blocks[1])
                                \/ HasChunk(Emitted(bf, cs, div), div)
<1>1. cs \in Seq(Drafts) /\ bf.blocks \in Seq(Blocks) /\ bf.norms \in Seq(Blocks)
      /\ bf.len = JoinLen(bf.blocks) /\ bf.len \in Nat
  BY DEF ChunksInv, BufInv, Buffers
<1>2. CASE \A n \in 1..Len(bf.blocks) : IsHead(bf.blocks[n])
  <2>1. Emitted(bf, cs, div) = cs
    BY <1>2 DEF Emitted
  <2>2. /\ Texts(bf.blocks) = <<>>
        /\ bf.blocks # <<>> => Len(bf.blocks) = 1 /\ IsHead(bf.blocks[1])
    BY <1>2, HeadsOnly
  <2>3. Laid(cs) \in Seq(Blocks)
    BY LaidTyped
  <2>. QED  BY <2>1, <2>2, <2>3
<1>3. CASE ~ \A n \in 1..Len(bf.blocks) : IsHead(bf.blocks[n])
  <2> DEFINE c == Draft(bf.blocks, bf.norms, JoinLen(bf.blocks), div, Len(cs))
  <2>1. Emitted(bf, cs, div) = Append(cs, c)
    BY <1>3 DEF Emitted
  <2>2. bf.blocks # <<>> /\ 1 \in 1..Len(bf.blocks)
    BY <1>1, <1>3
  <2>3. div \in 1..Len(body) /\ div \in Nat
    <3>1. ReadyBlock(bf.blocks[1]) /\ bf.blocks[1].div = div
      BY <2>2 DEF BufInv
    <3>. QED  BY <3>1 DEF ReadyBlock, IsBlock
  <2>4. c \in Drafts /\ c.div = div /\ c.index = Len(cs) /\ c.blocks = bf.blocks /\ c.len = bf.len
    BY <1>1, <2>3 DEF Draft, Drafts
  <2>5. ~ c.len > MaxChars
    <3> SUFFICES ASSUME bf.len > MaxChars PROVE FALSE
      BY <2>4
    <3>1. Len(bf.blocks) = 1 /\ IsHead(bf.blocks[1])
      BY DEF BufInv
    <3>. QED  BY <1>3, <3>1
  <2>6. ChunkInv(c, cs)
    <3>1. StartsWell(c.blocks[1], c.div, cs)
      BY <2>2, <2>4
    <3>2. \A m \in 1..Len(c.blocks) :
             /\ ReadyBlock(c.blocks[m]) /\ c.blocks[m].div = c.div
             /\ IsHead(c.blocks[m]) => m = 1
      BY <2>4 DEF BufInv
    <3>. QED  BY <2>2, <2>3, <2>4, <2>5, <3>1, <3>2 DEF ChunkInv
  <2> HIDE DEF c
  <2>7. ChunksInv(Append(cs, c))
    BY <2>4, <2>6, OneChunkMore
  <2>8. Laid(Append(cs, c)) = Laid(cs) \o Texts(bf.blocks)
    BY <1>1, <2>4, LaidIs
  <2>9. \A d : HasChunk(Append(cs, c), d) <=> HasChunk(cs, d) \/ c.div = d
    BY <1>1, <2>4, HasMore
  <2>. QED  BY <2>1, <2>4, <2>7, <2>8, <2>9
<1>. QED  BY <1>2, <1>3

-----------------------------------------------------------------------------
(* One block. *)

(* What the look at the div of block b leaves.                             *)
ReadyFor(bf, cs, b) ==
    /\ ChunksInv(cs) /\ BufInv(bf, b.div)
    /\ bf.blocks # <<>> => StartsWell(bf.blocks[1], b.div, cs)
    /\ bf.blocks = <<>> => IsHead(b) \/ body[b.div].head = <<>> \/ HasChunk(cs, b.div)
    /\ IsHead(b) => bf = EmptyBuf
    /\ HasRead(bf, cs, next - 1)

LEMMA NoBufferWithoutDiv ==
  ASSUME NEW bf, BufInv(bf, None)
  PROVE  bf = EmptyBuf
<1>1. bf.blocks \in Seq(Blocks) /\ bf.len = JoinLen(bf.blocks)
      /\ bf = [blocks |-> bf.blocks, norms |-> bf.norms, len |-> bf.len]
  BY DEF BufInv, Buffers
<1>2. bf.blocks = <<>>
  <2> SUFFICES ASSUME bf.blocks # <<>> PROVE FALSE
    OBVIOUS
  <2>1. 1 \in 1..Len(bf.blocks)
    BY <1>1
  <2>2. ReadyBlock(bf.blocks[1]) /\ bf.blocks[1].div = None
    BY <2>1 DEF BufInv
  <2>3. None \in 1..Len(body)
    BY <2>2 DEF ReadyBlock, IsBlock
  <2>4. None \in Nat
    BY <2>3
  <2>. QED  BY <2>4, DocumentAssumption
<1>3. bf.norms = <<>> /\ bf.len = 0
  BY <1>1, <1>2 DEF BufInv, JoinLen
<1>. QED  BY <1>1, <1>2, <1>3 DEF EmptyBuf

LEMMA TheBlock ==
  ASSUME PreparedInv, next \in 1..Len(prepared)
  PROVE  Block = prepared[next] /\ ReadyBlock(Block) /\ Block \in Blocks /\ Block.div \in Nat
BY DEF Block, PreparedInv, ReadyBlock, Blocks

LEMMA AtDivIs ==
  ASSUME PreparedInv, ChunkingInv, pc = "chunk", next \in 1..Len(prepared)
  PROVE  \E bf, cs : AtDiv = [buf |-> bf, chunks |-> cs] /\ ReadyFor(bf, cs, Block)
<1> DEFINE b == prepared[next]
           s == [buf |-> buf, chunks |-> chunks]
<1>1. b = Block /\ b \in Blocks /\ b.div \in Nat /\ ReadyBlock(b)
  BY TheBlock
<1>2. /\ ChunksInv(chunks) /\ BufInv(buf, currentDiv) /\ Continues(buf, chunks, currentDiv)
      /\ HasRead(buf, chunks, next - 1)
      /\ currentDiv = IF next = 1 THEN None ELSE prepared[next - 1].div
  BY DEF ChunkingInv
<1>3. Len(prepared) \in Nat /\ prepared \in Seq(Blocks)
  BY DEF PreparedInv
<1>4. AtDiv = IF currentDiv # None /\ b.div # currentDiv THEN Flush(s, currentDiv, "div_end") ELSE s
  BY DEF AtDiv, Block
<1>5. /\ \A i, j \in 1..Len(prepared) : i < j =>
            /\ prepared[i].div <= prepared[j].div
            /\ IsHead(prepared[j]) => prepared[i].div < prepared[j].div
      /\ body[b.div].head # <<>> =>
            \E j \in 1..next : IsHead(prepared[j]) /\ prepared[j].div = b.div
  BY DEF PreparedInv, DivsInOrder
<1>6. ASSUME next # 1
      PROVE  /\ currentDiv = prepared[next - 1].div /\ currentDiv \in Nat
             /\ currentDiv <= b.div /\ (IsHead(b) => currentDiv < b.div)
             /\ \A j \in 1..(next - 1) : prepared[j].div <= currentDiv /\ prepared[j].div \in Nat
  <2>1. next - 1 \in 1..Len(prepared) /\ next - 1 < next
    BY <1>3, <1>6
  <2>2. currentDiv = prepared[next - 1].div
    BY <1>2, <1>6
  <2>3. currentDiv <= b.div /\ (IsHead(b) => currentDiv < b.div)
    BY <1>5, <2>1, <2>2
  <2>4. \A j \in 1..Len(prepared) : prepared[j].div \in Nat
    <3>1. \A c \in Blocks : c.div \in Nat
      BY DEF Blocks
    <3>2. \A j \in 1..Len(prepared) : prepared[j] \in Blocks
      BY <1>3
    <3>. QED  BY <3>1, <3>2
  <2>5. ASSUME NEW j \in 1..(next - 1) PROVE prepared[j].div <= currentDiv
    <3>1. j \in 1..Len(prepared) /\ (j = next - 1 \/ j < next - 1)
      BY <1>3
    <3>2. CASE j = next - 1
      BY <2>1, <2>2, <2>4, <3>2
    <3>3. CASE j < next - 1
      BY <1>5, <2>1, <2>2, <3>1, <3>3
    <3>. QED  BY <3>1, <3>2, <3>3
  <2>6. \A j \in 1..(next - 1) : j \in 1..Len(prepared)
    BY <1>3
  <2>. QED  BY <2>1, <2>2, <2>3, <2>4, <2>5, <2>6
<1>7. CASE next = 1
  <2>1. currentDiv = None
    BY <1>2, <1>7
  <2>2. buf = EmptyBuf
    BY <1>2, <2>1, NoBufferWithoutDiv
  <2>3. AtDiv = s
    BY <1>4, <2>1
  <2>4. IsHead(b) \/ body[b.div].head = <<>>
    <3>1. \A j \in 1..next : j = next
      BY <1>7
    <3>. QED  BY <1>5, <3>1
  <2>5. BufInv(buf, b.div)
    BY <2>2, EmptyIs
  <2>6. buf.blocks = <<>>
    BY <2>2 DEF EmptyBuf
  <2>7. ReadyFor(buf, chunks, b)
    BY <1>2, <2>2, <2>4, <2>5, <2>6 DEF ReadyFor
  <2>. QED  BY <1>1, <2>3, <2>7
<1>8. CASE next # 1 /\ b.div # currentDiv
  <2>1. currentDiv # None
    BY <1>6, <1>8, DocumentAssumption
  <2> DEFINE cs == Emitted(buf, chunks, currentDiv)
  <2>2. AtDiv = [buf |-> EmptyBuf, chunks |-> cs]
    BY <1>2, <1>4, <1>8, <2>1, FlushIs
  <2>3. /\ ChunksInv(cs) /\ Laid(cs) = Laid(chunks) \o Texts(buf.blocks)
    BY <1>2, EmittedIs DEF Continues
  <2> HIDE DEF cs
  <2>4. IsHead(b) \/ body[b.div].head = <<>>
    <3> SUFFICES ASSUME body[b.div].head # <<>> PROVE IsHead(b)
      OBVIOUS
    <3>1. PICK j \in 1..next : IsHead(prepared[j]) /\ prepared[j].div = b.div
      BY <1>5
    <3>2. CASE j = next
      BY <3>1, <3>2
    <3>3. CASE j # next
      <4>1. j \in 1..(next - 1)
        BY <3>3
      <4>2. prepared[j].div <= currentDiv /\ currentDiv \in Nat /\ currentDiv <= b.div
        BY <1>6, <1>8, <4>1
      <4>3. b.div = currentDiv
        BY <1>1, <3>1, <4>2
      <4>. QED  BY <1>8, <4>3
    <3>. QED  BY <3>2, <3>3
  <2>5. BufInv(EmptyBuf, b.div) /\ EmptyBuf.blocks = <<>>
    BY EmptyIs DEF EmptyBuf
  <2>6. HasRead(EmptyBuf, cs, next - 1)
    <3>1. Laid(cs) \in Seq(Blocks)
      BY <2>3, LaidTyped
    <3>2. Texts(<<>>) = <<>>
      BY <1>1, TextsOfOne
    <3>3. Laid(cs) \o <<>> = Laid(cs)
      BY <3>1
    <3>. QED  BY <1>2, <2>3, <2>5, <3>2, <3>3 DEF HasRead
  <2>7. ReadyFor(EmptyBuf, cs, b)
    BY <2>3, <2>4, <2>5, <2>6 DEF ReadyFor
  <2>. QED  BY <1>1, <2>2, <2>7
<1>9. CASE next # 1 /\ b.div = currentDiv
  <2>1. AtDiv = s
    BY <1>4, <1>9
  <2>2. ~ IsHead(b)
    <3> SUFFICES ASSUME IsHead(b) PROVE FALSE
      OBVIOUS
    <3>1. currentDiv < b.div /\ currentDiv \in Nat
      BY <1>6, <1>9
    <3>. QED  BY <1>9, <3>1
  <2>3. currentDiv # None
    BY <1>6, <1>9, DocumentAssumption
  <2>4. ReadyFor(buf, chunks, b)
    BY <1>2, <1>9, <2>2, <2>3 DEF ReadyFor, Continues
  <2>. QED  BY <1>1, <2>1, <2>4
<1>. QED  BY <1>7, <1>8, <1>9

(* The texts of the first blocks, and of one more.                         *)
LEMMA ReadOneMore ==
  ASSUME PreparedInv, next \in 1..Len(prepared)
  PROVE  LET b == Block
             before == Texts(SubSeq(prepared, 1, next - 1))
         IN /\ before \in Seq(Blocks)
            /\ Texts(SubSeq(prepared, 1, next)) = IF IsHead(b) THEN before ELSE Append(before, b)
<1> DEFINE b == prepared[next]
           s == SubSeq(prepared, 1, next - 1)
<1>1. b = Block /\ b \in Blocks /\ prepared \in Seq(Blocks)
  BY TheBlock DEF PreparedInv
<1>2. s \in Seq(Blocks) /\ SubSeq(prepared, 1, next) = Append(s, b)
  BY <1>1
<1> HIDE DEF s, b
<1>3. /\ Texts(s) \in Seq(Blocks)
      /\ Texts(Append(s, b)) = IF IsHead(b) THEN Texts(s) ELSE Append(Texts(s), b)
  BY <1>1, <1>2, TextsAre
<1>. QED  BY <1>1, <1>2, <1>3 DEF s

(* A buffer with room for the block takes it.                              *)
LEMMA OneBlockMore ==
  ASSUME NEW bf, NEW div, NEW b, BufInv(bf, div), ReadyBlock(b), b.div = div, ~ IsHead(b),
         LenWith(bf, b) <= MaxChars
  PROVE  LET more == [bf EXCEPT !.blocks = Append(@, b), !.len = LenWith(bf, b)]
         IN /\ BufInv(more, div)
            /\ Texts(more.blocks) = Append(Texts(bf.blocks), b)
            /\ more.blocks # <<>>
            /\ more.blocks[1] = IF bf.blocks = <<>> THEN b ELSE bf.blocks[1]
<1> DEFINE s == bf.blocks
           k == Len(s)
           t == Append(s, b)
           more == [bf EXCEPT !.blocks = Append(@, b), !.len = LenWith(bf, b)]
<1>1. /\ s \in Seq(Blocks) /\ k \in Nat /\ b \in Blocks /\ bf.norms \in Seq(Blocks)
      /\ bf.len \in Nat /\ bf.len = JoinLen(s)
      /\ bf = [blocks |-> bf.blocks, norms |-> bf.norms, len |-> bf.len]
  BY DEF BufInv, Buffers, ReadyBlock
<1>2. more.blocks = t /\ more.norms = bf.norms /\ more.len = LenWith(bf, b)
      /\ more = [blocks |-> t, norms |-> bf.norms, len |-> LenWith(bf, b)]
  <2>1. PICK l, u, a : l = LenWith(bf, b) /\ u = t /\ a = [bf EXCEPT !.blocks = u, !.len = l]
    OBVIOUS
  <2>2. bf \in Buffers
    BY DEF BufInv
  <2>3. a = [blocks |-> u, norms |-> bf.norms, len |-> l]
    BY <2>1, <2>2 DEF Buffers
  <2>4. more = a
    BY <2>1
  <2> HIDE DEF more
  <2>. QED  BY <2>1, <2>3, <2>4
<1>3. /\ t \in Seq(Blocks) /\ Len(t) = k + 1 /\ t[k + 1] = b /\ t # <<>>
      /\ \A n \in 1..k : t[n] = s[n]
      /\ (s = <<>> <=> k = 0)
  BY <1>1
<1>4. JoinLen(t) = LenWith(bf, b) /\ LenWith(bf, b) \in Nat
  <2>1. JoinLen(t) = JoinLen(s) + (IF s = <<>> THEN 0 ELSE 2) + Rendered(b)
    BY <1>1, JoinLenIs
  <2>2. Rendered(b) \in Nat
    BY <1>1, RenderedIs
  <2>. QED  BY <1>1, <2>1, <2>2 DEF LenWith
<1>5. Texts(t) = Append(Texts(s), b)
  BY <1>1, TextsAre
<1> HIDE DEF t, more
<1>6. more \in Buffers
  BY <1>1, <1>2, <1>3, <1>4 DEF Buffers
<1>7. ASSUME NEW m \in 1..Len(t)
      PROVE  ReadyBlock(t[m]) /\ t[m].div = div /\ (IsHead(t[m]) => m = 1)
  <2>1. CASE m \in 1..k
    BY <1>3, <2>1 DEF BufInv
  <2>2. CASE m = k + 1
    BY <1>3, <2>2
  <2>. QED  BY <1>1, <1>3, <2>1, <2>2
<1>8. t[1] = IF s = <<>> THEN b ELSE s[1]
  BY <1>1, <1>3
<1>9. \/ bf.norms = <<>>
      \/ Len(bf.norms) = 1 /\ IsHead(t[1])
  BY <1>8 DEF BufInv
<1>10. ~ more.len > MaxChars
  BY <1>2, <1>4, DocumentAssumption
<1>11. BufInv(more, div)
  BY <1>2, <1>3, <1>4, <1>6, <1>7, <1>9, <1>10 DEF BufInv
<1>. QED  BY <1>2, <1>3, <1>5, <1>8, <1>11 DEF more

(* The first heading of a div comes before every other block of it.        *)
LEMMA HeadIs ==
  ASSUME NEW b, ReadyBlock(b), IsHead(b)
  PROVE  b = BlocksOf(b.div)[1] /\ Rendered(b) \in Nat
BY RenderedIs DEF ReadyBlock

(* What every action of the main loop makes true again.                    *)
Taken(bf, cs, div) ==
    BufInv(bf, div) /\ ChunksInv(cs) /\ Continues(bf, cs, div) /\ HasRead(bf, cs, next)

LEMMA HeadIsTaken ==
  ASSUME PreparedInv, ChunkingInv, pc = "chunk", TakeHead
  PROVE  Taken(buf', chunks', Block.div)
<1> DEFINE b == prepared[next]
<1>1. next \in 1..Len(prepared) /\ IsHead(Block)
  BY DEF TakeHead, NextBlock, ChunkingInv
<1>2. Block = b /\ ReadyBlock(b) /\ b \in Blocks
  BY <1>1, TheBlock
<1>3. PICK bf, cs : AtDiv = [buf |-> bf, chunks |-> cs] /\ ReadyFor(bf, cs, b)
  BY <1>1, <1>2, AtDivIs
<1>4. bf = EmptyBuf /\ ChunksInv(cs) /\ BufInv(bf, b.div)
  BY <1>1, <1>2, <1>3 DEF ReadyFor
<1>5. chunks' = cs
  <2>1. Flush(AtDiv, b.div, "section") = [buf |-> EmptyBuf, chunks |-> Emitted(bf, cs, b.div)]
    BY <1>3, <1>4, FlushIs
  <2>2. Emitted(bf, cs, b.div) = cs
    BY <1>4 DEF Emitted, EmptyBuf
  <2>. QED  BY <1>2, <2>1, <2>2 DEF TakeHead
<1> DEFINE one == [blocks |-> <<b>>, norms |-> <<b>>, len |-> Rendered(b)]
<1>6. buf' = one
  BY <1>2 DEF TakeHead
<1>7. BufInv(one, b.div)
  <2>1. JoinLen(<<b>>) = Rendered(b) /\ Rendered(b) \in Nat
    BY <1>2, JoinLenOfOne, RenderedIs
  <2>2. <<b>> \in Seq(Blocks) /\ Len(<<b>>) = 1 /\ <<b>>[1] = b /\ <<b>> # <<>>
    BY <1>2
  <2>. QED  BY <1>1, <1>2, <2>1, <2>2 DEF BufInv, Buffers
<1>8. Continues(one, cs, b.div)
  BY <1>1, <1>2 DEF Continues, StartsWell
<1>9. HasRead(one, cs, next)
  <2>1. Texts(SubSeq(prepared, 1, next)) = Texts(SubSeq(prepared, 1, next - 1))
    BY <1>1, <1>2, ReadOneMore
  <2>2. Texts(SubSeq(prepared, 1, next - 1)) = Laid(cs) \o Texts(bf.blocks)
    BY <1>3 DEF ReadyFor, HasRead
  <2>3. bf.blocks = <<>> /\ Texts(<<>>) = <<>> /\ Texts(<<b>>) = <<>>
    BY <1>1, <1>2, <1>4, TextsOfOne DEF EmptyBuf
  <2>. QED  BY <2>1, <2>2, <2>3 DEF HasRead
<1>. QED  BY <1>2, <1>4, <1>5, <1>6, <1>7, <1>8, <1>9 DEF Taken

(* After a flush in the middle of a div, a block that does not fit behind  *)
(* what was flushed starts well: the div has a chunk, or no heading, or    *)
(* its heading was all there was, and the two are too long together.       *)
LEMMA StartsAfterFlush ==
  ASSUME NEW bf, NEW cs, NEW b, ReadyFor(bf, cs, b), ReadyBlock(b), ~ IsHead(b),
         bf.blocks = <<>> \/ LenWith(bf, b) > MaxChars
  PROVE  StartsWell(b, b.div, Emitted(bf, cs, b.div))
<1> DEFINE s == bf.blocks
<1>0. PICK more : more = Emitted(bf, cs, b.div)
  OBVIOUS
<1> SUFFICES StartsWell(b, b.div, more)
  BY <1>0
<1>1. /\ ChunksInv(cs) /\ BufInv(bf, b.div) /\ (s # <<>> => StartsWell(s[1], b.div, cs))
      /\ s = <<>> => body[b.div].head = <<>> \/ HasChunk(cs, b.div)
  BY DEF ReadyFor
<1>2. /\ \A d : HasChunk(cs, d) => HasChunk(more, d)
      /\ s # <<>> => (Len(s) = 1 /\ IsHead(s[1])) \/ HasChunk(more, b.div)
  BY <1>0, <1>1, EmittedIs
<1>3. CASE s = <<>>
  BY <1>1, <1>2, <1>3 DEF StartsWell
<1>4. CASE HasChunk(more, b.div)
  BY <1>4 DEF StartsWell
<1>5. CASE s # <<>> /\ Len(s) = 1 /\ IsHead(s[1])
  <2>1. s \in Seq(Blocks) /\ bf.len = JoinLen(s)
    BY <1>1 DEF BufInv, Buffers
  <2>2. PICK h : h = s[1]
    OBVIOUS
  <2>3. h \in Blocks /\ s = <<h>> /\ 1 \in 1..Len(s)
    BY <1>5, <2>1, <2>2
  <2>4. ReadyBlock(h) /\ h.div = b.div /\ IsHead(h)
    BY <1>1, <1>5, <2>2, <2>3 DEF BufInv
  <2>5. h = BlocksOf(b.div)[1] /\ Rendered(h) \in Nat
    BY <2>4, HeadIs
  <2>6. bf.len = Rendered(h)
    BY <2>1, <2>3, JoinLenOfOne
  <2>7. Rendered(b) \in Nat
    BY RenderedIs DEF ReadyBlock
  <2>8. LenWith(bf, b) = Rendered(h) + 2 + Rendered(b)
    BY <1>5, <2>6 DEF LenWith
  <2>9. Rendered(b) + 2 + Rendered(h) > MaxChars
    BY <1>5, <2>5, <2>7, <2>8
  <2>. QED  BY <2>5, <2>9 DEF StartsWell
<1>. QED  BY <1>2, <1>3, <1>4, <1>5

LEMMA OversizeIsTaken ==
  ASSUME PreparedInv, ChunkingInv, pc = "chunk", TakeOversize
  PROVE  Taken(buf', chunks', Block.div)
<1> DEFINE b == prepared[next]
<1>1. next \in 1..Len(prepared) /\ ~ IsHead(Block) /\ Rendered(Block) > MaxChars
  BY DEF TakeOversize, NextBlock, ChunkingInv
<1>2. Block = b /\ ReadyBlock(b) /\ b \in Blocks /\ b.div \in Nat
  BY <1>1, TheBlock
<1>3. PICK bf, cs : AtDiv = [buf |-> bf, chunks |-> cs] /\ ReadyFor(bf, cs, b)
  BY <1>1, <1>2, AtDivIs
<1>4. /\ ChunksInv(cs) /\ BufInv(bf, b.div)
      /\ bf.blocks # <<>> => StartsWell(bf.blocks[1], b.div, cs)
  BY <1>3 DEF ReadyFor
<1> DEFINE e == Emitted(bf, cs, b.div)
           c == Draft(<<b>>, <<b>>, Rendered(b), b.div, Len(e))
<1>5. buf' = EmptyBuf /\ chunks' = Append(e, c)
  <2>1. \A r : Flush(AtDiv, b.div, r) = [buf |-> EmptyBuf, chunks |-> e]
    BY <1>3, <1>4, FlushIs
  <2>2. PICK r : LET flushed == Flush(AtDiv, b.div, r)
                 IN /\ chunks' = Append(flushed.chunks,
                          Draft(<<b>>, <<b>>, Rendered(b), b.div, Len(flushed.chunks)))
                    /\ buf' = [flushed.buf EXCEPT !.blocks = <<>>, !.len = 0]
    BY <1>2 DEF TakeOversize
  <2>3. Flush(AtDiv, b.div, r).buf = EmptyBuf /\ Flush(AtDiv, b.div, r).chunks = e
    BY <2>1
  <2>4. buf' = [EmptyBuf EXCEPT !.blocks = <<>>, !.len = 0]
    BY <2>2, <2>3
  <2>5. buf' = EmptyBuf
    BY <2>4 DEF EmptyBuf
  <2>6. chunks' = Append(e, c)
    <3> HIDE DEF e
    <3>. QED  BY <2>2, <2>3
  <2>. QED  BY <2>5, <2>6
<1>6. /\ ChunksInv(e) /\ Laid(e) = Laid(cs) \o Texts(bf.blocks)
  BY <1>4, EmittedIs
<1>7. StartsWell(b, b.div, e)
  <2>1. bf.blocks = <<>> \/ LenWith(bf, b) > MaxChars
    <3>1. bf.len \in Nat /\ Rendered(b) \in Nat /\ Rendered(b) > MaxChars /\ MaxChars \in Nat
      BY <1>1, <1>2, <1>4, RenderedIs, DocumentAssumption DEF BufInv, Buffers
    <3>. QED  BY <3>1 DEF LenWith
  <2>. QED  BY <1>1, <1>2, <1>3, <2>1, StartsAfterFlush
<1> HIDE DEF e
<1>8. c \in Drafts /\ c.div = b.div /\ c.index = Len(e) /\ c.blocks = <<b>> /\ c.len = Rendered(b)
  <2>1. e \in Seq(Drafts) /\ Rendered(b) \in Nat /\ <<b>> \in Seq(Blocks)
    BY <1>2, <1>6, RenderedIs DEF ChunksInv
  <2>. QED  BY <1>2, <2>1 DEF Draft, Drafts
<1> HIDE DEF c
<1>9. ChunkInv(c, e)
  <2>1. <<b>>[1] = b /\ Len(<<b>>) = 1 /\ <<b>> # <<>>
    OBVIOUS
  <2>2. b.div \in 1..Len(body)
    BY <1>2 DEF ReadyBlock, IsBlock
  <2>3. b.kind \notin Splittable \/ IsInnerSentence(b)
    BY <1>1, <1>2 DEF ReadyBlock
  <2>4. \A m \in 1..Len(<<b>>) : m = 1
    BY <2>1
  <2> HIDE DEF b
  <2>. QED  BY <1>1, <1>2, <1>7, <1>8, <2>1, <2>2, <2>3, <2>4 DEF ChunkInv
<1>10. ChunksInv(Append(e, c)) /\ Laid(Append(e, c)) = Laid(e) \o Texts(<<b>>)
       /\ HasChunk(Append(e, c), b.div)
  <2>1. e \in Seq(Drafts)
    BY <1>6 DEF ChunksInv
  <2>. QED  BY <1>6, <1>8, <1>9, <2>1, OneChunkMore, LaidIs, HasMore
<1>11. Continues(EmptyBuf, Append(e, c), b.div)
  BY <1>10 DEF Continues, EmptyBuf
<1>12. HasRead(EmptyBuf, Append(e, c), next)
  <2> DEFINE before == Texts(SubSeq(prepared, 1, next - 1))
             after == Laid(Append(e, c))
  <2>1. before \in Seq(Blocks) /\ Texts(SubSeq(prepared, 1, next)) = Append(before, b)
    BY <1>1, <1>2, ReadOneMore
  <2>2. before = Laid(e)
    BY <1>3, <1>6 DEF ReadyFor, HasRead
  <2>3. EmptyBuf.blocks = <<>> /\ Texts(<<>>) = <<>> /\ Texts(<<b>>) = <<b>>
    BY <1>1, <1>2, TextsOfOne DEF EmptyBuf
  <2>4. after \in Seq(Blocks)
    BY <1>10, LaidTyped
  <2>5. Append(before, b) = before \o <<b>>
    BY <1>2, <2>1, AppendIsConcat
  <2>6. after = Append(before, b)
    BY <1>10, <2>2, <2>3, <2>5
  <2> HIDE DEF before, after
  <2>7. after \o <<>> = after
    BY <2>4
  <2>. QED  BY <2>1, <2>3, <2>6, <2>7 DEF HasRead, after
<1>13. BufInv(EmptyBuf, b.div)
  BY EmptyIs
<1>. QED  BY <1>2, <1>5, <1>10, <1>11, <1>12, <1>13 DEF Taken

LEMMA BlockIsTaken ==
  ASSUME PreparedInv, ChunkingInv, pc = "chunk", TakeBlock
  PROVE  Taken(buf', chunks', Block.div)
<1> DEFINE b == prepared[next]
<1>1. next \in 1..Len(prepared) /\ ~ IsHead(Block) /\ Rendered(Block) <= MaxChars
  BY DEF TakeBlock, NextBlock, ChunkingInv
<1>2. Block = b /\ ReadyBlock(b) /\ b \in Blocks /\ b.div \in Nat
  BY <1>1, TheBlock
<1>3. PICK bf, cs : AtDiv = [buf |-> bf, chunks |-> cs] /\ ReadyFor(bf, cs, b)
  BY <1>1, <1>2, AtDivIs
<1>4. /\ ChunksInv(cs) /\ BufInv(bf, b.div)
      /\ bf.blocks # <<>> => StartsWell(bf.blocks[1], b.div, cs)
      /\ HasRead(bf, cs, next - 1)
  BY <1>3 DEF ReadyFor
<1>5. Rendered(b) \in Nat /\ Rendered(b) <= MaxChars /\ ~ IsHead(b)
  BY <1>1, <1>2, RenderedIs
(* The buffer and the chunks the block is appended to.                     *)
<1>6. PICK to, done :
         /\ buf' = [to EXCEPT !.blocks = Append(@, b), !.len = LenWith(to, b)] /\ chunks' = done
         /\ BufInv(to, b.div) /\ ChunksInv(done) /\ LenWith(to, b) <= MaxChars
         /\ to.blocks # <<>> => StartsWell(to.blocks[1], b.div, done)
         /\ to.blocks = <<>> => StartsWell(b, b.div, done)
         /\ HasRead(to, done, next - 1)
  <2> DEFINE s == EnsureFitNext(AtDiv, b.div, b)
  <2>1. s = IF TooLong(bf, b) THEN [buf |-> EmptyBuf, chunks |-> Emitted(bf, cs, b.div)]
            ELSE [buf |-> bf, chunks |-> cs]
    BY <1>3, <1>4, FitIs
  <2>2. ~ TooLong(s.buf, b) =>
           /\ chunks' = s.chunks
           /\ buf' = [s.buf EXCEPT !.blocks = Append(@, b), !.len = LenWith(s.buf, b)]
    BY <1>2 DEF TakeBlock
  <2> HIDE DEF s
  <2>3. CASE TooLong(bf, b)
    <3>0. PICK e : e = Emitted(bf, cs, b.div)
      OBVIOUS
    <3>1. s.buf = EmptyBuf /\ s.chunks = e
      BY <2>1, <2>3, <3>0
    <3>2. ~ TooLong(EmptyBuf, b) /\ EmptyBuf.blocks = <<>>
      BY DEF TooLong, EmptyBuf
    <3>3. chunks' = e /\ buf' = [EmptyBuf EXCEPT !.blocks = Append(@, b), !.len = LenWith(EmptyBuf, b)]
      BY <2>2, <3>1, <3>2
    <3>4. ChunksInv(e) /\ Laid(e) = Laid(cs) \o Texts(bf.blocks)
      BY <1>4, <3>0, EmittedIs
    <3>5. LenWith(EmptyBuf, b) = Rendered(b)
      BY <1>5 DEF LenWith, EmptyBuf
    <3>6. StartsWell(b, b.div, e)
      <4>1. LenWith(bf, b) > MaxChars
        BY <2>3 DEF TooLong
      <4>. QED  BY <1>2, <1>3, <1>5, <3>0, <4>1, StartsAfterFlush
    <3>7. HasRead(EmptyBuf, e, next - 1)
      <4>1. Laid(e) \in Seq(Blocks) /\ Texts(<<>>) = <<>>
        BY <1>2, <3>4, LaidTyped, TextsOfOne
      <4>2. Laid(e) \o <<>> = Laid(e)
        BY <4>1
      <4>. QED  BY <1>4, <3>2, <3>4, <4>1, <4>2 DEF HasRead
    <3>8. BufInv(EmptyBuf, b.div)
      BY EmptyIs
    <3>. QED  BY <1>5, <3>2, <3>3, <3>4, <3>5, <3>6, <3>7, <3>8
  <2>4. CASE ~ TooLong(bf, b)
    <3>1. s.buf = bf /\ s.chunks = cs
      BY <2>1, <2>4
    <3>2. chunks' = cs /\ buf' = [bf EXCEPT !.blocks = Append(@, b), !.len = LenWith(bf, b)]
      BY <2>2, <2>4, <3>1
    <3>3. LenWith(bf, b) <= MaxChars
      <4>1. CASE bf.blocks = <<>>
        <5>1. bf.len = 0
          BY <1>4, <4>1 DEF BufInv, JoinLen
        <5>. QED  BY <1>5, <4>1, <5>1 DEF LenWith
      <4>2. CASE bf.blocks # <<>>
        <5>1. ~ LenWith(bf, b) > MaxChars
          BY <2>4, <4>2 DEF TooLong
        <5>2. bf.len \in Nat
          BY <1>4 DEF BufInv, Buffers
        <5>3. LenWith(bf, b) \in Nat
          BY <1>5, <5>2 DEF LenWith
        <5>. QED  BY <5>1, <5>3, DocumentAssumption
      <4>. QED  BY <4>1, <4>2
    <3>4. bf.blocks = <<>> => StartsWell(b, b.div, cs)
      BY <1>3, <1>5 DEF ReadyFor, StartsWell
    <3>. QED  BY <1>4, <3>2, <3>3, <3>4
  <2>. QED  BY <2>3, <2>4
<1>7. /\ BufInv(buf', b.div)
      /\ Texts(buf'.blocks) = Append(Texts(to.blocks), b)
      /\ buf'.blocks # <<>>
      /\ buf'.blocks[1] = IF to.blocks = <<>> THEN b ELSE to.blocks[1]
  BY <1>2, <1>5, <1>6, OneBlockMore
<1>8. Continues(buf', chunks', b.div)
  BY <1>6, <1>7 DEF Continues
<1>9. HasRead(buf', chunks', next)
  <2> DEFINE before == Texts(SubSeq(prepared, 1, next - 1))
             x == Laid(done)
             y == Texts(to.blocks)
  <2>1. Texts(SubSeq(prepared, 1, next)) = Append(before, b)
    BY <1>1, <1>2, <1>5, ReadOneMore
  <2>2. before = x \o y
    BY <1>6 DEF HasRead
  <2>3. x \in Seq(Blocks) /\ y \in Seq(Blocks)
    <3>1. to.blocks \in Seq(Blocks)
      BY <1>6 DEF BufInv, Buffers
    <3>. QED  BY <1>2, <1>6, <3>1, LaidTyped, TextsAre
  <2> HIDE DEF before, x, y
  <2>4. Append(x \o y, b) = x \o Append(y, b)
    BY <1>2, <2>3
  <2>5. Laid(chunks') = x /\ Texts(buf'.blocks) = Append(y, b)
    BY <1>6, <1>7 DEF x, y
  <2>. QED  BY <2>1, <2>2, <2>4, <2>5 DEF HasRead
<1>. QED  BY <1>2, <1>6, <1>7, <1>8, <1>9 DEF Taken

-----------------------------------------------------------------------------
(* What depends on the paper only stays while the paper does.              *)

LEMMA SamePaper ==
  ASSUME body' = body
  PROVE  /\ \A kid : TextsOf(kid)' = TextsOf(kid)
         /\ \A d : BlocksOf(d)' = BlocksOf(d)
         /\ \A src : TextAt(src)' = TextAt(src)
         /\ Sources' = Sources
<1>1. ASSUME NEW kid PROVE TextsOf(kid)' = TextsOf(kid)
  BY DEF TextsOf, InnerText, FormulaText, LabelText
<1>2. ASSUME NEW d PROVE BlocksOf(d)' = BlocksOf(d)
  BY DEF BlocksOf, TextsOf, InnerText, FormulaText, LabelText, Kind
<1>3. ASSUME NEW src PROVE TextAt(src)' = TextAt(src)
  BY <1>1 DEF TextAt
<1>4. Sources' = Sources
  BY <1>1, <1>3 DEF Sources
<1>. QED  BY <1>1, <1>2, <1>3, <1>4

LEMMA SameInvariants ==
  ASSUME body' = body
  PROVE  /\ \A b : ReadyBlock(b)' <=> ReadyBlock(b)
         /\ \A t : ReadsAll(t)' <=> ReadsAll(t)
         /\ \A cs : ChunksInv(cs)' <=> ChunksInv(cs)
         /\ \A bf, d : BufInv(bf, d)' <=> BufInv(bf, d)
         /\ \A bf, cs, d : Continues(bf, cs, d)' <=> Continues(bf, cs, d)
<1>1. /\ \A d : BlocksOf(d)' = BlocksOf(d)
      /\ \A src : TextAt(src)' = TextAt(src)
      /\ Sources' = Sources
  BY SamePaper
<1>2. ASSUME NEW b PROVE ReadyBlock(b)' <=> ReadyBlock(b)
  BY <1>1 DEF ReadyBlock, IsBlock
<1>3. ASSUME NEW t PROVE ReadsAll(t)' <=> ReadsAll(t)
  BY <1>1 DEF ReadsAll
<1>4. ASSUME NEW cs PROVE ChunksInv(cs)' <=> ChunksInv(cs)
  BY <1>1, <1>2 DEF ChunksInv, ChunkInv, StartsWell
<1>5. ASSUME NEW bf, NEW d PROVE BufInv(bf, d)' <=> BufInv(bf, d)
  BY <1>1, <1>2 DEF BufInv
<1>6. ASSUME NEW bf, NEW cs, NEW d PROVE Continues(bf, cs, d)' <=> Continues(bf, cs, d)
  BY <1>1 DEF Continues, StartsWell
<1>. QED  BY <1>2, <1>3, <1>4, <1>5, <1>6

(* Chunking changes neither the paper nor the list of blocks.              *)
LEMMA ChunkingKeeps ==
  ASSUME PreparedInv, ChunkingInv, pc = "chunk", TakeHead \/ TakeOversize \/ TakeBlock
  PROVE  PreparedInv' /\ ChunkingInv' /\ pc' = "chunk"
<1>1. /\ next \in 1..Len(prepared) /\ next' = next + 1 /\ currentDiv' = Block.div
      /\ body' = body /\ pc' = pc /\ prepared' = prepared
  BY DEF TakeHead, TakeOversize, TakeBlock, NextBlock, ChunkingInv
<1>2. Taken(buf', chunks', Block.div)
  BY HeadIsTaken, OversizeIsTaken, BlockIsTaken
<1>3. /\ \A b : ReadyBlock(b)' <=> ReadyBlock(b)
      /\ \A t : ReadsAll(t)' <=> ReadsAll(t)
      /\ \A cs : ChunksInv(cs)' <=> ChunksInv(cs)
      /\ \A bf, d : BufInv(bf, d)' <=> BufInv(bf, d)
      /\ \A bf, cs, d : Continues(bf, cs, d)' <=> Continues(bf, cs, d)
  BY <1>1, SameInvariants
<1>4. PreparedInv'
  BY <1>1, <1>3 DEF PreparedInv, DivsInOrder
<1>5. ChunksInv(chunks)' /\ BufInv(buf, currentDiv)' /\ Continues(buf, chunks, currentDiv)'
  BY <1>1, <1>2, <1>3 DEF Taken
<1>6. HasRead(buf, chunks, next - 1)'
  <2>1. (next + 1) - 1 = next
    BY <1>1
  <2>. QED  BY <1>1, <1>2, <2>1 DEF Taken, HasRead
<1>7. /\ next' \in 1..(Len(prepared') + 1)
      /\ currentDiv' = IF next' = 1 THEN None ELSE prepared'[next' - 1].div
  <2>1. Len(prepared) \in Nat
    BY DEF PreparedInv
  <2>2. Block = prepared[next] /\ next' # 1 /\ next' - 1 = next
    BY <1>1 DEF Block
  <2>3. next' \in 1..(Len(prepared) + 1)
    BY <1>1, <2>1
  <2>. QED  BY <1>1, <2>2, <2>3
<1>8. ChunkingInv'
  BY <1>1, <1>5, <1>6, <1>7 DEF ChunkingInv
<1>. QED  BY <1>1, <1>4, <1>8

LEMMA EndKeeps ==
  ASSUME PreparedInv, ChunkingInv, pc = "chunk", End
  PROVE  PreparedInv' /\ ChunkingInv' /\ pc' = "done"
<1>1. /\ next > Len(prepared) /\ UNCHANGED <<body, next, prepared, currentDiv>>
      /\ buf' = EmptyBuf /\ pc' = "done"
      /\ chunks' = Flush([buf |-> buf, chunks |-> chunks], currentDiv, "end").chunks
  BY DEF End
<1>2. /\ next \in 1..(Len(prepared) + 1) /\ ChunksInv(chunks) /\ BufInv(buf, currentDiv)
      /\ Continues(buf, chunks, currentDiv) /\ HasRead(buf, chunks, next - 1)
      /\ currentDiv = IF next = 1 THEN None ELSE prepared[next - 1].div
  BY DEF ChunkingInv
<1>3. chunks' = Emitted(buf, chunks, currentDiv)
  BY <1>1, <1>2, FlushIs
<1>4. ChunksInv(chunks') /\ Laid(chunks') = Laid(chunks) \o Texts(buf.blocks)
  BY <1>2, <1>3, EmittedIs DEF Continues
<1>5. /\ \A b : ReadyBlock(b)' <=> ReadyBlock(b)
      /\ \A t : ReadsAll(t)' <=> ReadsAll(t)
      /\ \A cs : ChunksInv(cs)' <=> ChunksInv(cs)
  BY <1>1, SameInvariants
<1>6. PreparedInv'
  BY <1>1, <1>5 DEF PreparedInv, DivsInOrder
<1>7. ChunksInv(chunks)'
  BY <1>4, <1>5
<1>8. HasRead(EmptyBuf, chunks', next - 1)
  <2>1. Laid(chunks') \in Seq(Blocks) /\ Texts(<<>>) = <<>> /\ EmptyBuf.blocks = <<>>
    <3>1. Laid(chunks') \in Seq(Blocks)
      BY <1>4, LaidTyped
    <3>2. Texts(<<>>) = <<>>
      BY DEF Texts, FlattenSeq
    <3>3. EmptyBuf.blocks = <<>>
      BY DEF EmptyBuf
    <3>. QED  BY <3>1, <3>2, <3>3
  <2>2. Laid(chunks') \o <<>> = Laid(chunks')
    BY <2>1
  <2>. QED  BY <1>2, <1>4, <2>1, <2>2 DEF HasRead
<1>9. next = Len(prepared) + 1
  <2>1. Len(prepared) \in Nat
    BY DEF PreparedInv
  <2>. QED  BY <1>1, <1>2, <2>1
<1>10. ChunkingInv'
  <2>1. HasRead(buf, chunks, next - 1)'
    BY <1>1, <1>8 DEF HasRead
  <2>. QED  BY <1>1, <1>2, <1>7, <1>9, <2>1 DEF ChunkingInv
<1>. QED  BY <1>1, <1>6, <1>10

-----------------------------------------------------------------------------
(* What the invariants say of the properties. *)

LEMMA ChunkingIsTyped ==
  ASSUME PreparedInv, ChunkingInv, pc \in {"chunk", "done"}
  PROVE  TypeOK
<1>1. /\ prepared \in Seq(Blocks) /\ \A i \in 1..Len(prepared) : ReadyBlock(prepared[i])
  BY DEF PreparedInv
<1>2. next \in Nat /\ Len(prepared) \in Nat
  BY <1>1 DEF ChunkingInv
<1>3. \A n \in DOMAIN prepared : IsBlock(prepared[n])
  BY <1>1 DEF ReadyBlock
<1>4. (\A n \in DOMAIN buf.blocks : IsBlock(buf.blocks[n])) /\ buf.len = JoinLen(buf.blocks)
  <2>1. CASE pc = "chunk"
    <3>1. BufInv(buf, currentDiv)
      BY <2>1 DEF ChunkingInv
    <3>2. buf.blocks \in Seq(Blocks) /\ DOMAIN buf.blocks = 1..Len(buf.blocks)
      BY <3>1 DEF BufInv, Buffers
    <3>. QED  BY <3>1, <3>2 DEF BufInv, ReadyBlock
  <2>2. CASE pc = "done"
    <3>1. buf = EmptyBuf
      BY <2>2 DEF ChunkingInv
    <3>. QED  BY <3>1 DEF EmptyBuf, JoinLen
  <2>. QED  BY <2>1, <2>2
<1>5. currentDiv \in {None} \cup 1..Len(body)
  <2>1. CASE next = 1
    BY <2>1 DEF ChunkingInv
  <2>2. CASE next # 1
    <3>1. next - 1 \in 1..Len(prepared) /\ currentDiv = prepared[next - 1].div
      BY <1>2, <2>2 DEF ChunkingInv
    <3>2. IsBlock(prepared[next - 1])
      BY <1>1, <3>1 DEF ReadyBlock
    <3>. QED  BY <3>1, <3>2 DEF IsBlock
  <2>. QED  BY <2>1, <2>2
<1>6. ASSUME NEW n \in DOMAIN chunks PROVE chunks[n].index = n - 1 /\ chunks[n].blocks # <<>>
  <2>1. chunks \in Seq(Drafts) /\ n \in 1..Len(chunks)
    BY DEF ChunkingInv, ChunksInv
  <2>2. ChunkInv(chunks[n], SubSeq(chunks, 1, n - 1))
    BY <2>1 DEF ChunkingInv, ChunksInv
  <2>3. Len(SubSeq(chunks, 1, n - 1)) = n - 1
    BY <2>1
  <2>. QED  BY <2>2, <2>3 DEF ChunkInv
<1>. QED  BY <1>2, <1>3, <1>4, <1>5, <1>6 DEF TypeOK

LEMMA ChunkingFits ==
  ASSUME ChunksInv(chunks)
  PROVE  ChunksFit
<1> SUFFICES ASSUME NEW n \in DOMAIN chunks, chunks[n].len > MaxChars
             PROVE  /\ Len(chunks[n].blocks) = 1
                    /\ \/ chunks[n].blocks[1].kind \notin Splittable
                       \/ IsInnerSentence(chunks[n].blocks[1])
  BY DEF ChunksFit
<1>1. n \in 1..Len(chunks)
  BY DEF ChunksInv
<1>2. ChunkInv(chunks[n], SubSeq(chunks, 1, n - 1))
  BY <1>1 DEF ChunksInv
<1>. QED  BY <1>2 DEF ChunkInv

LEMMA ChunkingKeepsSections ==
  ASSUME ChunksInv(chunks)
  PROVE  SectionsStayTogether
<1>0. chunks \in Seq(Drafts)
  BY DEF ChunksInv
<1>1. ASSUME NEW n \in DOMAIN chunks, NEW blocks, blocks = chunks[n].blocks
      PROVE  /\ \A m \in DOMAIN blocks :
                   blocks[m].div = chunks[n].div /\ (IsHead(blocks[m]) => m = 1)
             /\ \/ IsHead(blocks[1]) \/ body[chunks[n].div].head = <<>>
                \/ \E m \in 1..(n - 1) : chunks[m].div = chunks[n].div
                \/ LenWith([EmptyBuf EXCEPT !.blocks = <<blocks[1]>>, !.len = Rendered(blocks[1])],
                           BlocksOf(chunks[n].div)[1]) > MaxChars
  <2> DEFINE before == SubSeq(chunks, 1, n - 1)
  <2>1. n \in 1..Len(chunks) /\ chunks[n] \in Drafts /\ before \in Seq(Drafts)
        /\ Len(before) = n - 1 /\ \A m \in 1..(n - 1) : before[m] = chunks[m]
    BY <1>0
  <2>2. ChunkInv(chunks[n], before)
    BY <2>1 DEF ChunksInv
  <2>3. DOMAIN blocks = 1..Len(blocks)
    BY <1>1, <2>1 DEF Drafts
  <2> HIDE DEF before
  <2>4. \A m \in DOMAIN blocks : blocks[m].div = chunks[n].div /\ (IsHead(blocks[m]) => m = 1)
    BY <1>1, <2>2, <2>3 DEF ChunkInv
  <2>5. StartsWell(blocks[1], chunks[n].div, before)
    BY <1>1, <2>2 DEF ChunkInv
  <2>6. HasChunk(before, chunks[n].div) => \E m \in 1..(n - 1) : chunks[m].div = chunks[n].div
    BY <2>1 DEF HasChunk
  <2>7. PICK one : one = [EmptyBuf EXCEPT !.blocks = <<blocks[1]>>, !.len = Rendered(blocks[1])]
    OBVIOUS
  <2>8. one.blocks # <<>> /\ one.len = Rendered(blocks[1])
    <3>1. one.blocks = <<blocks[1]>> /\ one.len = Rendered(blocks[1])
      BY <2>7 DEF EmptyBuf
    <3>. QED  BY <3>1
  <2>9. LenWith(one, BlocksOf(chunks[n].div)[1]) =
           Rendered(blocks[1]) + 2 + Rendered(BlocksOf(chunks[n].div)[1])
    BY <2>8 DEF LenWith
  <2>. QED  BY <2>4, <2>5, <2>6, <2>7, <2>9 DEF StartsWell
<1>. QED  BY <1>1 DEF SectionsStayTogether

-----------------------------------------------------------------------------
(* The texts of the paper. *)

Kids == [tag : Tags, texts : Seq(Seq(Sentence)), label : Nat, div : Nat]

Divs == [head : Seq(Sentence), isRef : BOOLEAN, kids : Seq(Kids)]

LEMMA KidIs ==
  ASSUME NEW kid \in Kids
  PROVE  /\ kid.texts \in Seq(Seq(Sentence)) /\ kid.label \in Nat /\ kid.tag \in Tags
         /\ Len(kid.texts) \in Nat /\ DOMAIN kid.texts = 1..Len(kid.texts)
         /\ \A i \in 1..Len(kid.texts) : kid.texts[i] \in Seq(Sentence)
<1>1. kid.texts \in Seq(Seq(Sentence)) /\ kid.label \in Nat /\ kid.tag \in Tags
  BY DEF Kids
<1>2. ASSUME NEW ts \in Seq(Seq(Sentence))
      PROVE  Len(ts) \in Nat /\ DOMAIN ts = 1..Len(ts) /\ \A i \in 1..Len(ts) : ts[i] \in Seq(Sentence)
  OBVIOUS
<1>. QED  BY <1>1, <1>2

LEMMA BodyIs ==
  ASSUME body \in Bodies
  PROVE  /\ body \in Seq(Divs) /\ Len(body) \in Nat /\ DOMAIN body = 1..Len(body)
         /\ \A d \in 1..Len(body) :
               /\ body[d].head \in Seq(Sentence) /\ body[d].isRef \in BOOLEAN
               /\ body[d].kids \in Seq(Kids)
               /\ DOMAIN body[d].kids = 1..Len(body[d].kids)
               /\ \A k \in 1..Len(body[d].kids) :
                     /\ body[d].kids[k] \in Kids
                     /\ body[d].kids[k].tag = "div" => body[d].kids[k].div \in (d + 1)..Len(body)
                     /\ body[d].kids[k].tag = "formula" => Len(body[d].kids[k].texts) >= 2
                     /\ body[d].kids[k].tag = "figure" => body[d].kids[k].texts # <<>>
                     /\ body[d].kids[k].tag \notin {"div", "list", "formula", "figure"}
                           => Len(body[d].kids[k].texts) = 1
<1>1. body \in Seq(Divs)
  BY BodiesAssumption DEF Divs, Kids
<1>2. Len(body) \in Nat /\ DOMAIN body = 1..Len(body)
  BY <1>1
<1>3. ASSUME NEW d \in 1..Len(body)
      PROVE  /\ body[d].head \in Seq(Sentence) /\ body[d].isRef \in BOOLEAN
             /\ body[d].kids \in Seq(Kids)
             /\ DOMAIN body[d].kids = 1..Len(body[d].kids)
  <2>1. body[d] \in Divs
    BY <1>1
  <2>2. body[d].head \in Seq(Sentence) /\ body[d].isRef \in BOOLEAN /\ body[d].kids \in Seq(Kids)
    BY <2>1 DEF Divs
  <2>. QED  BY <2>2
<1>4. ASSUME NEW d \in 1..Len(body), NEW k \in 1..Len(body[d].kids)
      PROVE  /\ body[d].kids[k] \in Kids
             /\ body[d].kids[k].tag = "div" => body[d].kids[k].div \in (d + 1)..Len(body)
             /\ body[d].kids[k].tag = "formula" => Len(body[d].kids[k].texts) >= 2
             /\ body[d].kids[k].tag = "figure" => body[d].kids[k].texts # <<>>
             /\ body[d].kids[k].tag \notin {"div", "list", "formula", "figure"}
                   => Len(body[d].kids[k].texts) = 1
  <2>1. body[d].kids[k] \in Kids
    BY <1>3
  <2>2. d \in DOMAIN body /\ k \in DOMAIN body[d].kids
    BY <1>2, <1>3
  <2>. QED  BY <2>1, <2>2, BodiesAssumption
<1>. QED  BY <1>1, <1>2, <1>3, <1>4

LEMMA FlattenedIs ==
  ASSUME NEW text \in Seq(Sentence)
  PROVE  /\ Flatten(text) \in Seq(Lengths) /\ Itertext(text) \in Seq(Lengths)
         /\ text # <<>> => Itertext(text) # <<>>
<1>1. \A n \in 1..Len(text) : text[n].len \in Nat \ {0} /\ text[n].ref \in Nat
  <2>1. \A s \in Sentence : s.len \in Nat \ {0} /\ s.ref \in Nat
    BY DEF Sentence
  <2>. QED  BY <2>1
<1>2. \A n \in 1..Len(text) : text[n].len + text[n].ref \in Lengths /\ text[n].len \in Lengths
  BY <1>1 DEF Lengths
<1>3. Len(text) \in Nat /\ DOMAIN text = 1..Len(text)
  OBVIOUS
<1>4. Flatten(text) \in Seq(Lengths) /\ Itertext(text) \in Seq(Lengths)
  BY <1>2, <1>3 DEF Flatten, Itertext
<1>5. text # <<>> => Itertext(text) # <<>>
  <2> SUFFICES ASSUME text # <<>> PROVE Itertext(text) # <<>>
    OBVIOUS
  <2>1. Len(text) > 0 /\ DOMAIN Itertext(text) = 1..Len(text)
    BY <1>3 DEF Itertext
  <2>2. 1 \in DOMAIN Itertext(text)
    BY <1>3, <2>1
  <2>. QED  BY <2>2
<1>. QED  BY <1>4, <1>5

LEMMA JoinedIs ==
  ASSUME NEW ts \in Seq(Seq(Sentence))
  PROVE  Joined(ts) \in Seq(Lengths)
<1> DEFINE g == [i \in DOMAIN ts |-> Itertext(ts[i])]
<1>1. Len(ts) \in Nat /\ DOMAIN ts = 1..Len(ts) /\ \A i \in 1..Len(ts) : ts[i] \in Seq(Sentence)
  OBVIOUS
<1>2. \A i \in 1..Len(ts) : Itertext(ts[i]) \in Seq(Lengths)
  BY <1>1, FlattenedIs
<1>3. g \in Seq(Seq(Lengths))
  BY <1>1, <1>2
<1> HIDE DEF g
<1>. QED  BY <1>3, FlattenIs DEF Joined, g

LEMMA JoinedOne ==
  ASSUME NEW text \in Seq(Sentence)
  PROVE  Joined(<<text>>) = Itertext(text)
<1>1. Itertext(text) \in Seq(Lengths)
  BY FlattenedIs
<1>2. PICK x : x = Itertext(text)
  OBVIOUS
<1>3. [i \in DOMAIN <<text>> |-> Itertext(<<text>>[i])] = <<x>>
  BY <1>2
<1>4. <<x>> = Append(<<>>, x) /\ <<>> \in Seq(Seq(Lengths)) /\ x \in Seq(Lengths)
  BY <1>1, <1>2
<1>5. FlattenSeq(Append(<<>>, x)) = FlattenSeq(<<>>) \o x
  BY <1>4, FlattenAppend
<1>6. FlattenSeq(<<>>) = <<>>
  BY DEF FlattenSeq
<1>7. <<>> \o x = x
  BY <1>4
<1>. QED  BY <1>2, <1>3, <1>4, <1>5, <1>6, <1>7 DEF Joined

(* The text inside a div, when that of the divs in it is f.                *)
InnerAt(f, d) ==
    Itertext(body[d].head) \o
      FlattenSeq([k \in DOMAIN body[d].kids |->
          LET kid == body[d].kids[k]
          IN IF kid.tag = "div" THEN f[kid.div]
             ELSE Joined(kid.texts)])

LEMMA InnerAtIs ==
  ASSUME body \in Bodies, NEW d \in 1..Len(body), NEW f,
         \A e \in (d + 1)..Len(body) : f[e] \in Seq(Lengths)
  PROVE  InnerAt(f, d) \in Seq(Lengths)
<1> DEFINE ks == body[d].kids
           of(k) == IF ks[k].tag = "div" THEN f[ks[k].div]
                    ELSE Joined(ks[k].texts)
           laid == [k \in DOMAIN ks |-> of(k)]
<1>1. /\ ks \in Seq(Kids) /\ DOMAIN ks = 1..Len(ks) /\ body[d].head \in Seq(Sentence)
      /\ \A k \in 1..Len(ks) : ks[k] \in Kids /\ (ks[k].tag = "div" => ks[k].div \in (d + 1)..Len(body))
  BY BodyIs
<1>2. ASSUME NEW k \in 1..Len(ks) PROVE of(k) \in Seq(Lengths)
  <2>1. CASE ks[k].tag = "div"
    BY <1>1, <2>1
  <2>2. CASE ks[k].tag # "div"
    <3>1. ks[k] \in Kids
      BY <1>1
    <3> HIDE DEF ks
    <3>2. Joined(ks[k].texts) \in Seq(Lengths)
      BY <3>1, KidIs, JoinedIs
    <3>. QED  BY <2>2, <3>2
  <2>. QED  BY <2>1, <2>2
<1>3. Len(ks) \in Nat
  BY <1>1
<1> HIDE DEF of, ks
<1>4. laid \in Seq(Seq(Lengths))
  BY <1>1, <1>2, <1>3
<1>5. InnerAt(f, d) = Itertext(body[d].head) \o FlattenSeq(laid)
  BY DEF InnerAt, of, ks
<1> HIDE DEF laid
<1>6. FlattenSeq(laid) \in Seq(Lengths)
  BY <1>4, FlattenIs
<1>7. Itertext(body[d].head) \in Seq(Lengths)
  BY <1>1, FlattenedIs
<1>. QED  BY <1>5, <1>6, <1>7

LEMMA InnerAtAgree ==
  ASSUME body \in Bodies, NEW d \in 1..Len(body), NEW f, NEW g,
         \A e \in (d + 1)..Len(body) : f[e] = g[e]
  PROVE  InnerAt(f, d) = InnerAt(g, d)
<1> DEFINE ks == body[d].kids
           rest(k) == Joined(ks[k].texts)
           of(h, k) == IF ks[k].tag = "div" THEN h[ks[k].div] ELSE rest(k)
           laid(h) == [k \in DOMAIN ks |-> of(h, k)]
<1>1. /\ DOMAIN ks = 1..Len(ks)
      /\ \A k \in 1..Len(ks) : ks[k].tag = "div" => ks[k].div \in (d + 1)..Len(body)
  BY BodyIs
<1>2. InnerAt(f, d) = Itertext(body[d].head) \o FlattenSeq(laid(f))
      /\ InnerAt(g, d) = Itertext(body[d].head) \o FlattenSeq(laid(g))
  BY DEF InnerAt
<1> HIDE DEF rest, ks
<1>3. \A k \in DOMAIN ks : of(f, k) = of(g, k)
  BY <1>1
<1>4. laid(f) = laid(g)
  BY <1>3
<1>. QED  BY <1>2, <1>4

LEMMA InnerTextIs ==
  ASSUME body \in Bodies
  PROVE  \A d \in 1..Len(body) : InnerText[d] \in Seq(Lengths)
<1> DEFINE L == Len(body)
           Solves(f, n) == \A d \in (L - n + 1)..L : f[d] = InnerAt(f, d) /\ f[d] \in Seq(Lengths)
           T == {n \in 0..L : \E f : Solves(f, n)}
<1>1. L \in Nat /\ DOMAIN body = 1..L
  BY BodyIs
<1> HIDE DEF L
<1>2. 0 \in T
  <2>1. Solves(<<>>, 0)
    BY <1>1
  <2>. QED  BY <1>1, <2>1
<1>3. ASSUME NEW n \in 1..L, n - 1 \in T PROVE n \in T
  <2>1. PICK f : Solves(f, n - 1)
    BY <1>3
  <2>2. PICK d0 : d0 = L - n + 1
    OBVIOUS
  <2>3. d0 \in 1..L /\ d0 + 1 = L - (n - 1) + 1
    BY <1>1, <2>2
  <2> DEFINE g == [d \in 1..L |-> IF d = d0 THEN InnerAt(f, d0) ELSE f[d]]
  <2>4. \A e \in (d0 + 1)..L : f[e] \in Seq(Lengths) /\ f[e] = InnerAt(f, e)
    BY <2>1, <2>3
  <2>5. InnerAt(f, d0) \in Seq(Lengths)
    BY <2>3, <2>4, InnerAtIs DEF L
  <2>6. g[d0] = InnerAt(f, d0) /\ \A e \in (d0 + 1)..L : g[e] = f[e]
    BY <1>1, <2>3
  <2> HIDE DEF g
  <2>7. ASSUME NEW d \in d0..L PROVE g[d] = InnerAt(g, d) /\ g[d] \in Seq(Lengths)
    <3>1. d \in 1..L /\ \A e \in (d + 1)..L : e \in (d0 + 1)..L
      BY <1>1, <2>3
    <3>2. \A e \in (d + 1)..L : f[e] = g[e]
      BY <2>6, <3>1
    <3>3. InnerAt(f, d) = InnerAt(g, d)
      BY <3>1, <3>2, InnerAtAgree DEF L
    <3>4. CASE d = d0
      BY <2>5, <2>6, <3>3, <3>4
    <3>5. CASE d # d0
      <4>1. d \in (d0 + 1)..L
        BY <2>3, <3>5
      <4>. QED  BY <2>4, <2>6, <3>3, <4>1
    <3>. QED  BY <3>4, <3>5
  <2>8. Solves(g, n)
    BY <2>2, <2>7
  <2>. QED  BY <1>1, <2>8
<1>4. 0..L \subseteq T
  <2> HIDE DEF T
  <2>. QED  BY <1>1, <1>2, <1>3, Induction
<1>5. PICK f : \A d \in 1..L : f[d] = InnerAt(f, d) /\ f[d] \in Seq(Lengths)
  <2>1. L \in T /\ L - L + 1 = 1
    BY <1>1, <1>4
  <2>. QED  BY <2>1
<1> DEFINE inner == [d \in DOMAIN body |-> f[d]]
<1>6. inner = [d \in DOMAIN body |-> InnerAt(inner, d)]
  <2>1. ASSUME NEW d \in DOMAIN body PROVE f[d] = InnerAt(inner, d)
    <3>1. \A e \in (d + 1)..L : f[e] = inner[e]
      BY <1>1
    <3> HIDE DEF inner
    <3>2. InnerAt(f, d) = InnerAt(inner, d)
      BY <1>1, <3>1, InnerAtAgree DEF L
    <3>. QED  BY <1>1, <1>5, <3>2
  <2>. QED  BY <2>1
<1>7. InnerText = CHOOSE h : h = [d \in DOMAIN body |-> InnerAt(h, d)]
  BY DEF InnerText, InnerAt
<1> HIDE DEF inner
<1>8. InnerText = [d \in DOMAIN body |-> InnerAt(InnerText, d)]
  BY <1>6, <1>7
<1>9. \A d \in 1..L : InnerText[d] = InnerAt(InnerText, d)
  BY <1>1, <1>8
<1> DEFINE U == {n \in 0..L : \A d \in (L - n + 1)..L : InnerText[d] \in Seq(Lengths)}
<1>10. 0 \in U
  BY <1>1
<1>11. ASSUME NEW n \in 1..L, n - 1 \in U PROVE n \in U
  <2>1. PICK d0 : d0 = L - n + 1
    OBVIOUS
  <2>2. d0 \in 1..L /\ d0 + 1 = L - (n - 1) + 1
    BY <1>1, <2>1
  <2>3. \A e \in (d0 + 1)..L : InnerText[e] \in Seq(Lengths)
    BY <1>11, <2>2
  <2>4. InnerText[d0] \in Seq(Lengths)
    BY <1>9, <2>2, <2>3, InnerAtIs DEF L
  <2>5. \A d \in d0..L : d = d0 \/ d \in (d0 + 1)..L
    BY <2>2
  <2>. QED  BY <1>1, <2>1, <2>3, <2>4, <2>5
<1>12. 0..L \subseteq U
  <2> HIDE DEF U
  <2>. QED  BY <1>1, <1>10, <1>11, Induction
<1>13. L \in U /\ L - L + 1 = 1
  BY <1>1, <1>12
<1>. QED  BY <1>13 DEF L

LEMMA Lens ==
  ASSUME NEW n \in Nat
  PROVE  /\ n >= 2 => n = 2 \/ n > 2
         /\ n > 2 => n # 2 /\ 3 \in 1..n /\ n \in 1..n
         /\ n # 0 => 1 \in 1..n /\ (n = 1 \/ n > 1)
OBVIOUS

LEMMA FirstOf ==
  ASSUME NEW S, NEW s \in Seq(S), s # <<>>
  PROVE  1 \in 1..Len(s) /\ s[1] \in S /\ SubSeq(s, 1, 1) = <<s[1]>> /\ (Len(s) = 1 \/ Len(s) > 1)
<1>1. 1 \in 1..Len(s) /\ (Len(s) = 1 \/ Len(s) > 1)
  <2>1. Len(s) \in Nat /\ Len(s) # 0
    OBVIOUS
  <2>. QED  BY Zenon, <2>1, Lens
<1>2. s[1] \in S
  BY <1>1
<1>3. SubSeq(s, 1, 1) = <<s[1]>>
  <2>1. PICK r : r = SubSeq(s, 1, 1)
    OBVIOUS
  <2>2. \A i \in 1..1 : s[i] \in S
    BY <1>2
  <2>3. r \in Seq(S) /\ Len(r) = 1 /\ r[1] = s[1]
    BY <2>1, <2>2, SubSeqProperties
  <2>4. ASSUME NEW x \in S, NEW o, o = <<x>> PROVE o \in Seq(S) /\ Len(o) = 1 /\ o[1] = x
    BY <2>4
  <2>5. <<s[1]>> \in Seq(S) /\ Len(<<s[1]>>) = 1 /\ <<s[1]>>[1] = s[1]
    BY Zenon, <1>2, <2>4
  <2>6. \A i \in 1..1 : r[i] = <<s[1]>>[i]
    BY <2>3, <2>5
  <2>. QED  BY Zenon, <2>1, <2>3, <2>5, <2>6, SeqEqual
<1>. QED  BY <1>1, <1>2, <1>3

LEMMA FormulaIs ==
  ASSUME NEW kid \in Kids, NEW ts, ts = kid.texts, NEW n, n = Len(ts), n >= 2
  PROVE  /\ LabelText(kid) \in Seq(Lengths)
         /\ FormulaText(kid) \in Seq(Lengths)
         /\ \/ FormulaText(kid) = Joined(ts)
            \/ n > 2 /\ FormulaText(kid) = Joined(SubSeq(ts, 3, n))
            \/ FormulaText(kid) = LabelText(kid) /\ (n = 2 => Joined(ts) = <<>>)
<1>1. ts \in Seq(Seq(Sentence)) /\ n \in Nat /\ kid.label \in Nat
  BY KidIs
<1>2. ts[2] \in Seq(Sentence)
  BY <1>1
<1>3. LabelText(kid) \in Seq(Lengths)
  <2>1. kid.label > 0 => <<kid.label>> \in Seq(Lengths)
    BY <1>1 DEF Lengths
  <2>2. Itertext(ts[2]) \in Seq(Lengths)
    BY <1>2, FlattenedIs
  <2>. QED  BY <2>1, <2>2 DEF LabelText
<1>4. PICK children : children = SubSeq(ts, 3, n)
  OBVIOUS
<1>5. children \in Seq(Seq(Sentence)) /\ (n = 2 => children = <<>>)
  <2>1. n = 2 => SubSeq(ts, 3, n) = <<>>
    BY <1>1, SubSeqEmpty
  <2>2. n > 2 => SubSeq(ts, 3, n) \in Seq(Seq(Sentence))
    BY <1>1, SubSeqProperties
  <2>3. n = 2 \/ n > 2
    BY Zenon, <1>1, Lens
  <2>. QED  BY <1>4, <2>1, <2>2, <2>3
<1>6. Joined(ts) \in Seq(Lengths) /\ Joined(children) \in Seq(Lengths)
  BY <1>1, <1>5, JoinedIs
<1>7. FormulaText(kid) =
        LET text == Joined(IF children \in {<<>>, <<<<>>>>} THEN ts ELSE children)
        IN IF text # <<>> THEN text ELSE LabelText(kid)
  BY <1>4 DEF FormulaText
<1>8. CASE children \in {<<>>, <<<<>>>>}
  BY <1>3, <1>6, <1>7, <1>8
<1>9. CASE children \notin {<<>>, <<<<>>>>}
  <2>1. n > 2 /\ n # 2
    BY Zenon, <1>1, <1>5, <1>9, Lens
  <2>2. FormulaText(kid) = Joined(children) \/ FormulaText(kid) = LabelText(kid)
    BY <1>7, <1>9
  <2>. QED  BY Zenon, <1>3, <1>4, <1>6, <2>1, <2>2
<1>. QED  BY <1>8, <1>9

LEMMA TextsOfIs ==
  ASSUME body \in Bodies, NEW d \in 1..Len(body), NEW k \in 1..Len(body[d].kids)
  PROVE  TextsOf(body[d].kids[k]) \in Seq(Seq(Lengths))
<1> DEFINE kid == body[d].kids[k]
           ts == kid.texts
<1>1. /\ kid \in Kids
      /\ kid.tag = "div" => kid.div \in (d + 1)..Len(body)
      /\ kid.tag = "formula" => Len(ts) >= 2
      /\ kid.tag = "figure" => ts # <<>>
      /\ kid.tag \notin {"div", "list", "formula", "figure"} => Len(ts) = 1
  BY BodyIs
<1>2. ts \in Seq(Seq(Sentence)) /\ kid.label \in Nat /\ kid.tag \in Tags /\ Len(ts) \in Nat
  BY <1>1, KidIs
<1> HIDE DEF kid
<1>3. \A i \in 1..Len(ts) : Flatten(ts[i]) \in Seq(Lengths) /\ Itertext(ts[i]) \in Seq(Lengths)
  <2>1. \A i \in 1..Len(ts) : ts[i] \in Seq(Sentence)
    BY <1>1, KidIs
  <2> HIDE DEF ts
  <2>. QED  BY <2>1, FlattenedIs
<1>4. CASE kid.tag = "div"
  <2>1. kid.div \in 1..Len(body)
    BY <1>1, <1>4
  <2>2. InnerText[kid.div] \in Seq(Lengths)
    BY <2>1, InnerTextIs
  <2>3. TextsOf(kid) = <<InnerText[kid.div]>>
    BY <1>4 DEF TextsOf
  <2>. QED  BY <2>2, <2>3 DEF kid
<1>5. CASE kid.tag = "list"
  <2>1. TextsOf(kid) = [i \in DOMAIN ts |-> Flatten(ts[i])]
    BY <1>5 DEF TextsOf
  <2>2. DOMAIN ts = 1..Len(ts) /\ Len(ts) \in Nat
    BY <1>2
  <2>3. TextsOf(kid) \in Seq(Seq(Lengths))
    BY <1>3, <2>1, <2>2
  <2>. QED  BY <2>3 DEF kid
<1>6. CASE kid.tag = "formula"
  <2>1. TextsOf(kid) = <<FormulaText(kid)>>
    BY <1>6 DEF TextsOf
  <2>2. FormulaText(kid) \in Seq(Lengths)
    BY <1>1, <1>6, FormulaIs
  <2>. QED  BY <2>1, <2>2 DEF kid
<1>7. CASE kid.tag \notin {"div", "list", "formula"}
  <2>1. 1 \in 1..Len(ts)
    <3>1. (kid.tag = "figure" => ts # <<>>) /\ (kid.tag # "figure" => Len(ts) = 1)
      BY <1>1, <1>7
    <3> HIDE DEF ts
    <3>2. kid.tag = "figure" => 1 \in 1..Len(ts)
      BY Zenon, <1>2, <3>1, FirstOf
    <3>3. Len(ts) = 1 => 1 \in 1..Len(ts)
      OBVIOUS
    <3>. QED  BY Zenon, <3>1, <3>2, <3>3
  <2>2. <<Flatten(ts[1])>> \in Seq(Seq(Lengths)) /\ <<Itertext(ts[1])>> \in Seq(Seq(Lengths))
    <3>1. PICK x, y : x = Flatten(ts[1]) /\ y = Itertext(ts[1])
      OBVIOUS
    <3>2. x \in Seq(Lengths) /\ y \in Seq(Lengths)
      BY <1>3, <2>1, <3>1
    <3>3. <<x>> \in Seq(Seq(Lengths)) /\ <<y>> \in Seq(Seq(Lengths))
      BY <3>2
    <3>. QED  BY <3>1, <3>3
  <2>3. TextsOf(kid) = <<Flatten(ts[1])>> \/ TextsOf(kid) = <<Itertext(ts[1])>>
    BY <1>7 DEF TextsOf
  <2>4. TextsOf(kid) \in Seq(Seq(Lengths))
    BY <2>2, <2>3
  <2>. QED  BY <2>4 DEF kid
<1>. QED  BY <1>4, <1>5, <1>6, <1>7

LEMMA SourcesAre ==
  ASSUME body \in Bodies
  PROVE  /\ \A d \in 1..Len(body) : \A k \in 1..Len(body[d].kids) :
               \A i \in 1..Len(TextsOf(body[d].kids[k])) :
                  TextsOf(body[d].kids[k])[i] # <<>> => <<d, k, i>> \in Sources
         /\ \A src \in Sources :
               \E d \in 1..Len(body) : \E k \in 1..Len(body[d].kids) :
                  \E i \in 1..Len(TextsOf(body[d].kids[k])) :
                     src = <<d, k, i>> /\ TextsOf(body[d].kids[k])[i] # <<>>
<1> DEFINE Ts(d, k) == TextsOf(body[d].kids[k])
           At(d, k) == {<<d, k, i>> : i \in DOMAIN Ts(d, k)}
           In(d) == UNION {At(d, k) : k \in DOMAIN body[d].kids}
           All == UNION {In(d) : d \in DOMAIN body}
<1>1. /\ DOMAIN body = 1..Len(body)
      /\ \A d \in 1..Len(body) : DOMAIN body[d].kids = 1..Len(body[d].kids)
  BY BodyIs
<1>2. \A d \in 1..Len(body) : \A k \in 1..Len(body[d].kids) : DOMAIN Ts(d, k) = 1..Len(Ts(d, k))
  <2> TAKE d \in 1..Len(body)
  <2> TAKE k \in 1..Len(body[d].kids)
  <2>1. Ts(d, k) \in Seq(Seq(Lengths))
    BY TextsOfIs
  <2> HIDE DEF Ts
  <2>. QED  BY <2>1
<1>3. Sources = {src \in All : TextAt(src) # <<>>}
  BY DEF Sources
<1>4. \A d, k, i : TextAt(<<d, k, i>>) = Ts(d, k)[i]
  BY DEF TextAt
<1> HIDE DEF Ts
<1>5. ASSUME NEW d \in 1..Len(body), NEW k \in 1..Len(body[d].kids), NEW i \in 1..Len(Ts(d, k)),
             Ts(d, k)[i] # <<>>
      PROVE  <<d, k, i>> \in Sources
  <2>1. <<d, k, i>> \in At(d, k)
    BY <1>2
  <2>2. <<d, k, i>> \in In(d)
    BY <1>1, <2>1
  <2>3. <<d, k, i>> \in All
    BY <1>1, <2>2
  <2> HIDE DEF All
  <2>. QED  BY <1>3, <1>4, <1>5, <2>3
<1>6. ASSUME NEW src \in Sources
      PROVE  \E d \in 1..Len(body) : \E k \in 1..Len(body[d].kids) : \E i \in 1..Len(Ts(d, k)) :
                src = <<d, k, i>> /\ Ts(d, k)[i] # <<>>
  <2>1. src \in All /\ TextAt(src) # <<>>
    BY <1>3
  <2>2. PICK d \in DOMAIN body : src \in In(d)
    BY <2>1
  <2>3. PICK k \in DOMAIN body[d].kids : src \in At(d, k)
    BY <2>2
  <2>4. PICK i \in DOMAIN Ts(d, k) : src = <<d, k, i>>
    BY <2>3
  <2>5. d \in 1..Len(body)
    BY <1>1
  <2>6. k \in 1..Len(body[d].kids)
    BY <1>1, <2>5
  <2>7. i \in 1..Len(Ts(d, k))
    BY <1>2, <2>5, <2>6
  <2>8. Ts(d, k)[i] # <<>>
    BY <1>4, <2>1, <2>4
  <2>. QED  BY <2>4, <2>5, <2>6, <2>7, <2>8
<1>. QED  BY <1>5, <1>6 DEF Ts

(* What Reads says of an element and of its i-th text.                     *)
ReadsKid(text, kid, i) ==
    \/ text = PaperTexts(kid)[i]
    \/ /\ kid.tag \in {"p", "list", "note", "footnote"}
       /\ Len(text) = Len(kid.texts[i])
       /\ \A n \in DOMAIN kid.texts[i] :
             text[n] \in kid.texts[i][n].len..(kid.texts[i][n].len + kid.texts[i][n].ref)
    \/ /\ ReadInPart(kid)
       /\ \E m, n \in DOMAIN kid.texts : text = Joined(SubSeq(kid.texts, m, n))
    \/ kid.tag = "formula" /\ text = LabelText(kid)

(* A <ref> may be read twice.                                              *)
LEMMA FlattenedReads ==
  ASSUME NEW raw \in Seq(Sentence)
  PROVE  /\ Len(Flatten(raw)) = Len(raw)
         /\ \A n \in DOMAIN raw : Flatten(raw)[n] \in raw[n].len..(raw[n].len + raw[n].ref)
         /\ Flatten(raw) = <<>> => Itertext(raw) = <<>>
<1>1. Len(raw) \in Nat /\ DOMAIN raw = 1..Len(raw)
  OBVIOUS
<1>2. \A n \in 1..Len(raw) : raw[n].len \in Nat /\ raw[n].ref \in Nat
  <2>1. \A x \in Sentence : x.len \in Nat /\ x.ref \in Nat
    BY DEF Sentence
  <2>. QED  BY <2>1
<1>3. DOMAIN Flatten(raw) = 1..Len(raw) /\ \A n \in 1..Len(raw) : Flatten(raw)[n] = raw[n].len + raw[n].ref
  BY <1>1 DEF Flatten
<1>4. Flatten(raw) \in Seq(Lengths) /\ Itertext(raw) \in Seq(Lengths)
  BY FlattenedIs
<1>5. Len(Flatten(raw)) = Len(raw)
  BY <1>1, <1>3, <1>4
<1>6. Flatten(raw) = <<>> => Itertext(raw) = <<>>
  <2> SUFFICES ASSUME Flatten(raw) = <<>> PROVE Itertext(raw) = <<>>
    OBVIOUS
  <2>1. Len(raw) = 0
    BY <1>5
  <2>2. DOMAIN Itertext(raw) = 1..0
    BY <1>1, <2>1 DEF Itertext
  <2>. QED  BY <1>4, <2>2
<1>7. ASSUME NEW n \in DOMAIN raw PROVE Flatten(raw)[n] \in raw[n].len..(raw[n].len + raw[n].ref)
  BY <1>1, <1>2, <1>3
<1>. QED  BY <1>5, <1>6, <1>7

(* What the extractor reads of an element is what the paper has, up to the *)
(* exceptions that EveryTextIsIndexed names.                               *)
LEMMA KidIsRead ==
  ASSUME body \in Bodies, NEW d \in 1..Len(body), NEW k \in 1..Len(body[d].kids),
         NEW kid, kid = body[d].kids[k]
  PROVE  /\ DOMAIN PaperTexts(kid) = DOMAIN TextsOf(kid)
         /\ \A i \in DOMAIN TextsOf(kid) :
               /\ ReadsKid(TextsOf(kid)[i], kid, i)
               /\ TextsOf(kid)[i] = <<>> => PaperTexts(kid)[i] = <<>> \/ ReadInPart(kid)
<1> DEFINE ts == kid.texts
<1>1. /\ kid \in Kids
      /\ kid.tag = "formula" => Len(ts) >= 2
      /\ kid.tag = "figure" => ts # <<>>
      /\ kid.tag \notin {"div", "list", "formula", "figure"} => Len(ts) = 1
  BY BodyIs
<1>2. /\ ts \in Seq(Seq(Sentence)) /\ Len(ts) \in Nat /\ DOMAIN ts = 1..Len(ts) /\ kid.tag \in Tags
      /\ \A i \in 1..Len(ts) : ts[i] \in Seq(Sentence)
  BY <1>1, KidIs
<1> HIDE DEF ts
<1>3. Len(ts) = 1 => ts = <<ts[1]>> /\ Joined(ts) = Itertext(ts[1])
  <2> SUFFICES ASSUME Len(ts) = 1 PROVE ts = <<ts[1]>> /\ Joined(ts) = Itertext(ts[1])
    OBVIOUS
  <2>1. ts = <<ts[1]>> /\ ts[1] \in Seq(Sentence)
    BY <1>2
  <2>2. Joined(<<ts[1]>>) = Itertext(ts[1])
    BY <2>1, JoinedOne
  <2>. QED  BY <2>1, <2>2
<1>4. CASE kid.tag = "div"
  <2>1. TextsOf(kid) = <<InnerText[kid.div]>> /\ PaperTexts(kid) = <<InnerText[kid.div]>>
    BY <1>4 DEF TextsOf, PaperTexts
  <2>. QED  BY <2>1 DEF ReadsKid
<1>5. CASE kid.tag = "list"
  <2>1. TextsOf(kid) = [i \in DOMAIN ts |-> Flatten(ts[i])]
        /\ PaperTexts(kid) = [i \in DOMAIN ts |-> Itertext(ts[i])]
    BY <1>5 DEF TextsOf, PaperTexts, ts
  <2>2. ASSUME NEW i \in DOMAIN ts
        PROVE  ReadsKid(Flatten(ts[i]), kid, i) /\ (Flatten(ts[i]) = <<>> => Itertext(ts[i]) = <<>>)
    <3>1. ts[i] \in Seq(Sentence)
      BY <1>2
    <3>. QED  BY <1>5, <3>1, FlattenedReads DEF ReadsKid, ts
  <2>. QED  BY <2>1, <2>2
<1>6. CASE kid.tag \notin {"div", "list"}
  <2>1. PaperTexts(kid) = <<Joined(ts)>>
    BY <1>6 DEF PaperTexts, ts
  <2>2. PICK x : x = IF kid.tag \in {"p", "note", "footnote"} THEN Flatten(ts[1])
                     ELSE IF kid.tag = "formula" THEN FormulaText(kid) ELSE Itertext(ts[1])
    OBVIOUS
  <2>3. TextsOf(kid) = <<x>>
    BY <1>6, <2>2 DEF TextsOf, ts
  <2>4. CASE kid.tag \in {"p", "note", "footnote"}
    <3>1. x = Flatten(ts[1]) /\ Len(ts) = 1 /\ ts[1] \in Seq(Sentence)
      BY <1>1, <1>2, <2>2, <2>4
    <3>2. ReadsKid(x, kid, 1)
      BY <2>4, <3>1, FlattenedReads DEF ReadsKid, ts
    <3>3. x = <<>> => Joined(ts) = <<>>
      BY <1>3, <3>1, FlattenedReads
    <3>. QED  BY <2>1, <2>3, <3>2, <3>3
  <2>5. CASE kid.tag = "formula"
    <3>1. x = FormulaText(kid) /\ Len(ts) >= 2
      BY <1>1, <2>2, <2>5
    <3>2. \/ x = Joined(ts)
          \/ Len(ts) > 2 /\ x = Joined(SubSeq(ts, 3, Len(ts)))
          \/ x = LabelText(kid) /\ (Len(ts) = 2 => Joined(ts) = <<>>)
      BY <1>1, <3>1, FormulaIs DEF ts
    <3>3. Len(ts) = 2 \/ (Len(ts) > 2 /\ ReadInPart(kid) /\ 3 \in DOMAIN ts /\ Len(ts) \in DOMAIN ts)
      <4>1. Len(ts) > 2 => ReadInPart(kid)
        BY <2>5 DEF ReadInPart, ts
      <4>. QED  BY Zenon, <1>2, <3>1, <4>1, Lens
    <3>4. ReadsKid(x, kid, 1)
      <4>1. CASE x = Joined(ts)
        BY <2>1, <4>1 DEF ReadsKid
      <4>2. CASE Len(ts) > 2 /\ x = Joined(SubSeq(ts, 3, Len(ts)))
        <5>1. Len(ts) # 2
          BY Zenon, <1>2, <4>2, Lens
        <5>. QED  BY Zenon, <3>3, <4>2, <5>1 DEF ReadsKid, ts
      <4>3. CASE x = LabelText(kid)
        BY Zenon, <2>5, <4>3 DEF ReadsKid
      <4>. QED  BY Zenon, <3>2, <4>1, <4>2, <4>3
    <3>5. x = <<>> => Joined(ts) = <<>> \/ ReadInPart(kid)
      <4>1. CASE Len(ts) = 2
        BY Zenon, <1>2, <3>2, <4>1, Lens
      <4>. QED  BY Zenon, <3>3, <4>1
    <3>. QED  BY <2>1, <2>3, <3>4, <3>5
  <2>6. CASE kid.tag \notin {"p", "note", "footnote", "formula"}
    <3>1. x = Itertext(ts[1])
      BY <2>2, <2>6
    <3>2. CASE Len(ts) = 1
      <4>1. x = Joined(ts)
        BY <1>3, <3>1, <3>2
      <4>. QED  BY <2>1, <2>3, <4>1 DEF ReadsKid
    <3>3. CASE Len(ts) # 1
      <4>1. kid.tag = "figure" /\ Len(ts) > 1 /\ 1 \in DOMAIN ts
        <5>1. kid.tag = "figure" /\ ts # <<>>
          BY <1>1, <1>6, <2>6, <3>3
        <5>2. Len(ts) > 1 /\ 1 \in 1..Len(ts)
          BY Zenon, <1>2, <3>3, <5>1, FirstOf
        <5>. QED  BY Zenon, <1>2, <5>1, <5>2
      <4>2. SubSeq(ts, 1, 1) = <<ts[1]>> /\ ts[1] \in Seq(Sentence)
        <5>1. ts # <<>>
          BY <1>1, <4>1
        <5>. QED  BY Zenon, <1>2, <5>1, FirstOf
      <4>3. x = Joined(SubSeq(ts, 1, 1))
        BY <3>1, <4>2, JoinedOne
      <4>4. ReadInPart(kid)
        BY <4>1 DEF ReadInPart, ts
      <4>5. ReadsKid(x, kid, 1)
        BY <4>1, <4>3, <4>4 DEF ReadsKid, ts
      <4>. QED  BY <2>1, <2>3, <4>4, <4>5
    <3>. QED  BY <3>2, <3>3
  <2>. QED  BY <2>4, <2>5, <2>6
<1>. QED  BY <1>4, <1>5, <1>6

(* Hence so does every text the extractor reads of a paper.                *)
LEMMA PaperIsRead ==
  ASSUME body \in Bodies
  PROVE  /\ \A src \in Sources : src \in Places /\ Reads(TextAt(src), src)
         /\ \A src \in Places \ Sources : PaperText(src) = <<>> \/ ReadInPart(KidAt(src))
<1> DEFINE Kid(d, k) == body[d].kids[k]
<1>1. /\ DOMAIN body = 1..Len(body)
      /\ \A d \in 1..Len(body) : DOMAIN body[d].kids = 1..Len(body[d].kids)
  BY BodyIs
<1>2. \A d, k, i : /\ KidAt(<<d, k, i>>) = Kid(d, k)
                   /\ TextAt(<<d, k, i>>) = TextsOf(Kid(d, k))[i]
                   /\ PaperText(<<d, k, i>>) = PaperTexts(Kid(d, k))[i]
  BY DEF KidAt, TextAt, PaperText
<1>3. ASSUME NEW text, NEW d, NEW k, NEW i, ReadsKid(text, Kid(d, k), i)
      PROVE  Reads(text, <<d, k, i>>)
  <2>1. PICK src, kid : src = <<d, k, i>> /\ kid = Kid(d, k)
    OBVIOUS
  <2>2. KidAt(src) = kid /\ PaperText(src) = PaperTexts(kid)[i] /\ src[3] = i
    BY <1>2, <2>1
  <2>3. ReadsKid(text, kid, i)
    BY <1>3, <2>1
  <2> HIDE DEF Kid
  <2>4. Reads(text, src)
    BY <2>2, <2>3 DEF Reads, ReadsKid
  <2>. QED  BY <2>1, <2>4
<1>4. \A d \in 1..Len(body) : \A k \in 1..Len(body[d].kids) :
        /\ DOMAIN PaperTexts(Kid(d, k)) = DOMAIN TextsOf(Kid(d, k))
        /\ DOMAIN TextsOf(Kid(d, k)) = 1..Len(TextsOf(Kid(d, k)))
        /\ \A i \in DOMAIN TextsOf(Kid(d, k)) :
              /\ ReadsKid(TextsOf(Kid(d, k))[i], Kid(d, k), i)
              /\ TextsOf(Kid(d, k))[i] = <<>> => PaperTexts(Kid(d, k))[i] = <<>> \/ ReadInPart(Kid(d, k))
  <2> TAKE d \in 1..Len(body)
  <2> TAKE k \in 1..Len(body[d].kids)
  <2>1. PICK kid : kid = body[d].kids[k]
    OBVIOUS
  <2>2. TextsOf(kid) \in Seq(Seq(Lengths))
    BY <2>1, TextsOfIs
  <2>3. DOMAIN TextsOf(kid) = 1..Len(TextsOf(kid))
    BY <2>2
  <2>. QED  BY <2>1, <2>3, KidIsRead
<1>5. \A d, k, i : <<d, k, i>> \in Places <=>
          d \in DOMAIN body /\ k \in DOMAIN body[d].kids /\ i \in DOMAIN PaperTexts(Kid(d, k))
  <2> DEFINE At(d, k) == {<<d, k, i>> : i \in DOMAIN PaperTexts(Kid(d, k))}
             In(d) == UNION {At(d, k) : k \in DOMAIN body[d].kids}
  <2>1. Places = UNION {In(d) : d \in DOMAIN body}
    BY DEF Places
  <2>2. \A src, d, k : src \in At(d, k) <=> \E i \in DOMAIN PaperTexts(Kid(d, k)) : src = <<d, k, i>>
    OBVIOUS
  <2>3. \A src, d : src \in In(d) <=> \E k \in DOMAIN body[d].kids : src \in At(d, k)
    OBVIOUS
  <2>4. \A src : src \in Places <=> \E d \in DOMAIN body : src \in In(d)
    BY <2>1
  <2> HIDE DEF At, In
  <2>. QED  BY <2>2, <2>3, <2>4
<1>6. \A src \in Places : \E d \in DOMAIN body : \E k \in DOMAIN body[d].kids :
        \E i \in DOMAIN PaperTexts(Kid(d, k)) : src = <<d, k, i>>
  BY DEF Places
<1> HIDE DEF Kid
<1>7. ASSUME NEW src \in Sources PROVE src \in Places /\ Reads(TextAt(src), src)
  <2>1. PICK d, k, i : /\ d \in 1..Len(body) /\ k \in 1..Len(body[d].kids)
                       /\ i \in 1..Len(TextsOf(Kid(d, k))) /\ src = <<d, k, i>>
    BY SourcesAre DEF Kid
  <2>. QED  BY <1>1, <1>2, <1>3, <1>4, <1>5, <2>1
<1>8. ASSUME NEW src \in Places, src \notin Sources
      PROVE  PaperText(src) = <<>> \/ ReadInPart(KidAt(src))
  <2>1. PICK d, k, i : /\ d \in DOMAIN body /\ k \in DOMAIN body[d].kids
                       /\ i \in DOMAIN PaperTexts(Kid(d, k)) /\ src = <<d, k, i>>
    BY <1>6
  <2>2. d \in 1..Len(body) /\ k \in 1..Len(body[d].kids)
    BY <1>1, <2>1
  <2>3. i \in DOMAIN TextsOf(Kid(d, k)) /\ i \in 1..Len(TextsOf(Kid(d, k)))
    BY <1>4, <2>1, <2>2
  <2>4. TextsOf(Kid(d, k))[i] = <<>>
    <3>1. \A e \in 1..Len(body) : \A l \in 1..Len(body[e].kids) : \A j \in 1..Len(TextsOf(Kid(e, l))) :
             TextsOf(Kid(e, l))[j] # <<>> => <<e, l, j>> \in Sources
      BY Zenon, SourcesAre DEF Kid
    <3>. QED  BY <1>8, <2>1, <2>2, <2>3, <3>1
  <2>5. PICK kid : kid = Kid(d, k)
    OBVIOUS
  <2>6. PaperTexts(kid)[i] = <<>> \/ ReadInPart(kid)
    BY Zenon, <1>4, <2>2, <2>3, <2>4, <2>5
  <2>. QED  BY Zenon, <1>2, <2>1, <2>5, <2>6
<1>. QED  BY <1>7, <1>8

(* No block is a copy of one that another chunk ends with.                 *)
NoOverlap ==
    \A n \in DOMAIN chunks : \A m \in DOMAIN chunks[n].blocks :
        ~ chunks[n].blocks[m].overlap

(* No block of a chunk is carried over from another.                       *)
LEMMA NoneOverlaps ==
  ASSUME ChunksInv(chunks)
  PROVE  NoOverlap
<1> SUFFICES ASSUME NEW n \in DOMAIN chunks, NEW m \in DOMAIN chunks[n].blocks
             PROVE  ~ chunks[n].blocks[m].overlap
  BY DEF NoOverlap
<1>1. chunks \in Seq(Drafts)
  BY DEF ChunksInv
<1>2. n \in 1..Len(chunks) /\ chunks[n] \in Drafts
  BY <1>1
<1>3. \A c \in Drafts : DOMAIN c.blocks = 1..Len(c.blocks)
  BY DEF Drafts
<1>4. m \in 1..Len(chunks[n].blocks)
  BY <1>2, <1>3
<1>5. ChunkInv(chunks[n], SubSeq(chunks, 1, n - 1))
  BY <1>2 DEF ChunksInv
<1>6. ReadyBlock(chunks[n].blocks[m])
  BY <1>4, <1>5 DEF ChunkInv
<1>. QED  BY Zenon, <1>6 DEF ReadyBlock

LEMMA ChunkingReadsAll ==
  ASSUME body \in Bodies, PreparedInv, ChunkingInv
  PROVE  EveryTextIsIndexed
<1> SUFFICES ASSUME pc = "done" PROVE EveryTextIsIndexed
  BY DEF EveryTextIsIndexed
<1>1. buf = EmptyBuf /\ next = Len(prepared) + 1 /\ prepared \in Seq(Blocks)
      /\ HasRead(buf, chunks, next - 1) /\ ReadsAll(Texts(prepared)) /\ ChunksInv(chunks)
  BY DEF ChunkingInv, PreparedInv
<1>2. SubSeq(prepared, 1, next - 1) = prepared
  BY <1>1
<1>3. Laid(chunks) \in Seq(Blocks)
  BY <1>1, LaidTyped
<1>4. Texts(buf.blocks) = <<>>
  BY <1>1 DEF EmptyBuf, Texts, FlattenSeq
<1>5. Laid(chunks) \o <<>> = Laid(chunks)
  BY <1>3
<1>6. Texts(prepared) = Laid(chunks)
  BY <1>1, <1>2, <1>4, <1>5 DEF HasRead
<1>7. Indexed = Laid(chunks)
  <2> DEFINE Kept(n) == FlattenSeq([m \in DOMAIN chunks[n].blocks |->
                          IF ~ IsHead(chunks[n].blocks[m]) /\ ~ chunks[n].blocks[m].overlap
                          THEN <<chunks[n].blocks[m]>> ELSE <<>>])
  <2>1. ASSUME NEW n \in DOMAIN chunks PROVE Kept(n) = Texts(chunks[n].blocks)
    <3>1. \A m \in DOMAIN chunks[n].blocks : ~ chunks[n].blocks[m].overlap
      BY <1>1, NoneOverlaps DEF NoOverlap
    <3>. QED  BY <3>1 DEF Texts
  <2>2. Indexed = FlattenSeq([n \in DOMAIN chunks |-> Kept(n)])
    BY DEF Indexed, Filter
  <2> HIDE DEF Kept
  <2>3. [n \in DOMAIN chunks |-> Kept(n)] = [n \in DOMAIN chunks |-> Texts(chunks[n].blocks)]
    BY <2>1
  <2>. QED  BY <2>2, <2>3 DEF Laid
<1>8. PICK t : t = Indexed
  OBVIOUS
<1>9. ReadsAll(t) /\ body \in Bodies
  BY <1>1, <1>6, <1>7, <1>8
<1>10. {t[n].src : n \in DOMAIN t} = Sources /\ \A n \in DOMAIN t : t[n].src \in Sources
  BY <1>9 DEF ReadsAll
<1>11. Sources \subseteq Places
  BY <1>9, PaperIsRead
<1>12. \A src \in Places \ Sources : PaperText(src) = <<>> \/ ReadInPart(KidAt(src))
  BY <1>9, PaperIsRead
<1>13. \A n \in DOMAIN t : Reads(t[n].text, t[n].src)
  BY <1>9, <1>10, PaperIsRead DEF ReadsAll
<1>14. ASSUME NEW n \in DOMAIN t
       PROVE  /\ n = 1 \/ t[n].src # t[n - 1].src => t[n].from = 0
              /\ n = Len(t) \/ t[n].src # t[n + 1].src => t[n].to = TextLen(t[n].text)
              /\ n > 1 => \/ ComesBefore(t[n - 1].src, t[n].src)
                          \/ /\ t[n].src = t[n - 1].src
                             /\ t[n].text = t[n - 1].text
                             /\ t[n - 1].to <= t[n].from
                             /\ t[n - 1].to..(t[n].from - 1) \subseteq Spaces(t[n].text)
  <2>1. t \in Seq(Blocks)
    BY <1>3, <1>7, <1>8
  <2>2. n > 1 => n - 1 \in DOMAIN t
    BY <2>1
  <2>. QED  BY <1>9, <2>2 DEF ReadsAll
<1>. QED  BY <1>8, <1>10, <1>11, <1>12, <1>13, <1>14 DEF EveryTextIsIndexed

Kinds == Splittable \cup {"section_head", "equation", "list_item", "figure_caption", "table"}

(* A block as it is extracted: a whole text.                               *)
WholeBlock(b) ==
    /\ b \in Blocks /\ IsBlock(b) /\ b.overlap = FALSE
    /\ b.from = 0 /\ b.to = TextLen(b.text) /\ b.len = TextLen(b.text) /\ b.div = b.src[1]

LEMMA BlockOfIs ==
  ASSUME NEW src \in Triples, NEW kind \in Kinds, NEW text \in Seq(Lengths), NEW label \in Nat,
         src[1] \in 1..Len(body), NEW b, b = BlockOf(src, kind, text, label)
  PROVE  /\ b \in Blocks /\ b.src = src /\ b.kind = kind /\ b.text = text
         /\ HasText(b) <=> text # <<>>
         /\ HasText(b) => WholeBlock(b)
<1>2. TextLen(text) \in Nat /\ (text # <<>> => TextLen(text) > 0) /\ TextLen(<<>>) = 0
  BY SpacesAre DEF TextLen
<1>3. src[1] \in Nat /\ FALSE \in BOOLEAN /\ 0 \in Nat
  BY DEF Triples
<1>4. b = [src |-> src, kind |-> kind, text |-> text, from |-> 0, to |-> TextLen(text),
           len |-> TextLen(text), label |-> label, div |-> src[1], overlap |-> FALSE]
  BY DEF BlockOf
<1>5. b \in Blocks
  BY <1>2, <1>3, <1>4 DEF Blocks, Kinds
<1>6. /\ b.src = src /\ b.kind = kind /\ b.text = text /\ b.from = 0 /\ b.to = TextLen(text)
      /\ b.len = TextLen(text) /\ b.div = src[1] /\ b.overlap = FALSE
  BY <1>4
<1>7. HasText(b) <=> text # <<>>
  BY <1>2, <1>6 DEF HasText
<1>8. HasText(b) => WholeBlock(b)
  <2> SUFFICES ASSUME HasText(b) PROVE WholeBlock(b)
    OBVIOUS
  <2>1. b.overlap = FALSE /\ b.overlap \in BOOLEAN
    <3>1. \A c \in Blocks : c.overlap \in BOOLEAN
      BY DEF Blocks
    <3>. QED  BY <1>5, <1>6, <3>1
  <2>2. b.div \in 1..Len(body) /\ b.from < b.to /\ b.to <= TextLen(b.text) /\ 0 < b.len /\ 0 <= b.from
    BY <1>2, <1>6 DEF HasText
  <2>3. b.kind \in Kinds
    BY <1>6
  <2>4. IsBlock(b)
    BY <2>1, <2>2, <2>3 DEF IsBlock, Kinds
  <2>5. b.from = 0 /\ b.to = TextLen(b.text) /\ b.len = TextLen(b.text) /\ b.div = b.src[1]
    BY <1>6
  <2>. QED  BY <1>5, <2>1, <2>4, <2>5 DEF WholeBlock
<1>. QED  BY <1>5, <1>6, <1>7, <1>8

LEMMA KindIs ==
  ASSUME NEW d, NEW kid \in Kids
  PROVE  Kind(d, kid) \in Kinds \ {"section_head"}
<1>1. kid.tag \in Tags
  BY KidIs
<1>2. KindOfTag[kid.tag] \in Kinds \ {"section_head"}
  BY <1>1 DEF KindOfTag, Tags, Kinds, Splittable
<1>3. "reference" \in Kinds \ {"section_head"}
  BY DEF Kinds, Splittable
<1>. QED  BY <1>2, <1>3 DEF Kind

(* What the blocks of one div are.                                         *)
AreBlocksOf(r, d) ==
    /\ r \in Seq(Blocks)
    /\ \A j \in 1..Len(r) :
          /\ WholeBlock(r[j]) /\ r[j].div = d
          /\ IsHead(r[j]) => j = 1
          /\ ~ IsHead(r[j]) => r[j].src \in Sources /\ r[j].text = TextAt(r[j].src)
    /\ \A i, j \in 1..Len(r) : i < j => ComesBefore(r[i].src, r[j].src)
    /\ body[d].head # <<>> => Len(r) > 0 /\ IsHead(r[1])
    /\ \A src \in Sources : src[1] = d => \E j \in 1..Len(r) : ~ IsHead(r[j]) /\ r[j].src = src

LEMMA BlocksOfIs ==
  ASSUME body \in Bodies, NEW d \in 1..Len(body)
  PROVE  AreBlocksOf(BlocksOf(d), d)
<1> DEFINE kids == body[d].kids
           ts(k) == TextsOf(kids[k])
           blk(k, i) == BlockOf(<<d, k, i>>, Kind(d, kids[k]), ts(k)[i],
                                IF kids[k].tag = "formula" THEN TextLen(LabelText(kids[k])) ELSE 0)
           head == BlockOf(<<d, 0, 1>>, "section_head", Itertext(body[d].head), 0)
           f == [k \in DOMAIN kids |-> [i \in DOMAIN ts(k) |-> blk(k, i)]]
           r == BlocksOf(d)
<1>1. /\ d \in Nat /\ Len(body) \in Nat /\ Len(kids) \in Nat /\ DOMAIN kids = 1..Len(kids)
      /\ body[d].head \in Seq(Sentence)
      /\ \A k \in 1..Len(kids) :
            kids[k] \in Kids /\ (kids[k].tag = "formula" => Len(kids[k].texts) >= 2)
  <2>1. \A k \in 1..Len(kids) : kids[k].tag = "formula" => Len(kids[k].texts) >= 2
    BY BodyIs
  <2>. QED  BY <2>1, BodyIs
<1>2. PICK F : F = FlattenSeq(f)
  OBVIOUS
<1>3. PICK all : all = <<head>> \o F
  OBVIOUS
<1>4. r = FlattenSeq([n \in DOMAIN all |-> IF HasText(all[n]) THEN <<all[n]>> ELSE <<>>])
  BY <1>2, <1>3 DEF BlocksOf, Filter
<1>5. ASSUME NEW k \in 1..Len(kids)
      PROVE  ts(k) \in Seq(Seq(Lengths)) /\ Len(ts(k)) \in Nat /\ DOMAIN ts(k) = 1..Len(ts(k))
  <2>1. ts(k) \in Seq(Seq(Lengths))
    BY TextsOfIs
  <2> HIDE DEF ts
  <2>. QED  BY <2>1
<1>6. ASSUME NEW k \in 1..Len(kids), NEW i \in 1..Len(ts(k))
      PROVE  /\ blk(k, i) \in Blocks /\ blk(k, i).src = <<d, k, i>> /\ blk(k, i).text = ts(k)[i]
             /\ blk(k, i).kind # "section_head"
             /\ HasText(blk(k, i)) <=> ts(k)[i] # <<>>
             /\ HasText(blk(k, i)) => WholeBlock(blk(k, i))
  <2>1. kids[k] \in Kids /\ (kids[k].tag = "formula" => Len(kids[k].texts) >= 2)
    BY <1>1
  <2> HIDE DEF kids
  <2>2. kids[k].tag = "formula" => TextLen(LabelText(kids[k])) \in Nat
    BY <2>1, FormulaIs, SpacesAre
  <2>3. Kind(d, kids[k]) \in Kinds /\ Kind(d, kids[k]) # "section_head"
    BY <2>1, KindIs
  <2>4. ts(k)[i] \in Seq(Lengths)
    BY <1>5
  <2>5. <<d, k, i>> \in Triples
    BY <1>1, <1>5 DEF Triples
  <2>6. (IF kids[k].tag = "formula" THEN TextLen(LabelText(kids[k])) ELSE 0) \in Nat
    BY <2>2
  <2>7. <<d, k, i>>[1] \in 1..Len(body)
    OBVIOUS
  <2> HIDE DEF ts
  <2>8. PICK kind : kind = Kind(d, kids[k])
    OBVIOUS
  <2>9. PICK label : label = IF kids[k].tag = "formula" THEN TextLen(LabelText(kids[k])) ELSE 0
    OBVIOUS
  <2>10. PICK src, text, b : src = <<d, k, i>> /\ text = ts(k)[i] /\ b = blk(k, i)
    OBVIOUS
  <2>11. b = BlockOf(src, kind, text, label)
    BY <2>8, <2>9, <2>10
  <2>12. kind \in Kinds /\ kind # "section_head" /\ label \in Nat
    BY <2>3, <2>6, <2>8, <2>9
  <2>13. src \in Triples /\ src[1] \in 1..Len(body) /\ text \in Seq(Lengths)
    BY <2>4, <2>5, <2>7, <2>10
  <2> HIDE DEF blk
  <2>14. /\ b \in Blocks /\ b.src = src /\ b.kind = kind /\ b.text = text
         /\ HasText(b) <=> text # <<>>
         /\ HasText(b) => WholeBlock(b)
    BY <2>11, <2>12, <2>13, BlockOfIs
  <2>. QED  BY <2>10, <2>12, <2>14
<1>7. /\ head \in Blocks /\ head.src = <<d, 0, 1>> /\ IsHead(head)
      /\ HasText(head) => WholeBlock(head)
      /\ body[d].head # <<>> => HasText(head)
  <2>1. Itertext(body[d].head) \in Seq(Lengths)
        /\ (body[d].head # <<>> => Itertext(body[d].head) # <<>>)
    BY <1>1, FlattenedIs
  <2>2. <<d, 0, 1>> \in Triples /\ <<d, 0, 1>>[1] \in 1..Len(body) /\ "section_head" \in Kinds /\ 0 \in Nat
    BY <1>1 DEF Triples, Kinds
  <2>3. PICK src, text, kind, label, b :
          src = <<d, 0, 1>> /\ text = Itertext(body[d].head) /\ kind = "section_head" /\ label = 0 /\ b = head
    OBVIOUS
  <2>4. b = BlockOf(src, kind, text, label)
    BY <2>3
  <2>5. /\ src \in Triples /\ src[1] \in 1..Len(body) /\ text \in Seq(Lengths)
        /\ kind \in Kinds /\ label \in Nat
    BY <2>1, <2>2, <2>3
  <2> HIDE DEF head
  <2>6. /\ b \in Blocks /\ b.src = src /\ b.kind = kind
        /\ HasText(b) <=> text # <<>>
        /\ HasText(b) => WholeBlock(b)
    BY <2>4, <2>5, BlockOfIs
  <2>. QED  BY <2>1, <2>3, <2>6 DEF IsHead
<1> HIDE DEF blk, head, kids, r
<1>8. f \in Seq(Seq(Blocks)) /\ Len(f) = Len(kids)
      /\ \A k \in 1..Len(kids) : Len(f[k]) = Len(ts(k)) /\ \A i \in 1..Len(ts(k)) : f[k][i] = blk(k, i)
  <2> HIDE DEF ts
  <2>1. ASSUME NEW k \in 1..Len(kids) PROVE [i \in DOMAIN ts(k) |-> blk(k, i)] \in Seq(Blocks)
    <3>1. \A i \in 1..Len(ts(k)) : blk(k, i) \in Blocks
      BY <1>6
    <3>2. Len(ts(k)) \in Nat /\ DOMAIN ts(k) = 1..Len(ts(k))
      BY <1>5
    <3>. QED  BY <3>1, <3>2
  <2>2. \A k \in 1..Len(kids) : /\ f[k] = [i \in DOMAIN ts(k) |-> blk(k, i)]
                                /\ Len(f[k]) = Len(ts(k)) /\ \A i \in 1..Len(ts(k)) : f[k][i] = blk(k, i)
    BY <1>1, <1>5
  <2>. QED  BY <1>1, <2>1, <2>2
<1> HIDE DEF f, ts
<1>9. F \in Seq(Blocks) /\ \E g, p : IsLayout(f, Len(kids), F, g, p)
  BY <1>2, <1>8, FlattenIs
<1>10. PICK g, p : IsLayout(f, Len(kids), F, g, p)
  BY <1>9
<1>11. \A j \in 1..Len(F) : g[j] \in 1..Len(kids) /\ p[j] \in 1..Len(ts(g[j])) /\ F[j] = blk(g[j], p[j])
  <2> TAKE j \in 1..Len(F)
  <2>1. PICK k, i : k = g[j] /\ i = p[j]
    OBVIOUS
  <2>2. k \in 1..Len(kids) /\ i \in 1..Len(f[k]) /\ F[j] = f[k][i]
    BY <1>10, <2>1 DEF IsLayout
  <2>3. i \in 1..Len(ts(k)) /\ f[k][i] = blk(k, i)
    BY <1>8, <2>2
  <2>. QED  BY <2>1, <2>2, <2>3
<1>12. /\ Len(F) \in Nat /\ all \in Seq(Blocks) /\ Len(all) = Len(F) + 1 /\ DOMAIN all = 1..Len(all)
       /\ all[1] = head /\ \A j \in 1..Len(F) : all[j + 1] = F[j]
  BY <1>3, <1>7, <1>9
<1>13. \A n \in 1..Len(all) : n = 1 \/ (n - 1 \in 1..Len(F) /\ all[n] = F[n - 1])
  <2> TAKE n \in 1..Len(all)
  <2>1. CASE n # 1
    <3>1. n - 1 \in 1..Len(F) /\ (n - 1) + 1 = n
      BY <1>12, <2>1
    <3>. QED  BY <1>12, <3>1
  <2>. QED  BY <2>1
<1>14. ASSUME NEW n \in 1..Len(all), n # 1
       PROVE  /\ g[n - 1] \in 1..Len(kids) /\ p[n - 1] \in 1..Len(ts(g[n - 1]))
              /\ all[n].src = <<d, g[n - 1], p[n - 1]>> /\ ~ IsHead(all[n])
              /\ all[n].text = ts(g[n - 1])[p[n - 1]]
              /\ HasText(all[n]) <=> ts(g[n - 1])[p[n - 1]] # <<>>
  <2>1. all[n] = blk(g[n - 1], p[n - 1]) /\ g[n - 1] \in 1..Len(kids) /\ p[n - 1] \in 1..Len(ts(g[n - 1]))
    BY <1>11, <1>13, <1>14
  <2>2. PICK k, i : k = g[n - 1] /\ i = p[n - 1]
    OBVIOUS
  <2>3. k \in 1..Len(kids) /\ i \in 1..Len(ts(k)) /\ all[n] = blk(k, i)
    BY <2>1, <2>2
  <2>. QED  BY <1>6, <2>2, <2>3 DEF IsHead
<1>15. \A n \in 1..Len(all) : HasText(all[n]) => WholeBlock(all[n])
  <2> TAKE n \in 1..Len(all)
  <2>1. CASE n = 1
    BY <1>7, <1>12, <2>1
  <2>2. CASE n # 1
    <3>1. all[n] = blk(g[n - 1], p[n - 1]) /\ g[n - 1] \in 1..Len(kids) /\ p[n - 1] \in 1..Len(ts(g[n - 1]))
      BY <1>11, <1>13, <2>2
    <3>2. PICK k, i : k = g[n - 1] /\ i = p[n - 1]
      OBVIOUS
    <3>3. k \in 1..Len(kids) /\ i \in 1..Len(ts(k)) /\ all[n] = blk(k, i)
      BY <3>1, <3>2
    <3>. QED  BY <1>6, <3>3
  <2>. QED  BY <2>1, <2>2
<1>16. \A n, m \in 1..Len(all) : n < m => ComesBefore(all[n].src, all[m].src)
  <2> SUFFICES ASSUME NEW n \in 1..Len(all), NEW m \in 1..Len(all), n < m
               PROVE  ComesBefore(all[n].src, all[m].src)
    OBVIOUS
  <2>0. m # 1 /\ Len(all) \in Nat
    BY <1>12
  <2>1. all[m].src = <<d, g[m - 1], p[m - 1]>> /\ g[m - 1] \in 1..Len(kids)
    BY <1>14, <2>0
  <2>2. CASE n = 1
    <3>1. all[n].src = <<d, 0, 1>>
      BY <1>7, <1>12, <2>2
    <3>2. 0 < g[m - 1]
      BY <1>1, <2>1
    <3>. QED  BY <2>1, <3>1, <3>2 DEF ComesBefore
  <2>3. CASE n # 1
    <3>1. all[n].src = <<d, g[n - 1], p[n - 1]>>
      BY <1>14, <2>3
    <3>2. n - 1 \in 1..Len(F) /\ m - 1 \in 1..Len(F) /\ n - 1 < m - 1
      BY <1>12, <2>0, <2>3
    <3>3. g[n - 1] < g[m - 1] \/ (g[n - 1] = g[m - 1] /\ p[n - 1] < p[m - 1])
      BY <1>10, <3>2 DEF IsLayout
    <3>. QED  BY <2>1, <3>1, <3>3 DEF ComesBefore
  <2>. QED  BY <2>2, <2>3
<1> DEFINE keep == [n \in 1..Len(all) |-> HasText(all[n])]
<1>17. keep \in [1..Len(all) -> BOOLEAN]
       /\ \A n \in 1..Len(all) : keep[n] = HasText(all[n])
  BY DEF HasText
<1> HIDE DEF keep
<1>18. r = FlattenSeq([n \in DOMAIN all |-> IF keep[n] THEN <<all[n]>> ELSE <<>>])
  BY <1>4, <1>12, <1>17
<1>19. r \in Seq(Blocks) /\ \E at : IsChoice(all, keep, r, at)
  BY <1>12, <1>17, <1>18, ChoiceIs
<1>20. PICK at : IsChoice(all, keep, r, at)
  BY <1>19
<1>21. \A j \in 1..Len(r) : at[j] \in 1..Len(all) /\ HasText(all[at[j]]) /\ r[j] = all[at[j]]
  BY <1>17, <1>20 DEF IsChoice
<1>22. \A i, j \in 1..Len(r) : i < j => at[i] < at[j]
  BY <1>20 DEF IsChoice
<1>23. \A n \in 1..Len(all) : HasText(all[n]) => \E j \in 1..Len(r) : at[j] = n
  BY <1>17, <1>20 DEF IsChoice
<1>24. Len(r) \in Nat /\ \A j \in 1..Len(r) : at[j] = 1 => j = 1
  <2>1. Len(r) \in Nat
    BY <1>19
  <2>2. ASSUME NEW j \in 1..Len(r), at[j] = 1, j # 1 PROVE FALSE
    <3>1. 1 \in 1..Len(r) /\ 1 < j
      BY <2>1, <2>2
    <3>2. at[1] < 1 /\ at[1] \in 1..Len(all)
      BY <1>21, <1>22, <2>2, <3>1
    <3>. QED  BY <1>12, <3>2
  <2>. QED  BY <2>1, <2>2
<1>25. \A j \in 1..Len(r) : at[j] = 1 <=> IsHead(r[j])
  BY <1>7, <1>12, <1>14, <1>21
<1>26. ASSUME NEW n \in 1..Len(all), n # 1, HasText(all[n])
       PROVE  all[n].src \in Sources /\ all[n].text = TextAt(all[n].src)
  <2>1. PICK k, i : k = g[n - 1] /\ i = p[n - 1]
    OBVIOUS
  <2>2. /\ k \in 1..Len(kids) /\ i \in 1..Len(ts(k)) /\ all[n].src = <<d, k, i>>
        /\ all[n].text = ts(k)[i] /\ ts(k)[i] # <<>>
    BY <1>14, <1>26, <2>1
  <2>3. <<d, k, i>> \in Sources
    BY <2>2, SourcesAre DEF ts, kids
  <2>4. TextAt(<<d, k, i>>) = ts(k)[i]
    BY DEF TextAt, ts, kids
  <2>. QED  BY <2>2, <2>3, <2>4
<1>27. ASSUME NEW j \in 1..Len(r)
       PROVE  /\ WholeBlock(r[j]) /\ r[j].div = d
              /\ IsHead(r[j]) => j = 1
              /\ ~ IsHead(r[j]) => r[j].src \in Sources /\ r[j].text = TextAt(r[j].src)
  <2>1. WholeBlock(r[j])
    BY <1>15, <1>21
  <2>2. r[j].div = r[j].src[1]
    BY <2>1 DEF WholeBlock
  <2>3. r[j].src[1] = d
    <3>1. CASE at[j] = 1
      BY <1>7, <1>12, <1>21, <3>1
    <3>2. CASE at[j] # 1
      <4>1. PICK n : n = at[j]
        OBVIOUS
      <4>2. n \in 1..Len(all) /\ n # 1 /\ r[j] = all[n]
        BY <1>21, <3>2, <4>1
      <4>3. all[n].src = <<d, g[n - 1], p[n - 1]>>
        BY <1>14, <4>2
      <4>. QED  BY <4>2, <4>3
    <3>. QED  BY <3>1, <3>2
  <2>. QED  BY <1>21, <1>24, <1>25, <1>26, <2>1, <2>2, <2>3
<1>28. \A i, j \in 1..Len(r) : i < j => ComesBefore(r[i].src, r[j].src)
  BY <1>16, <1>21, <1>22
<1>29. body[d].head # <<>> => Len(r) > 0 /\ IsHead(r[1])
  <2> SUFFICES ASSUME body[d].head # <<>> PROVE Len(r) > 0 /\ IsHead(r[1])
    OBVIOUS
  <2>1. HasText(all[1]) /\ 1 \in 1..Len(all)
    BY <1>7, <1>12
  <2>2. PICK j \in 1..Len(r) : at[j] = 1
    BY <1>23, <2>1
  <2>. QED  BY <1>24, <1>25, <2>2
<1>30. ASSUME NEW src \in Sources, src[1] = d
       PROVE  \E j \in 1..Len(r) : ~ IsHead(r[j]) /\ r[j].src = src
  <2>1. PICK d0, k, i : /\ d0 \in 1..Len(body) /\ k \in 1..Len(body[d0].kids)
                        /\ i \in 1..Len(TextsOf(body[d0].kids[k]))
                        /\ src = <<d0, k, i>> /\ TextsOf(body[d0].kids[k])[i] # <<>>
    BY SourcesAre
  <2>2. d0 = d
    BY <1>30, <2>1
  <2>3. k \in 1..Len(kids) /\ i \in 1..Len(ts(k)) /\ ts(k)[i] # <<>> /\ src = <<d, k, i>>
    BY <2>1, <2>2 DEF ts, kids
  <2>4. i \in 1..Len(f[k])
    BY <1>8, <2>3
  <2>5. PICK j0 \in 1..Len(F) : g[j0] = k /\ p[j0] = i
    BY <1>10, <2>3, <2>4 DEF IsLayout
  <2>6. PICK n : n = j0 + 1
    OBVIOUS
  <2>7. n \in 1..Len(all) /\ n # 1 /\ n - 1 = j0
    BY <1>12, <2>6
  <2>8. HasText(all[n]) /\ all[n].src = src
    BY <1>14, <2>3, <2>5, <2>7
  <2>9. PICK j \in 1..Len(r) : at[j] = n
    BY <1>23, <2>7, <2>8
  <2>. QED  BY <1>21, <1>25, <2>7, <2>8, <2>9
<1>. QED  BY <1>19, <1>27, <1>28, <1>29, <1>30 DEF AreBlocksOf, r

-----------------------------------------------------------------------------
(* The pieces of a block. *)

(* What one piece of a text has of the block it comes from, and when it is *)
(* too long.                                                               *)
IsPieceOf(c, b) ==
    /\ c \in Blocks /\ IsBlock(c) /\ c.src = b.src /\ c.text = b.text /\ c.kind = b.kind
    /\ c.div = b.div /\ c.overlap = FALSE
    /\ Rendered(c) > MaxChars => c.kind \notin Splittable \/ IsInnerSentence(c)

(* The pieces follow each other from the first character of the text to    *)
(* its last, and only a space is lost between two.                         *)
ArePiecesOf(r, b) ==
    /\ r \in Seq(Blocks) /\ Len(r) > 0
    /\ \A q \in 1..Len(r) : IsPieceOf(r[q], b)
    /\ r[1].from = 0 /\ r[Len(r)].to = TextLen(b.text)
    /\ \A q \in 1..(Len(r) - 1) :
          /\ r[q].to <= r[q + 1].from
          /\ r[q].to..(r[q + 1].from - 1) \subseteq Spaces(b.text)
    /\ IsHead(b) => r = <<b>>

LEMMA PieceOfIs ==
  ASSUME NEW b \in Blocks, WholeBlock(b), b.kind \in Splittable, NEW s \in Nat, NEW e \in Nat,
         s < e, e <= TextLen(b.text), FitsOrInner(b.text, <<s, e>>),
         NEW c, c = PieceOf(b, <<s, e>>)
  PROVE  /\ c.from = s /\ c.to = e /\ c.len = StrippedLen(b.text, <<s, e>>)
         /\ c.len > 0 => IsPieceOf(c, b)
<1>1. /\ b.src \in Triples /\ b.kind \in Kinds /\ b.text \in Seq(Lengths) /\ b.label \in Nat
      /\ b.div \in Nat /\ b.overlap \in BOOLEAN
      /\ b = [src |-> b.src, kind |-> b.kind, text |-> b.text, from |-> b.from, to |-> b.to,
              len |-> b.len, label |-> b.label, div |-> b.div, overlap |-> b.overlap]
  BY DEF Blocks, Kinds
<1>2. PICK l : l = StrippedLen(b.text, <<s, e>>)
  OBVIOUS
<1>3. l \in Int
  BY <1>1, <1>2, StrippedIs
<1>4. c = [b EXCEPT !.from = s, !.to = e, !.len = l]
  BY <1>2 DEF PieceOf
<1>5. /\ c.from = s /\ c.to = e /\ c.len = l /\ c.src = b.src /\ c.kind = b.kind
      /\ c.text = b.text /\ c.label = b.label /\ c.div = b.div /\ c.overlap = b.overlap
  BY <1>4 DEF Blocks
<1>6. ASSUME l > 0 PROVE c \in Blocks
  <2>1. l \in Nat
    BY <1>3, <1>6
  <2>. QED  BY <1>4, <2>1 DEF Blocks
<1>7. ASSUME l > 0 PROVE IsBlock(c)
  <2>1. b.div \in 1..Len(body)
    BY DEF WholeBlock, IsBlock
  <2>2. c.div \in 1..Len(body) /\ c.overlap \in BOOLEAN /\ c.kind \in Kinds
    BY <1>1, <1>5, <2>1
  <2>3. 0 <= c.from /\ c.from < c.to /\ c.to <= TextLen(c.text) /\ 0 < c.len
    BY <1>5, <1>7
  <2>. QED  BY <2>2, <2>3 DEF IsBlock, Kinds
<1>8. c.overlap = FALSE
  BY <1>5 DEF WholeBlock
<1>9. ASSUME l > 0, Rendered(c) > MaxChars PROVE IsInnerSentence(c)
  <2>1. Rendered(c) = l
    BY <1>5, <1>6, <1>9, RenderedIs
  <2>2. ~ (StrippedLen(b.text, <<s, e>>) <= MaxChars)
    BY <1>2, <1>3, <1>9, <2>1, DocumentAssumption
  <2>3. PICK n \in 2..(Len(b.text) - 1) : s = Ends(b.text, n - 1) + 1 /\ e = Ends(b.text, n) + 1
    BY <2>2 DEF FitsOrInner
  <2>4. /\ n - 1 # 0 /\ n # 0 /\ n \in Int
        /\ Ends(b.text, n - 1) = Sum(SubSeq(b.text, 1, n - 1)) + (n - 1) - 1
        /\ Ends(b.text, n) = Sum(SubSeq(b.text, 1, n)) + n - 1
    BY DEF Ends, First
  <2>5. Sum(SubSeq(b.text, 1, n - 1)) \in Int /\ Sum(SubSeq(b.text, 1, n)) \in Int
    <3>1. b.text \in Seq(Nat)
      BY <1>1 DEF Lengths
    <3>2. n - 1 \in 0..Len(b.text) /\ n \in 0..Len(b.text)
      BY <3>1
    <3>. QED  BY <3>1, <3>2, FirstIs DEF First
  <2>6. s = Sum(SubSeq(b.text, 1, n - 1)) + n - 1 /\ e = Sum(SubSeq(b.text, 1, n)) + n
    BY <2>3, <2>4, <2>5
  <2>. QED  BY <1>5, <2>6 DEF IsInnerSentence
<1>. QED  BY <1>2, <1>5, <1>6, <1>7, <1>8, <1>9 DEF IsPieceOf


LEMMA PiecesAre ==
  ASSUME NEW b \in Blocks, WholeBlock(b)
  PROVE  ArePiecesOf(Pieces(b), b)
<1>0. /\ b.text \in Seq(Lengths) /\ IsBlock(b) /\ b.overlap = FALSE
      /\ b.from = 0 /\ b.to = TextLen(b.text)
  BY DEF WholeBlock, Blocks
<1>1. CASE Rendered(b) <= MaxChars \/ b.kind \notin Splittable
  <2>1. Pieces(b) = <<b>>
    BY <1>1 DEF Pieces
  <2>2. IsPieceOf(b, b)
    <3>1. Rendered(b) > MaxChars => b.kind \notin Splittable
      BY <1>1, RenderedIs, DocumentAssumption
    <3>. QED  BY <1>0, <3>1 DEF IsPieceOf
  <2>3. <<b>> \in Seq(Blocks) /\ Len(<<b>>) = 1 /\ <<b>>[1] = b /\ 1..(1 - 1) = {}
    OBVIOUS
  <2>. QED  BY <1>0, <2>1, <2>2, <2>3 DEF ArePiecesOf
<1>2. CASE ~ (Rendered(b) <= MaxChars) /\ b.kind \in Splittable
  <2> DEFINE T == TextLen(b.text)
             pcs == [n \in DOMAIN Spans(b.text) |-> PieceOf(b, Spans(b.text)[n])]
             S == {PieceOf(b, Spans(b.text)[n]) : n \in DOMAIN Spans(b.text)}
             keep == [n \in 1..Len(pcs) |-> HasText(pcs[n])]
  <2>1. PICK spans : spans = Spans(b.text)
    OBVIOUS
  <2>2. /\ IsTiling(spans, 0, T) /\ \A i \in 1..Len(spans) : FitsOrInner(b.text, spans[i])
        /\ T \in Nat /\ T > 0
    BY <1>0, <2>1, SpansAre, SpacesAre DEF IsBlock
  <2> DEFINE k == Len(spans)
  <2>3. /\ spans \in Seq(Pairs) /\ k \in Nat /\ k > 0 /\ DOMAIN spans = 1..k
        /\ spans[1][1] = 0 /\ spans[k][2] = T
        /\ \A i \in 1..k : spans[i][1] < spans[i][2]
        /\ \A i \in 1..(k - 1) : spans[i + 1][1] = spans[i][2]
    <3>1. spans \in Seq(Pairs) /\ k \in Nat /\ DOMAIN spans = 1..k
      BY <2>2 DEF IsTiling
    <3>2. spans # <<>>
      BY <2>2 DEF IsTiling
    <3>3. k > 0
      BY <3>1, <3>2
    <3>4. 1 \in 1..k /\ k \in 1..k /\ \A i \in 1..(k - 1) : i \in 1..k /\ i < k
      BY <3>1, <3>3
    <3>5. \A i \in 1..k : /\ spans[i][1] < spans[i][2]
                          /\ i = 1 => spans[i][1] = 0
                          /\ i = k => spans[i][2] = T
                          /\ i < k => spans[i + 1][1] = spans[i][2]
      BY <2>2 DEF IsTiling
    <3> HIDE DEF k
    <3>. QED  BY <3>1, <3>3, <3>4, <3>5
  <2> HIDE DEF k
  <2>4. \A i \in 1..k : /\ spans[i][1] \in Nat /\ spans[i][2] \in Nat
                        /\ spans[i] = <<spans[i][1], spans[i][2]>> /\ spans[i][2] <= T
    BY <2>2, TilingInside DEF k
  <2> HIDE DEF T
  <2>5. ASSUME NEW n \in 1..k
        PROVE  /\ pcs[n].from = spans[n][1] /\ pcs[n].to = spans[n][2]
               /\ HasText(pcs[n]) => IsPieceOf(pcs[n], b)
               /\ ~ HasText(pcs[n]) => spans[n][2] = spans[n][1] + 1 /\ spans[n][1] \in Spaces(b.text)
    <3>1. PICK s, e : s = spans[n][1] /\ e = spans[n][2]
      OBVIOUS
    <3>2. s \in Nat /\ e \in Nat /\ s < e /\ e <= TextLen(b.text) /\ spans[n] = <<s, e>>
      BY <2>3, <2>4, <3>1 DEF T
    <3>3. PICK c : c = PieceOf(b, <<s, e>>)
      OBVIOUS
    <3>4. FitsOrInner(b.text, <<s, e>>)
      BY <2>2, <3>2 DEF k
    <3>5. /\ c.from = s /\ c.to = e /\ c.len = StrippedLen(b.text, <<s, e>>)
          /\ c.len > 0 => IsPieceOf(c, b)
      BY <1>2, <3>2, <3>3, <3>4, PieceOfIs
    <3>6. pcs[n] = c
      BY <2>1, <2>3, <3>2, <3>3
    <3>7. c.len \in Int /\ (c.len <= 0 => e = s + 1 /\ s \in Spaces(b.text))
      <4>1. PICK l : l = StrippedLen(b.text, <<s, e>>)
        OBVIOUS
      <4>2. l \in Int /\ (l <= 0 => e = s + 1 /\ s \in Spaces(b.text))
        BY <1>0, <3>2, <4>1, StrippedIs
      <4>3. c.len = l
        BY <3>5, <4>1
      <4>. QED  BY <4>2, <4>3
    <3>. QED  BY <3>1, <3>5, <3>6, <3>7 DEF HasText
  <2>6. Len(pcs) = k /\ DOMAIN pcs = 1..k /\ pcs \in Seq(S) /\ keep \in [1..k -> BOOLEAN]
        /\ \A n \in 1..k : keep[n] = HasText(pcs[n])
    BY <2>1, <2>3 DEF HasText
  <2>7. PICK r : r = Pieces(b)
    OBVIOUS
  <2>8. r = FlattenSeq([n \in DOMAIN pcs |-> IF HasText(pcs[n]) THEN <<pcs[n]>> ELSE <<>>])
    BY <1>2, <2>7 DEF Pieces, Filter
  <2> HIDE DEF pcs, keep, S
  <2>9. r = FlattenSeq([n \in DOMAIN pcs |-> IF keep[n] THEN <<pcs[n]>> ELSE <<>>])
    BY <2>6, <2>8
  <2>10. r \in Seq(S) /\ \E at : IsChoice(pcs, keep, r, at)
    BY <2>6, <2>9, ChoiceIs
  <2>11. PICK at : IsChoice(pcs, keep, r, at)
    BY <2>10
  <2>12. \A j \in 1..Len(r) : /\ at[j] \in 1..k /\ HasText(pcs[at[j]]) /\ r[j] = pcs[at[j]]
                              /\ IsPieceOf(r[j], b)
                              /\ r[j].from = spans[at[j]][1] /\ r[j].to = spans[at[j]][2]
    BY <2>5, <2>6, <2>11 DEF IsChoice
  <2>13. Len(r) \in Nat /\ r \in Seq(Blocks)
    <3>1. Len(r) \in Nat /\ DOMAIN r = 1..Len(r) /\ r = [j \in 1..Len(r) |-> r[j]]
      BY <2>10
    <3>2. \A j \in 1..Len(r) : r[j] \in Blocks
      BY <2>12 DEF IsPieceOf
    <3>. QED  BY <3>1, <3>2
  <2>14. /\ \A x \in Spaces(b.text) : x \in Nat /\ x > 0 /\ x + 1 < T /\ x + 1 \notin Spaces(b.text)
    BY <1>0, SpacesAre DEF T
  <2>15. keep[1] /\ keep[k]
    <3>1. 1 \in 1..k /\ k \in 1..k
      BY <2>3
    <3>2. HasText(pcs[1])
      BY <2>3, <2>5, <2>14, <3>1
    <3>3. HasText(pcs[k])
      <4>1. ~ HasText(pcs[k]) => T = spans[k][1] + 1 /\ spans[k][1] + 1 < T
        BY <2>3, <2>5, <2>14, <3>1
      <4>. QED  BY <2>2, <4>1
    <3>. QED  BY <2>6, <3>1, <3>2, <3>3
  <2>16. Len(r) > 0 /\ at[1] = 1 /\ at[Len(r)] = k
    BY <2>3, <2>6, <2>11, <2>13, <2>15, ChoiceNext
  <2>17. r[1].from = 0 /\ r[Len(r)].to = T
    BY <2>3, <2>12, <2>13, <2>16
  <2>18. ASSUME NEW q \in 1..(Len(r) - 1)
         PROVE  r[q].to <= r[q + 1].from /\ r[q].to..(r[q + 1].from - 1) \subseteq Spaces(b.text)
    <3>1. PICK x, y : x = at[q] /\ y = at[q + 1]
      OBVIOUS
    <3>2. x \in 1..k /\ y \in 1..k /\ x < y /\ \A n \in 1..k : x < n /\ n < y => ~ HasText(pcs[n])
      BY <2>6, <2>11, <2>13, <2>3, <3>1, ChoiceNext
    <3>3. r[q].to = spans[x][2] /\ r[q + 1].from = spans[y][1]
      <4>1. q \in 1..Len(r) /\ q + 1 \in 1..Len(r)
        BY <2>13
      <4>. QED  BY <2>12, <3>1, <4>1
    <3>4. CASE y = x + 1
      <4>1. x \in 1..(k - 1)
        BY <2>3, <3>2, <3>4
      <4>2. spans[y][1] = spans[x][2] /\ spans[x][2] \in Nat
        BY <2>3, <2>4, <3>2, <3>4, <4>1
      <4>3. \A z \in Nat : z <= z /\ z..(z - 1) = {}
        OBVIOUS
      <4>. QED  BY <3>3, <4>2, <4>3
    <3>5. CASE y = x + 2
      <4>1. x \in 1..(k - 1) /\ x + 1 \in 1..(k - 1) /\ x + 1 \in 1..k /\ x < x + 1 /\ x + 1 < y
            /\ (x + 1) + 1 = y
        BY <2>3, <3>2, <3>5
      <4>2. spans[x + 1][2] = spans[x + 1][1] + 1 /\ spans[x + 1][1] \in Spaces(b.text)
        BY <2>5, <3>2, <4>1
      <4>3. PICK z : z = spans[x + 1][1]
        OBVIOUS
      <4>4. z \in Nat /\ spans[x][2] = z /\ spans[y][1] = z + 1 /\ z \in Spaces(b.text)
        BY <2>3, <2>4, <4>1, <4>2, <4>3
      <4>5. z <= z + 1 /\ z..((z + 1) - 1) = {z}
        BY <4>4
      <4>. QED  BY <3>3, <4>4, <4>5
    <3>6. CASE y # x + 1 /\ y # x + 2
      <4>1. /\ x + 1 \in 1..k /\ x + 2 \in 1..k /\ x < x + 1 /\ x + 1 < y /\ x < x + 2 /\ x + 2 < y
            /\ x + 1 \in 1..(k - 1) /\ (x + 1) + 1 = x + 2
        <5>1. x \in Nat /\ y \in Nat /\ k \in Nat /\ x < y /\ y <= k /\ x >= 1
          BY <2>3, <3>2
        <5>. QED  BY <3>6, <5>1
      <4>2. /\ spans[x + 1][2] = spans[x + 1][1] + 1 /\ spans[x + 1][1] \in Spaces(b.text)
            /\ spans[x + 2][1] \in Spaces(b.text)
        BY <2>5, <3>2, <4>1
      <4>3. spans[x + 2][1] = spans[x + 1][2]
        BY <2>3, <4>1
      <4>. QED  BY <2>14, <4>2, <4>3
    <3>. QED  BY <3>4, <3>5, <3>6
  <2>19. ~ IsHead(b)
    BY <1>2 DEF IsHead, Splittable
  <2>20. ArePiecesOf(r, b)
    BY <2>12, <2>13, <2>16, <2>17, <2>18, <2>19 DEF ArePiecesOf, T
  <2>. QED  BY <2>7, <2>20
<1>. QED  BY <1>1, <1>2


-----------------------------------------------------------------------------
(* The list of blocks before it is split. *)

(* What is extracted is one block after the other in the order of the      *)
(* paper, and everything there is to read.                                 *)
AreExtracted(s) ==
    /\ s \in Seq(Blocks)
    /\ \A j \in 1..Len(s) :
          /\ WholeBlock(s[j])
          /\ IsHead(s[j]) => s[j] = BlocksOf(s[j].div)[1]
          /\ ~ IsHead(s[j]) => s[j].src \in Sources /\ s[j].text = TextAt(s[j].src)
          /\ body[s[j].div].head # <<>> =>
                \E i \in 1..j : IsHead(s[i]) /\ s[i].div = s[j].div
    /\ \A i, j \in 1..Len(s) : i < j =>
          /\ ComesBefore(s[i].src, s[j].src) /\ s[i].div <= s[j].div
          /\ IsHead(s[j]) => s[i].div < s[j].div

HasEverySource(s) ==
    \A src \in Sources : \E j \in 1..Len(s) : ~ IsHead(s[j]) /\ s[j].src = src

(* The blocks of the first n divs.                                         *)
BlocksUpTo(n) == FlattenSeq([d \in 1..n |-> BlocksOf(d)])

LEMMA ExtractedAre ==
  ASSUME body \in Bodies, NEW n \in 0..Len(body), NEW s, s = BlocksUpTo(n)
  PROVE  AreExtracted(s) /\ (n = Len(body) => HasEverySource(s))
<1> DEFINE f == [d \in 1..n |-> BlocksOf(d)]
<1>1. n \in Nat /\ Len(body) \in Nat /\ \A d \in 1..n : d \in 1..Len(body)
  BY BodyIs
<1>2. \A d \in 1..n : f[d] = BlocksOf(d) /\ AreBlocksOf(f[d], d)
  BY <1>1, BlocksOfIs
<1>3. f \in Seq(Seq(Blocks)) /\ Len(f) = n
  <2>1. \A d \in 1..n : f[d] \in Seq(Blocks)
    BY <1>2 DEF AreBlocksOf
  <2>. QED  BY <1>1, <2>1
<1> HIDE DEF f
<1>4. s = FlattenSeq(f)
  BY DEF f, BlocksUpTo
<1>5. s \in Seq(Blocks) /\ \E g, p : IsLayout(f, n, s, g, p)
  BY <1>3, <1>4, FlattenIs
<1>6. PICK g, p : IsLayout(f, n, s, g, p)
  BY <1>5
<1>7. \A j \in 1..Len(s) : g[j] \in 1..n /\ p[j] \in 1..Len(f[g[j]]) /\ s[j] = f[g[j]][p[j]]
  BY <1>6 DEF IsLayout
<1>8. Len(s) \in Nat /\ \A d \in 1..n : Len(f[d]) \in Nat
  BY <1>2, <1>5 DEF AreBlocksOf
<1>9. ASSUME NEW j \in 1..Len(s)
      PROVE  /\ WholeBlock(s[j]) /\ s[j].div = g[j] /\ s[j].src[1] = g[j] /\ g[j] \in Nat
             /\ IsHead(s[j]) => p[j] = 1
             /\ ~ IsHead(s[j]) => s[j].src \in Sources /\ s[j].text = TextAt(s[j].src)
  <2>1. PICK d, i : d = g[j] /\ i = p[j]
    OBVIOUS
  <2>2. d \in 1..n /\ i \in 1..Len(f[d]) /\ s[j] = f[d][i] /\ AreBlocksOf(f[d], d)
    BY <1>2, <1>7, <2>1
  <2>3. /\ WholeBlock(s[j]) /\ s[j].div = d
        /\ IsHead(s[j]) => i = 1
        /\ ~ IsHead(s[j]) => s[j].src \in Sources /\ s[j].text = TextAt(s[j].src)
    BY <2>2 DEF AreBlocksOf
  <2>4. s[j].div = s[j].src[1]
    BY <2>3 DEF WholeBlock
  <2>5. d \in Nat
    BY <2>2
  <2>6. s[j].src[1] = g[j] /\ s[j].div = g[j] /\ g[j] \in Nat
    BY <2>1, <2>3, <2>4, <2>5
  <2>7. IsHead(s[j]) => p[j] = 1
    BY <2>1, <2>3
  <2>. QED  BY <2>3, <2>6, <2>7
<1>10. ASSUME NEW j \in 1..Len(s), IsHead(s[j])
       PROVE  s[j] = BlocksOf(s[j].div)[1]
  <2>1. g[j] \in 1..n /\ s[j] = f[g[j]][1] /\ s[j].div = g[j]
    BY <1>7, <1>9, <1>10
  <2>. QED  BY <1>2, <2>1
<1>11. ASSUME NEW j \in 1..Len(s), body[s[j].div].head # <<>>
       PROVE  \E i \in 1..j : IsHead(s[i]) /\ s[i].div = s[j].div
  <2>1. PICK d : d = g[j] /\ d \in 1..n /\ s[j].div = d
    BY <1>7, <1>9
  <2>2. Len(f[d]) > 0 /\ IsHead(f[d][1])
    BY <1>2, <1>11, <2>1 DEF AreBlocksOf
  <2>3. 1 \in 1..Len(f[d])
    BY <1>8, <2>1, <2>2
  <2>4. PICK i \in 1..Len(s) : g[i] = d /\ p[i] = 1
    BY <1>6, <2>1, <2>3 DEF IsLayout
  <2>5. IsHead(s[i]) /\ s[i].div = d
    BY <1>7, <1>9, <2>2, <2>4
  <2>6. ~ (j < i)
    <3> SUFFICES ASSUME j < i PROVE FALSE
      OBVIOUS
    <3>1. g[j] < g[i] \/ p[j] < p[i]
      BY <1>6 DEF IsLayout
    <3>2. p[j] \in 1..Len(f[d]) /\ g[j] = g[i] /\ g[j] \in Nat
      BY <1>7, <2>1, <2>4
    <3>. QED  BY <1>8, <2>1, <2>4, <3>1, <3>2
  <2>7. i \in 1..j
    BY <1>8, <2>6
  <2>. QED  BY <2>1, <2>5, <2>7
<1>12. ASSUME NEW i \in 1..Len(s), NEW j \in 1..Len(s), i < j
       PROVE  /\ ComesBefore(s[i].src, s[j].src) /\ s[i].div <= s[j].div
              /\ IsHead(s[j]) => s[i].div < s[j].div
  <2>1. g[i] < g[j] \/ (g[i] = g[j] /\ p[i] < p[j])
    BY <1>6, <1>12 DEF IsLayout
  <2>2. /\ s[i].div = g[i] /\ s[j].div = g[j] /\ s[i].src[1] = g[i] /\ s[j].src[1] = g[j]
        /\ g[i] \in Nat /\ g[j] \in Nat
    BY <1>9
  <2>3. CASE g[i] < g[j]
    BY <2>2, <2>3 DEF ComesBefore
  <2>4. CASE g[i] = g[j] /\ p[i] < p[j]
    <3>1. PICK d, k, m : d = g[i] /\ k = p[i] /\ m = p[j]
      OBVIOUS
    <3>2. /\ d \in 1..n /\ k \in 1..Len(f[d]) /\ m \in 1..Len(f[d]) /\ k < m
          /\ s[i] = f[d][k] /\ s[j] = f[d][m]
      BY <1>7, <2>4, <3>1
    <3>3. ComesBefore(s[i].src, s[j].src)
      <4>1. AreBlocksOf(f[d], d)
        BY <1>2, <3>2
      <4>2. \A a, b \in 1..Len(f[d]) : a < b => ComesBefore(f[d][a].src, f[d][b].src)
        BY <4>1 DEF AreBlocksOf
      <4>. QED  BY <3>2, <4>2
    <3>4. ~ IsHead(s[j])
      <4>1. m # 1
        BY <1>8, <3>2
      <4>. QED  BY <1>9, <3>1, <4>1
    <3>. QED  BY <2>2, <2>4, <3>3, <3>4
  <2>. QED  BY <2>1, <2>3, <2>4
<1>13. AreExtracted(s)
  BY <1>5, <1>9, <1>10, <1>11, <1>12 DEF AreExtracted
<1>14. ASSUME n = Len(body), NEW src \in Sources
       PROVE  \E j \in 1..Len(s) : ~ IsHead(s[j]) /\ s[j].src = src
  <2>1. PICK d, k, i : d \in 1..Len(body) /\ src = <<d, k, i>>
    BY SourcesAre
  <2>2. d \in 1..n /\ src[1] = d
    BY <1>14, <2>1
  <2>3. PICK m \in 1..Len(f[d]) : ~ IsHead(f[d][m]) /\ f[d][m].src = src
    BY <1>2, <2>2 DEF AreBlocksOf
  <2>4. \A a \in 1..n : \A q \in 1..Len(f[a]) : \E j \in 1..Len(s) : g[j] = a /\ p[j] = q
    BY <1>6 DEF IsLayout
  <2>5. d \in 1..n
    BY <2>2
  <2>6. PICK j \in 1..Len(s) : g[j] = d /\ p[j] = m
    BY Zenon, <2>4, <2>5
  <2>. QED  BY <1>7, <2>3, <2>6
<1>. QED  BY <1>13, <1>14 DEF HasEverySource


-----------------------------------------------------------------------------
(* The list of blocks after it is split. *)

(* Block j of r is piece p[j] of block g[j] of s.                          *)
IsSplit(s, r, g, p) ==
    /\ \A j \in 1..Len(r) :
          /\ g[j] \in 1..Len(s) /\ p[j] \in 1..Len(Pieces(s[g[j]]))
          /\ r[j] = Pieces(s[g[j]])[p[j]] /\ IsPieceOf(r[j], s[g[j]])
    /\ \A i, j \in 1..Len(r) : i < j => g[i] < g[j] \/ (g[i] = g[j] /\ p[i] < p[j])
    /\ \A n \in 1..Len(s) : \A q \in 1..Len(Pieces(s[n])) :
          \E j \in 1..Len(r) : g[j] = n /\ p[j] = q

LEMMA SplitIs ==
  ASSUME NEW s, AreExtracted(s), NEW r, r = FlattenSeq([n \in DOMAIN s |-> Pieces(s[n])])
  PROVE  /\ r \in Seq(Blocks)
         /\ \E g, p : IsSplit(s, r, g, p)
<1> DEFINE f == [n \in DOMAIN s |-> Pieces(s[n])]
<1>1. s \in Seq(Blocks) /\ Len(s) \in Nat /\ DOMAIN s = 1..Len(s)
  BY DEF AreExtracted
<1>2. ASSUME NEW n \in 1..Len(s) PROVE ArePiecesOf(Pieces(s[n]), s[n])
  <2>1. s[n] \in Blocks /\ WholeBlock(s[n])
    BY <1>1 DEF AreExtracted
  <2>. QED  BY <2>1, PiecesAre
<1>3. \A n \in 1..Len(s) : Pieces(s[n]) \in Seq(Blocks)
  BY <1>2 DEF ArePiecesOf
<1>4. f \in Seq(Seq(Blocks)) /\ Len(f) = Len(s) /\ \A n \in 1..Len(s) : f[n] = Pieces(s[n])
  BY <1>1, <1>3
<1> HIDE DEF f
<1>5. r = FlattenSeq(f)
  BY DEF f
<1>6. r \in Seq(Blocks) /\ \E g, p : IsLayout(f, Len(s), r, g, p)
  BY <1>4, <1>5, FlattenIs
<1>7. PICK g, p : IsLayout(f, Len(s), r, g, p)
  BY <1>6
<1>8. ASSUME NEW j \in 1..Len(r)
      PROVE  /\ g[j] \in 1..Len(s) /\ p[j] \in 1..Len(Pieces(s[g[j]]))
             /\ r[j] = Pieces(s[g[j]])[p[j]] /\ IsPieceOf(r[j], s[g[j]])
  <2>1. g[j] \in 1..Len(s) /\ p[j] \in 1..Len(f[g[j]]) /\ r[j] = f[g[j]][p[j]]
    BY <1>7 DEF IsLayout
  <2>2. p[j] \in 1..Len(Pieces(s[g[j]])) /\ r[j] = Pieces(s[g[j]])[p[j]]
    BY <1>4, <2>1
  <2>3. ArePiecesOf(Pieces(s[g[j]]), s[g[j]])
    BY <1>2, <2>1
  <2>. QED  BY <2>1, <2>2, <2>3 DEF ArePiecesOf
<1>9. \A i, j \in 1..Len(r) : i < j => g[i] < g[j] \/ (g[i] = g[j] /\ p[i] < p[j])
  BY <1>7 DEF IsLayout
<1>10. ASSUME NEW n \in 1..Len(s), NEW q \in 1..Len(Pieces(s[n]))
       PROVE  \E j \in 1..Len(r) : g[j] = n /\ p[j] = q
  <2>1. q \in 1..Len(f[n])
    BY <1>4
  <2>2. \A a \in 1..Len(s) : \A i \in 1..Len(f[a]) : \E j \in 1..Len(r) : g[j] = a /\ p[j] = i
    BY <1>7 DEF IsLayout
  <2>. QED  BY Zenon, <2>1, <2>2
<1>11. IsSplit(s, r, g, p)
  BY <1>8, <1>9, <1>10 DEF IsSplit
<1>. QED  BY <1>6, <1>11

(* The blocks are ready to be chunked: in order, headings first.           *)
AreReady(r) ==
    /\ \A j \in 1..Len(r) : ReadyBlock(r[j])
    /\ \A i, j \in 1..Len(r) : i < j =>
          r[i].div <= r[j].div /\ (IsHead(r[j]) => r[i].div < r[j].div)
    /\ \A i \in 1..Len(r) : body[r[i].div].head # <<>> =>
          \E j \in 1..i : IsHead(r[j]) /\ r[j].div = r[i].div

LEMMA SplitKeepsOrder ==
  ASSUME NEW s, AreExtracted(s), NEW r, r = FlattenSeq([n \in DOMAIN s |-> Pieces(s[n])])
  PROVE  AreReady(r)
<1>1. s \in Seq(Blocks) /\ Len(s) \in Nat /\ r \in Seq(Blocks) /\ Len(r) \in Nat
  BY SplitIs DEF AreExtracted
<1>0. PICK g, p : IsSplit(s, r, g, p)
  BY SplitIs
<1>2. /\ \A j \in 1..Len(r) :
            /\ g[j] \in 1..Len(s) /\ p[j] \in 1..Len(Pieces(s[g[j]]))
            /\ r[j] = Pieces(s[g[j]])[p[j]] /\ IsPieceOf(r[j], s[g[j]])
      /\ \A i, j \in 1..Len(r) : i < j => g[i] < g[j] \/ (g[i] = g[j] /\ p[i] < p[j])
      /\ \A n \in 1..Len(s) : \A q \in 1..Len(Pieces(s[n])) :
            \E j \in 1..Len(r) : g[j] = n /\ p[j] = q
  BY <1>0 DEF IsSplit
<1>3. ASSUME NEW n \in 1..Len(s)
      PROVE  ArePiecesOf(Pieces(s[n]), s[n]) /\ WholeBlock(s[n]) /\ s[n].div \in Nat
  <2>1. s[n] \in Blocks /\ WholeBlock(s[n])
    BY <1>1 DEF AreExtracted
  <2>2. \A c \in Blocks : c.div \in Nat
    BY DEF Blocks
  <2>. QED  BY <2>1, <2>2, PiecesAre
<1>4. ASSUME NEW j \in 1..Len(r)
      PROVE  /\ r[j].div = s[g[j]].div /\ r[j].src = s[g[j]].src
             /\ IsHead(r[j]) <=> IsHead(s[g[j]])
             /\ IsHead(r[j]) => r[j] = s[g[j]] /\ p[j] = 1
  <2>1. /\ g[j] \in 1..Len(s) /\ p[j] \in 1..Len(Pieces(s[g[j]]))
        /\ r[j] = Pieces(s[g[j]])[p[j]] /\ IsPieceOf(r[j], s[g[j]])
    BY <1>2
  <2>2. r[j].div = s[g[j]].div /\ r[j].kind = s[g[j]].kind /\ r[j].src = s[g[j]].src
    BY <2>1 DEF IsPieceOf
  <2>3. IsHead(s[g[j]]) => Pieces(s[g[j]]) = <<s[g[j]]>>
    BY <1>3, <2>1 DEF ArePiecesOf
  <2>4. ASSUME IsHead(s[g[j]]) PROVE r[j] = s[g[j]] /\ p[j] = 1
    BY <2>1, <2>3, <2>4
  <2>. QED  BY <2>2, <2>4 DEF IsHead
<1>5. ASSUME NEW j \in 1..Len(r) PROVE ReadyBlock(r[j])
  <2>1. IsPieceOf(r[j], s[g[j]]) /\ g[j] \in 1..Len(s)
    BY <1>2
  <2>2. ASSUME IsHead(r[j]) PROVE r[j] = BlocksOf(r[j].div)[1]
    <3>1. r[j] = s[g[j]] /\ IsHead(s[g[j]])
      BY <1>4, <2>2
    <3>2. s[g[j]] = BlocksOf(s[g[j]].div)[1]
      BY <2>1, <3>1 DEF AreExtracted
    <3>. QED  BY <3>1, <3>2
  <2>. QED  BY <2>1, <2>2 DEF ReadyBlock, IsPieceOf
<1>6. ASSUME NEW i \in 1..Len(r), NEW j \in 1..Len(r), i < j
      PROVE  r[i].div <= r[j].div /\ (IsHead(r[j]) => r[i].div < r[j].div)
  <2>1. g[i] \in 1..Len(s) /\ g[j] \in 1..Len(s) /\ p[i] \in 1..Len(Pieces(s[g[i]]))
        /\ (g[i] < g[j] \/ (g[i] = g[j] /\ p[i] < p[j]))
    BY <1>2, <1>6
  <2>2. CASE g[i] < g[j]
    <3>1. /\ s[g[i]].div <= s[g[j]].div
          /\ IsHead(s[g[j]]) => s[g[i]].div < s[g[j]].div
      BY <2>1, <2>2 DEF AreExtracted
    <3>. QED  BY <1>4, <3>1
  <2>3. CASE g[i] = g[j] /\ p[i] < p[j]
    <3>1. p[i] >= 1 /\ p[i] \in Int
      BY <2>1
    <3>2. ~ IsHead(r[j])
      <4>1. IsHead(r[j]) => p[j] = 1
        BY <1>4
      <4>. QED  BY <2>3, <3>1, <4>1
    <3>3. r[i].div = r[j].div /\ r[j].div \in Nat
      BY <1>3, <1>4, <2>1, <2>3
    <3>. QED  BY <3>2, <3>3
  <2>. QED  BY <2>1, <2>2, <2>3
<1>7. ASSUME NEW i \in 1..Len(r), body[r[i].div].head # <<>>
      PROVE  \E j \in 1..i : IsHead(r[j]) /\ r[j].div = r[i].div
  <2>1. g[i] \in 1..Len(s) /\ p[i] \in 1..Len(Pieces(s[g[i]]))
    BY <1>2
  <2>2. body[s[g[i]].div].head # <<>>
    BY <1>4, <1>7
  <2>3. PICK n \in 1..g[i] : IsHead(s[n]) /\ s[n].div = s[g[i]].div
    BY <2>1, <2>2 DEF AreExtracted
  <2>4. n \in 1..Len(s)
    BY <1>1, <2>1
  <2>5. 1 \in 1..Len(Pieces(s[n]))
    <3>1. Pieces(s[n]) = <<s[n]>>
      BY <1>3, <2>3, <2>4 DEF ArePiecesOf
    <3>. QED  BY <3>1
  <2>6. PICK j \in 1..Len(r) : g[j] = n /\ p[j] = 1
    BY Zenon, <1>2, <2>4, <2>5
  <2>7. IsHead(r[j]) /\ r[j].div = r[i].div
    BY <1>4, <2>3, <2>6
  <2>8. ~ (i < j)
    <3> SUFFICES ASSUME i < j PROVE FALSE
      OBVIOUS
    <3>1. g[i] < g[j] \/ (g[i] = g[j] /\ p[i] < p[j])
      BY <1>2
    <3>2. g[j] <= g[i] /\ g[i] \in Int /\ g[j] \in Int /\ p[i] \in Int /\ p[i] >= 1
      BY <2>1, <2>3, <2>6
    <3>. QED  BY <2>6, <3>1, <3>2
  <2>9. j \in 1..i
    BY <1>1, <2>8
  <2>. QED  BY <2>7, <2>9
<1>. QED  BY <1>5, <1>6, <1>7 DEF AreReady


(* Block n of t is piece w[n] of block c[n] of s, which is no heading, and *)
(* every piece of such a block is one.                                     *)
IsReading(s, t, c, w) ==
    /\ \A n \in 1..Len(t) :
          /\ c[n] \in 1..Len(s) /\ ~ IsHead(s[c[n]]) /\ w[n] \in 1..Len(Pieces(s[c[n]]))
          /\ t[n] = Pieces(s[c[n]])[w[n]] /\ IsPieceOf(t[n], s[c[n]])
    /\ \A n, m \in 1..Len(t) : n < m => c[n] < c[m] \/ (c[n] = c[m] /\ w[n] < w[m])
    /\ \A a \in 1..Len(s) : ~ IsHead(s[a]) =>
          \A q \in 1..Len(Pieces(s[a])) : \E n \in 1..Len(t) : c[n] = a /\ w[n] = q

LEMMA ReadingIs ==
  ASSUME NEW s, AreExtracted(s), NEW r, r = FlattenSeq([n \in DOMAIN s |-> Pieces(s[n])])
  PROVE  Texts(r) \in Seq(Blocks) /\ \E c, w : IsReading(s, Texts(r), c, w)
<1>1. r \in Seq(Blocks) /\ Len(r) \in Nat /\ DOMAIN r = 1..Len(r)
  BY SplitIs
<1>2. PICK g, p : IsSplit(s, r, g, p)
  BY SplitIs
<1> DEFINE keep == [n \in 1..Len(r) |-> ~ IsHead(r[n])]
<1>3. keep \in [1..Len(r) -> BOOLEAN] /\ \A n \in 1..Len(r) : keep[n] = ~ IsHead(r[n])
  BY DEF IsHead
<1> HIDE DEF keep
<1>4. PICK t : t = Texts(r)
  OBVIOUS
<1>5. t = FlattenSeq([n \in DOMAIN r |-> IF keep[n] THEN <<r[n]>> ELSE <<>>])
  BY <1>1, <1>3, <1>4 DEF Texts
<1>6. t \in Seq(Blocks) /\ \E at : IsChoice(r, keep, t, at)
  BY <1>1, <1>3, <1>5, ChoiceIs
<1>7. PICK at : IsChoice(r, keep, t, at)
  BY <1>6
<1>8. /\ \A j \in 1..Len(t) : at[j] \in 1..Len(r) /\ ~ IsHead(r[at[j]]) /\ t[j] = r[at[j]]
      /\ \A i, j \in 1..Len(t) : i < j => at[i] < at[j]
      /\ \A n \in 1..Len(r) : ~ IsHead(r[n]) => \E j \in 1..Len(t) : at[j] = n
  BY <1>3, <1>7 DEF IsChoice
<1> DEFINE c == [n \in 1..Len(t) |-> g[at[n]]]
           w == [n \in 1..Len(t) |-> p[at[n]]]
<1>9. \A n \in 1..Len(t) : c[n] = g[at[n]] /\ w[n] = p[at[n]]
  OBVIOUS
<1> HIDE DEF c, w
<1>10. ASSUME NEW n \in 1..Len(t)
       PROVE  /\ c[n] \in 1..Len(s) /\ ~ IsHead(s[c[n]]) /\ w[n] \in 1..Len(Pieces(s[c[n]]))
              /\ t[n] = Pieces(s[c[n]])[w[n]] /\ IsPieceOf(t[n], s[c[n]])
  <2>1. PICK j \in 1..Len(r) : j = at[n] /\ ~ IsHead(r[j]) /\ t[n] = r[j]
    BY <1>8
  <2>2. /\ g[j] \in 1..Len(s) /\ p[j] \in 1..Len(Pieces(s[g[j]]))
        /\ r[j] = Pieces(s[g[j]])[p[j]] /\ IsPieceOf(r[j], s[g[j]])
    BY <1>2 DEF IsSplit
  <2>3. c[n] = g[j] /\ w[n] = p[j]
    BY <1>9, <2>1
  <2>4. ~ IsHead(s[g[j]])
    BY <2>1, <2>2 DEF IsPieceOf, IsHead
  <2>. QED  BY <2>1, <2>2, <2>3, <2>4
<1>11. ASSUME NEW n \in 1..Len(t), NEW m \in 1..Len(t), n < m
       PROVE  c[n] < c[m] \/ (c[n] = c[m] /\ w[n] < w[m])
  <2>1. at[n] \in 1..Len(r) /\ at[m] \in 1..Len(r) /\ at[n] < at[m]
    BY <1>8, <1>11
  <2>2. g[at[n]] < g[at[m]] \/ (g[at[n]] = g[at[m]] /\ p[at[n]] < p[at[m]])
    BY <1>2, <2>1 DEF IsSplit
  <2>. QED  BY <1>9, <2>2
<1>12. ASSUME NEW a \in 1..Len(s), ~ IsHead(s[a]), NEW q \in 1..Len(Pieces(s[a]))
       PROVE  \E n \in 1..Len(t) : c[n] = a /\ w[n] = q
  <2>1. \A b \in 1..Len(s) : \A i \in 1..Len(Pieces(s[b])) : \E j \in 1..Len(r) : g[j] = b /\ p[j] = i
    BY <1>2 DEF IsSplit
  <2>2. PICK j \in 1..Len(r) : g[j] = a /\ p[j] = q
    BY Zenon, <2>1
  <2>3. IsPieceOf(r[j], s[a])
    BY <1>2, <2>2 DEF IsSplit
  <2>4. ~ IsHead(r[j])
    BY <1>12, <2>3 DEF IsPieceOf, IsHead
  <2>5. PICK n \in 1..Len(t) : at[n] = j
    BY <1>8, <2>4
  <2>. QED  BY <1>9, <2>2, <2>5
<1>13. IsReading(s, t, c, w)
  BY <1>10, <1>11, <1>12 DEF IsReading
<1>. QED  BY <1>4, <1>6, <1>13

(* The texts are read from their first character to their last.            *)
LEMMA SplitReadsAll ==
  ASSUME NEW s, AreExtracted(s), NEW r, r = FlattenSeq([n \in DOMAIN s |-> Pieces(s[n])]),
         HasEverySource(s)
  PROVE  ReadsAll(Texts(r))
<1>1. PICK t : t = Texts(r)
  OBVIOUS
<1>2. t \in Seq(Blocks) /\ \E c, w : IsReading(s, t, c, w)
  BY <1>1, ReadingIs
<1>3. PICK c, w : IsReading(s, t, c, w)
  BY <1>2
<1> DEFINE l == Len(t)
<1>4. l \in Nat /\ DOMAIN t = 1..l /\ Len(s) \in Nat
  BY <1>2 DEF AreExtracted
<1>5. ASSUME NEW n \in 1..l
      PROVE  /\ c[n] \in 1..Len(s) /\ ~ IsHead(s[c[n]]) /\ w[n] \in 1..Len(Pieces(s[c[n]]))
             /\ t[n] = Pieces(s[c[n]])[w[n]] /\ t[n].src = s[c[n]].src
             /\ t[n].text = s[c[n]].text
             /\ s[c[n]].src \in Sources /\ s[c[n]].text = TextAt(s[c[n]].src)
             /\ ArePiecesOf(Pieces(s[c[n]]), s[c[n]])
  <2>1. /\ c[n] \in 1..Len(s) /\ ~ IsHead(s[c[n]]) /\ w[n] \in 1..Len(Pieces(s[c[n]]))
        /\ t[n] = Pieces(s[c[n]])[w[n]] /\ IsPieceOf(t[n], s[c[n]])
    BY <1>3 DEF IsReading
  <2>2. s[c[n]] \in Blocks /\ WholeBlock(s[c[n]])
    BY <2>1 DEF AreExtracted
  <2>3. s[c[n]].src \in Sources /\ s[c[n]].text = TextAt(s[c[n]].src)
    BY <2>1 DEF AreExtracted
  <2>. QED  BY <2>1, <2>2, <2>3, PiecesAre DEF IsPieceOf
<1>6. \A n, m \in 1..l : n < m => c[n] < c[m] \/ (c[n] = c[m] /\ w[n] < w[m])
  BY <1>3 DEF IsReading
<1>7. ASSUME NEW n \in 1..l, NEW q \in 1..Len(Pieces(s[c[n]]))
      PROVE  \E m \in 1..l : c[m] = c[n] /\ w[m] = q
  <2>1. \A a \in 1..Len(s) : ~ IsHead(s[a]) =>
          \A i \in 1..Len(Pieces(s[a])) : \E m \in 1..l : c[m] = a /\ w[m] = i
    BY <1>3 DEF IsReading
  <2>2. c[n] \in 1..Len(s) /\ ~ IsHead(s[c[n]])
    BY <1>5
  <2>. QED  BY Zenon, <2>1, <2>2
<1>8. \A n \in 1..l : c[n] \in Nat /\ w[n] \in Nat /\ Len(Pieces(s[c[n]])) \in Nat
  BY <1>5 DEF ArePiecesOf
<1> HIDE DEF l
<1>9. ASSUME NEW n \in 1..l, NEW m \in 1..l, c[m] = c[n], w[m] = w[n] + 1 PROVE m = n + 1
  <2>1. InGroups(l, c, w)
    BY <1>6, <1>8 DEF InGroups
  <2>. QED  BY <1>4, <1>9, <2>1, Neighbours
<1>10. {t[n].src : n \in DOMAIN t} = Sources
  <2>1. \A n \in 1..l : t[n].src \in Sources
    BY <1>5
  <2>2. ASSUME NEW src \in Sources PROVE \E n \in 1..l : t[n].src = src
    <3>1. PICK j \in 1..Len(s) : ~ IsHead(s[j]) /\ s[j].src = src
      BY DEF HasEverySource
    <3>2. s[j] \in Blocks /\ WholeBlock(s[j])
      BY DEF AreExtracted
    <3>3. Len(Pieces(s[j])) > 0 /\ Len(Pieces(s[j])) \in Nat
      BY <3>2, PiecesAre DEF ArePiecesOf
    <3>4. 1 \in 1..Len(Pieces(s[j]))
      BY <3>3
    <3>5. \A a \in 1..Len(s) : ~ IsHead(s[a]) =>
            \A i \in 1..Len(Pieces(s[a])) : \E m \in 1..l : c[m] = a /\ w[m] = i
      BY <1>3 DEF IsReading, l
    <3>6. PICK n \in 1..l : c[n] = j /\ w[n] = 1
      BY Zenon, <3>1, <3>4, <3>5
    <3>. QED  BY <1>5, <3>1, <3>6
  <2>. QED  BY <1>4, <2>1, <2>2
<1>11. ASSUME NEW n \in 1..l, n = 1 \/ t[n].src # t[n - 1].src PROVE t[n].from = 0
  <2>1. w[n] = 1
    <3> SUFFICES ASSUME w[n] # 1 PROVE FALSE
      OBVIOUS
    <3>1. w[n] - 1 \in 1..Len(Pieces(s[c[n]])) /\ w[n] = (w[n] - 1) + 1
      BY <1>5, <1>8
    <3>2. PICK m \in 1..l : c[m] = c[n] /\ w[m] = w[n] - 1
      BY <1>7, <3>1
    <3>3. n = m + 1
      BY <1>9, <3>1, <3>2
    <3>4. n # 1 /\ m = n - 1
      BY <1>4, <3>3
    <3>5. t[m].src = t[n].src
      BY <1>5, <3>2
    <3>. QED  BY <1>11, <3>4, <3>5
  <2>. QED  BY <1>5, <2>1 DEF ArePiecesOf
<1>12. ASSUME NEW n \in 1..l, n = l \/ t[n].src # t[n + 1].src
       PROVE  t[n].to = TextLen(TextAt(t[n].src))
  <2>1. w[n] = Len(Pieces(s[c[n]]))
    <3> SUFFICES ASSUME w[n] # Len(Pieces(s[c[n]])) PROVE FALSE
      OBVIOUS
    <3>1. w[n] + 1 \in 1..Len(Pieces(s[c[n]]))
      BY <1>5, <1>8
    <3>2. PICK m \in 1..l : c[m] = c[n] /\ w[m] = w[n] + 1
      BY <1>7, <3>1
    <3>3. m = n + 1
      BY <1>9, <3>2
    <3>4. n # l
      BY <1>4, <3>3
    <3>5. t[m].src = t[n].src
      BY <1>5, <3>2
    <3>. QED  BY <1>12, <3>3, <3>4, <3>5
  <2>2. t[n].to = TextLen(s[c[n]].text)
    BY <1>5, <2>1 DEF ArePiecesOf
  <2>. QED  BY <1>5, <2>2
<1>13. ASSUME NEW n \in 1..l, n > 1
       PROVE  \/ ComesBefore(t[n - 1].src, t[n].src)
              \/ /\ t[n].src = t[n - 1].src
                 /\ t[n - 1].to <= t[n].from
                 /\ t[n - 1].to..(t[n].from - 1) \subseteq Spaces(t[n].text)
  <2>1. PICK o \in 1..l : o = n - 1 /\ o < n
    BY <1>4, <1>13
  <2>2. c[o] < c[n] \/ (c[o] = c[n] /\ w[o] < w[n])
    BY <1>6, <2>1
  <2>3. CASE c[o] < c[n]
    <3>1. ComesBefore(s[c[o]].src, s[c[n]].src)
      <4>1. c[o] \in 1..Len(s) /\ c[n] \in 1..Len(s)
        BY <1>5
      <4>. QED  BY <2>3, <4>1 DEF AreExtracted
    <3>2. ComesBefore(t[o].src, t[n].src)
      BY <1>5, <3>1
    <3>. QED  BY <2>1, <3>2
  <2>4. CASE c[o] = c[n] /\ w[o] < w[n]
    <3>1. w[o] + 1 \in 1..Len(Pieces(s[c[o]])) /\ w[o] \in 1..(Len(Pieces(s[c[o]])) - 1)
      <4>1. w[o] \in Nat /\ w[o] >= 1 /\ w[n] \in Nat /\ Len(Pieces(s[c[o]])) \in Nat
            /\ w[n] <= Len(Pieces(s[c[o]]))
        BY <1>5, <1>8, <2>4
      <4>. QED  BY <2>4, <4>1
    <3>2. PICK m \in 1..l : c[m] = c[o] /\ w[m] = w[o] + 1
      BY <1>7, <3>1
    <3>3. m = o + 1
      BY <1>9, <3>2
    <3>4. m = n
      BY <1>4, <2>1, <3>3
    <3>5. PICK ps, b, q : ps = Pieces(s[c[o]]) /\ b = s[c[o]] /\ q = w[o]
      OBVIOUS
    <3>6. /\ ArePiecesOf(ps, b) /\ t[o] = ps[q] /\ t[n] = ps[q + 1] /\ q \in 1..(Len(ps) - 1)
          /\ t[n].text = b.text /\ t[n].src = t[o].src
      BY <1>5, <2>4, <3>1, <3>2, <3>4, <3>5
    <3>7. t[o].to <= t[n].from /\ t[o].to..(t[n].from - 1) \subseteq Spaces(t[n].text)
      BY <3>6 DEF ArePiecesOf
    <3>. QED  BY <2>1, <3>6, <3>7
  <2>. QED  BY <2>2, <2>3, <2>4
<1>14. \A n \in 1..l : t[n].text = TextAt(t[n].src)
  BY <1>5
<1>15. ReadsAll(t)
  BY <1>4, <1>10, <1>11, <1>12, <1>13, <1>14 DEF ReadsAll, l
<1>. QED  BY <1>1, <1>15


-----------------------------------------------------------------------------
(* The invariant of the whole. *)

(* Until the list is split, it holds the blocks of the divs read so far.   *)
ExtractingInv ==
    /\ next \in 1..(Len(body) + 1)
    /\ buf = EmptyBuf /\ chunks = <<>> /\ currentDiv = None
    /\ prepared = BlocksUpTo(next - 1)

PaperInv ==
    /\ body \in Bodies /\ pc \in {"extract", "chunk", "done"}
    /\ pc = "extract" => ExtractingInv
    /\ pc # "extract" => PreparedInv /\ ChunkingInv

LEMMA ExtractKeeps ==
  ASSUME body \in Bodies, ExtractingInv, ExtractDiv
  PROVE  ExtractingInv' /\ pc' = pc /\ body' = body
<1>1. /\ next \in 1..Len(body) /\ next' = next + 1 /\ UNCHANGED <<body, pc, buf, currentDiv, chunks>>
      /\ prepared' = prepared \o BlocksOf(next)
      /\ prepared = FlattenSeq([d \in 1..(next - 1) |-> BlocksOf(d)])
      /\ buf = EmptyBuf /\ chunks = <<>> /\ currentDiv = None
  BY BodyIs DEF ExtractingInv, ExtractDiv, BlocksUpTo
<1>2. next \in Nat /\ Len(body) \in Nat
  BY <1>1, BodyIs
<1> DEFINE f(n) == [d \in 1..n |-> BlocksOf(d)]
<1>3. \A d \in 1..Len(body) : BlocksOf(d) \in Seq(Blocks)
  BY BlocksOfIs DEF AreBlocksOf
<1>4. PICK x : x = BlocksOf(next) /\ x \in Seq(Blocks)
  BY <1>1, <1>3
<1>5. f(next - 1) \in Seq(Seq(Blocks)) /\ Len(f(next - 1)) = next - 1
  <2>1. \A d \in 1..(next - 1) : BlocksOf(d) \in Seq(Blocks)
    BY <1>1, <1>2, <1>3
  <2>2. next - 1 \in Nat
    BY <1>1
  <2>. QED  BY <2>1, <2>2
<1>6. f(next) = Append(f(next - 1), x)
  <2>1. next \in 1..next /\ \A d \in 1..next : d = next \/ d \in 1..(next - 1)
    BY <1>1
  <2>. QED  BY <1>2, <1>4, <1>5, <2>1
<1>7. PICK g : g = f(next - 1)
  OBVIOUS
<1>8. FlattenSeq(Append(g, x)) = FlattenSeq(g) \o x
  BY <1>4, <1>5, <1>7, FlattenAppend
<1>9. prepared' = FlattenSeq(f(next))
  BY <1>1, <1>4, <1>6, <1>7, <1>8
<1>10. \A d : BlocksOf(d)' = BlocksOf(d)
  BY <1>1, SamePaper
<1>11. next' - 1 = next
  BY <1>1, <1>2
<1>12. prepared' = FlattenSeq([d \in 1..(next' - 1) |-> BlocksOf(d)'])
  BY <1>9, <1>10, <1>11
<1>13. next' \in 1..(Len(body') + 1)
  BY <1>1, <1>2
<1>. QED  BY <1>1, <1>12, <1>13 DEF ExtractingInv, BlocksUpTo

LEMMA SplitKeeps ==
  ASSUME body \in Bodies, ExtractingInv, SplitBlocks
  PROVE  PreparedInv' /\ ChunkingInv' /\ pc' = "chunk" /\ body' = body
<1>1. /\ next > Len(body) /\ next \in 1..(Len(body) + 1) /\ UNCHANGED <<body, buf, currentDiv, chunks>>
      /\ prepared' = FlattenSeq([n \in DOMAIN prepared |-> Pieces(prepared[n])])
      /\ pc' = "chunk" /\ next' = 1
      /\ prepared = BlocksUpTo(next - 1)
      /\ buf = EmptyBuf /\ chunks = <<>> /\ currentDiv = None
  BY DEF ExtractingInv, SplitBlocks
<1>2. PICK s, r : s = prepared /\ r = prepared'
  OBVIOUS
<1>3. next - 1 = Len(body) /\ Len(body) \in 0..Len(body)
  BY <1>1, BodyIs
<1>4. s = BlocksUpTo(Len(body))
  BY <1>1, <1>2, <1>3
<1>5. AreExtracted(s) /\ HasEverySource(s)
  BY <1>3, <1>4, ExtractedAre
<1>6. r = FlattenSeq([n \in DOMAIN s |-> Pieces(s[n])])
  BY <1>1, <1>2
<1>7. r \in Seq(Blocks) /\ ReadsAll(Texts(r))
  BY <1>5, <1>6, SplitIs, SplitReadsAll
<1>8. AreReady(r)
  BY <1>5, <1>6, SplitKeepsOrder
<1>9. /\ \A b : ReadyBlock(b)' <=> ReadyBlock(b)
      /\ \A t : ReadsAll(t)' <=> ReadsAll(t)
      /\ \A cs : ChunksInv(cs)' <=> ChunksInv(cs)
      /\ \A bf, d : BufInv(bf, d)' <=> BufInv(bf, d)
      /\ \A bf, cs, d : Continues(bf, cs, d)' <=> Continues(bf, cs, d)
  BY <1>1, SameInvariants
<1>10. DivsInOrder'
  BY <1>1, <1>2, <1>8 DEF DivsInOrder, IsHead, AreReady
<1>11. ReadsAll(Texts(prepared))'
  BY <1>2, <1>7, <1>9
<1>12. PreparedInv'
  BY <1>2, <1>7, <1>8, <1>9, <1>10, <1>11 DEF PreparedInv, AreReady
<1>13. ChunksInv(<<>>) /\ BufInv(EmptyBuf, None) /\ Continues(EmptyBuf, <<>>, None)
  BY EmptyIs DEF ChunksInv, Continues, EmptyBuf
<1>14. HasRead(buf, chunks, next - 1)'
  <2>1. SubSeq(r, 1, 0) = <<>>
    BY <1>7
  <2>2. Texts(<<>>) = <<>> /\ Laid(<<>>) = <<>> /\ <<>> \o <<>> = <<>> /\ EmptyBuf.blocks = <<>>
    BY DEF Texts, Laid, FlattenSeq, EmptyBuf
  <2>3. 1 - 1 = 0
    OBVIOUS
  <2>4. Texts(SubSeq(prepared', 1, next' - 1)) = Laid(chunks') \o Texts(buf'.blocks)
    BY <1>1, <1>2, <2>1, <2>2, <2>3
  <2>. QED  BY <2>4 DEF HasRead
<1>15. next' \in 1..(Len(prepared') + 1)
  BY <1>1, <1>2, <1>7
<1>16. ChunkingInv'
  BY <1>1, <1>9, <1>13, <1>14, <1>15 DEF ChunkingInv
<1>. QED  BY <1>1, <1>12, <1>16

LEMMA InitPaper == Init => PaperInv
<1> SUFFICES ASSUME Init PROVE PaperInv
  OBVIOUS
<1>1. /\ body \in Bodies /\ pc = "extract" /\ next = 1
      /\ prepared = <<>> /\ buf = EmptyBuf /\ currentDiv = None /\ chunks = <<>>
  BY DEF Init
<1>2. Len(body) \in Nat
  BY <1>1, BodyIs
<1>3. BlocksUpTo(next - 1) = <<>>
  <2>1. 1..(next - 1) = {}
    BY <1>1
  <2>2. [d \in 1..(next - 1) |-> BlocksOf(d)] = <<>>
    BY <2>1
  <2>3. FlattenSeq(<<>>) = <<>>
    BY DEF FlattenSeq
  <2>. QED  BY <2>2, <2>3 DEF BlocksUpTo
<1>4. next \in 1..(Len(body) + 1)
  BY <1>1, <1>2
<1>. QED  BY <1>1, <1>3, <1>4 DEF PaperInv, ExtractingInv

LEMMA NextPaper == PaperInv /\ [Next]_vars => PaperInv'
<1> SUFFICES ASSUME PaperInv, [Next]_vars PROVE PaperInv'
  OBVIOUS
<1>1. CASE ExtractDiv
  BY <1>1, ExtractKeeps DEF PaperInv, ExtractDiv
<1>2. CASE SplitBlocks
  BY <1>2, SplitKeeps DEF PaperInv, SplitBlocks
<1>3. CASE TakeHead \/ TakeOversize \/ TakeBlock
  <2>1. pc = "chunk" /\ body' = body
    BY <1>3 DEF TakeHead, TakeOversize, TakeBlock, NextBlock
  <2>. QED  BY <1>3, <2>1, ChunkingKeeps DEF PaperInv
<1>4. CASE End
  <2>1. pc = "chunk" /\ body' = body
    BY <1>4 DEF End
  <2>. QED  BY <1>4, <2>1, EndKeeps DEF PaperInv
<1>5. CASE UNCHANGED vars
  <2>1. /\ body' = body /\ pc' = pc /\ next' = next /\ prepared' = prepared /\ buf' = buf
        /\ currentDiv' = currentDiv /\ chunks' = chunks
    BY <1>5 DEF vars
  <2>2. ExtractingInv => ExtractingInv'
    BY <2>1, SamePaper DEF ExtractingInv, BlocksUpTo
  <2>3. PreparedInv => PreparedInv'
    BY <2>1, SameInvariants DEF PreparedInv, DivsInOrder
  <2>4. ChunkingInv => ChunkingInv'
    BY <2>1, SameInvariants DEF ChunkingInv, HasRead
  <2>. QED  BY <2>1, <2>2, <2>3, <2>4 DEF PaperInv
<1>. QED  BY <1>1, <1>2, <1>3, <1>4, <1>5 DEF Next

LEMMA PaperIs == Spec => []PaperInv
<1>. QED  BY InitPaper, NextPaper, PTL DEF Spec

LEMMA PaperIsTyped == PaperInv => TypeOK
<1> SUFFICES ASSUME PaperInv PROVE TypeOK
  OBVIOUS
<1>1. CASE pc # "extract"
  BY <1>1, ChunkingIsTyped DEF PaperInv
<1>2. CASE pc = "extract"
  <2>1. /\ body \in Bodies /\ next \in 1..(Len(body) + 1)
        /\ buf = EmptyBuf /\ chunks = <<>> /\ currentDiv = None
        /\ prepared = BlocksUpTo(next - 1)
    BY <1>2 DEF PaperInv, ExtractingInv
  <2>2. next - 1 \in 0..Len(body) /\ next \in Nat
    BY <2>1, BodyIs
  <2>3. AreExtracted(prepared)
    BY <2>1, <2>2, ExtractedAre
  <2>4. \A n \in DOMAIN prepared : IsBlock(prepared[n])
    BY <2>3 DEF AreExtracted, WholeBlock
  <2>5. buf.blocks = <<>> /\ buf.len = JoinLen(buf.blocks)
    BY <2>1 DEF EmptyBuf, JoinLen
  <2>. QED  BY <1>2, <2>1, <2>2, <2>4, <2>5 DEF TypeOK
<1>. QED  BY <1>1, <1>2

(* Every variable of the chunker has its type, and the length kept beside  *)
(* the buffer is that of the text the buffer would become: no branch of    *)
(* the main loop, of flush or of _ensure_fit_next forgets to update it.    *)
THEOREM TypeCorrect == Spec => []TypeOK
<1>. QED  BY PaperIs, PaperIsTyped, PTL

(* When a paper is chunked, every text of every div is in the chunks from  *)
(* its first character to its last, once and in reading order, and what    *)
(* they say is the paper's text but for the exceptions that the property   *)
(* names, however long the paper and its sentences are and whatever        *)
(* CHUNKER_MAX_CHARS and CHUNKER_OVERLAP are.                              *)
THEOREM NothingIsLost == Spec => []EveryTextIsIndexed
<1>1. PaperInv => EveryTextIsIndexed
  <2> SUFFICES ASSUME PaperInv PROVE EveryTextIsIndexed
    OBVIOUS
  <2>1. CASE pc = "done"
    BY <2>1, ChunkingReadsAll DEF PaperInv
  <2>2. CASE pc # "done"
    BY <2>2 DEF EveryTextIsIndexed
  <2>. QED  BY <2>1, <2>2
<1>. QED  BY <1>1, PaperIs, PTL

LEMMA ChunksAre == PaperInv => ChunksInv(chunks)
<1> SUFFICES ASSUME PaperInv PROVE ChunksInv(chunks)
  OBVIOUS
<1>1. CASE pc = "extract"
  <2>1. chunks = <<>>
    BY <1>1 DEF PaperInv, ExtractingInv
  <2>. QED  BY <2>1 DEF ChunksInv
<1>2. CASE pc # "extract"
  BY <1>2 DEF PaperInv, ChunkingInv
<1>. QED  BY <1>1, <1>2

(* A chunk longer than the limit is one block that must not be split, or   *)
(* one sentence between two others: the chunker glues nothing together     *)
(* beyond CHUNKER_MAX_CHARS.                                               *)
THEOREM ChunksKeepToTheLimit == Spec => []ChunksFit
<1>. QED  BY PaperIs, ChunksAre, ChunkingFits, PTL

(* A chunk is of one div, a heading only opens it, and the first text of a *)
(* section comes with the heading unless the two do not fit together.      *)
THEOREM SectionsAreKept == Spec => []SectionsStayTogether
<1>. QED  BY PaperIs, ChunksAre, ChunkingKeepsSections, PTL


(* CHUNKER_OVERLAP has no effect: whatever it is, and however often a      *)
(* chunk is flushed because the next block does not fit, nothing is        *)
(* carried over.  What flush(..., reason="size") keeps is paired by zip()  *)
(* with the normalised texts, and those are a heading's or none            *)
(* (block_chunker.py 283, 417, 448).                                       *)
THEOREM OverlapNeverHappens == Spec => []NoOverlap
<1>1. ChunksInv(chunks) => NoOverlap
  BY NoneOverlaps
<1>. QED  BY <1>1, PaperIs, ChunksAre, PTL

=============================================================================
