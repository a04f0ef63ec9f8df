----------------------------- MODULE MergerProofs -----------------------------
(* What the merger's scores are, for any number of queries and chunks: in  *)
(* particular that normalising, weighting and taking the best of the       *)
(* queries keep the order in which everything agrees.                      *)
EXTENDS Merger, FoldProofs

(* What one source found for one query, and what all found for all.        *)
IsFound(f) == IsFiniteSet(DOMAIN f) /\ f \in [DOMAIN f -> Nat]

AreHits(hits) ==
    /\ IsFiniteSet(DOMAIN hits)
    /\ \A q \in DOMAIN hits : IsFound(hits[q].vec) /\ IsFound(hits[q].fts)

-----------------------------------------------------------------------------
(* Numbers. *)

LEMMA ValuesAreFinite ==
  ASSUME NEW D, IsFiniteSet(D), NEW f
  PROVE  IsFiniteSet({f[x] : x \in D})
<1> DEFINE g == [x \in D |-> f[x]]
<1>1. g \in Surjection(D, {f[x] : x \in D})
  BY DEF Surjection
<1>. QED  BY <1>1, FS_Surjection

LEMMA Division ==
  ASSUME NEW a \in Nat, NEW b \in Nat, a <= b, NEW d \in Nat \ {0}
  PROVE  a \div d \in Nat /\ a \div d <= b \div d
<1> DEFINE x == a \div d
           y == b \div d
<1>1. x \in Int /\ x * d <= a /\ a < (x + 1) * d
  OBVIOUS
<1>2. y \in Int /\ y * d <= b /\ b < (y + 1) * d
  OBVIOUS
<1> HIDE DEF x, y
<1>3. x >= 0
  BY <1>1
<1>4. x <= y
  <2> SUFFICES ASSUME y + 1 <= x PROVE FALSE
    BY <1>1, <1>2
  <2>1. (y + 1) * d <= x * d
    BY <1>1, <1>2
  <2>. QED  BY <1>1, <1>2, <2>1
<1>. QED  BY <1>1, <1>3, <1>4 DEF x, y

-----------------------------------------------------------------------------
(* From raw scores to the score of a chunk. *)

(* Normalising keeps the order within a query and a source.                *)
LEMMA NormKeepsOrder ==
  ASSUME NEW f, IsFound(f), NEW c \in DOMAIN f, NEW d \in DOMAIN f, f[c] <= f[d]
  PROVE  MinMaxNorm(f)[c] \in Nat /\ MinMaxNorm(f)[c] <= MinMaxNorm(f)[d]
<1> DEFINE vals == {f[x] : x \in DOMAIN f}
           lo == Min(vals)
           hi == Max(vals)
<1>1. vals \in SUBSET Nat /\ vals # {} /\ IsFiniteSet(vals)
  BY ValuesAreFinite DEF IsFound
<1>2. f[c] \in vals /\ f[d] \in vals
  OBVIOUS
<1> HIDE DEF vals
<1>3. /\ lo \in Nat /\ hi \in Nat
      /\ lo <= f[c] /\ f[c] <= hi /\ lo <= f[d] /\ f[d] <= hi
      /\ f[c] \in Nat /\ f[d] \in Nat
  BY <1>1, <1>2, MinIs, MaxIs
<1>4. MinMaxNorm(f) =
        [x \in DOMAIN f |-> IF hi = lo THEN Unit ELSE (Unit * (f[x] - lo)) \div (hi - lo)]
  BY DEF MinMaxNorm, vals
<1> HIDE DEF lo, hi
<1>5. CASE hi = lo
  BY <1>4, <1>5, UnitAssumption
<1>6. CASE hi # lo
  <2> DEFINE a == Unit * (f[c] - lo)
             b == Unit * (f[d] - lo)
             e == hi - lo
  <2>1. e \in Nat \ {0}
    BY <1>3, <1>6
  <2>2. f[c] - lo \in Nat /\ f[d] - lo \in Nat /\ f[c] - lo <= f[d] - lo /\ Unit \in Nat
    BY <1>3, UnitAssumption
  <2>3. \A u, v, w \in Nat : v <= w => u * v \in Nat /\ u * w \in Nat /\ u * v <= u * w
    OBVIOUS
  <2>4. a \in Nat /\ b \in Nat /\ a <= b
    BY <2>2, <2>3
  <2>5. MinMaxNorm(f)[c] = a \div e /\ MinMaxNorm(f)[d] = b \div e
    BY <1>4, <1>6
  <2> HIDE DEF a, b, e
  <2>. QED  BY <2>1, <2>4, <2>5, Division
<1>. QED  BY <1>5, <1>6

LEMMA ShareIsNat ==
  ASSUME NEW f, IsFound(f), NEW c
  PROVE  Share(f, c) \in Nat
<1>1. CASE c \in DOMAIN f
  <2>1. f[c] <= f[c]
    BY <1>1 DEF IsFound
  <2>. QED  BY <1>1, <2>1, NormKeepsOrder DEF Share
<1>2. CASE c \notin DOMAIN f
  BY <1>2 DEF Share
<1>. QED  BY <1>1, <1>2

(* A source that finds d wherever it finds c, and scores it no worse.      *)
LEMMA ShareKeepsOrder ==
  ASSUME NEW f, IsFound(f), NEW c, NEW d, c \in DOMAIN f => d \in DOMAIN f /\ f[d] >= f[c]
  PROVE  Share(f, c) <= Share(f, d)
<1>1. CASE c \in DOMAIN f
  <2>1. f[c] <= f[d] /\ d \in DOMAIN f
    BY <1>1 DEF IsFound
  <2>. QED  BY <1>1, <2>1, NormKeepsOrder DEF Share
<1>2. CASE c \notin DOMAIN f
  BY <1>2, ShareIsNat DEF Share
<1>. QED  BY <1>1, <1>2

LEMMA CombinedIsNat ==
  ASSUME NEW h, IsFound(h.vec), IsFound(h.fts), NEW c
  PROVE  Combined(h, c) \in Nat
<1>1. Share(h.vec, c) \in Nat /\ Share(h.fts, c) \in Nat
  BY ShareIsNat
<1>. QED  BY <1>1 DEF Combined, WVec, WFts

(* The score of a chunk is that of one of the queries that found it, and   *)
(* no query that found it scores it better.                                *)
LEMMA ScoreIs ==
  ASSUME NEW hits, AreHits(hits), NEW c \in Candidates(hits)
  PROVE  /\ Score(hits, c) \in Nat
         /\ \E q \in MatchedBy(hits, c) : Score(hits, c) = Combined(hits[q], c)
         /\ \A q \in MatchedBy(hits, c) : Combined(hits[q], c) <= Score(hits, c)
<1> DEFINE by == MatchedBy(hits, c)
           f == [q \in by |-> Combined(hits[q], c)]
           vals == {f[q] : q \in by}
<1>1. by \in SUBSET DOMAIN hits /\ by # {}
  BY DEF MatchedBy, Candidates
<1>2. IsFiniteSet(by)
  <2> HIDE DEF by
  <2>. QED  BY <1>1, FS_Subset DEF AreHits
<1>3. \A q \in by : f[q] \in Nat
  <2> HIDE DEF by
  <2>. QED  BY <1>1, CombinedIsNat DEF AreHits
<1>4. IsFiniteSet(vals) /\ vals \in SUBSET Nat /\ vals # {}
  <2>1. vals \in SUBSET Nat /\ vals # {}
    BY <1>1, <1>3
  <2> HIDE DEF by, f
  <2>. QED  BY <1>2, <2>1, ValuesAreFinite
<1>5. vals = {Combined(hits[q], c) : q \in by}
  OBVIOUS
<1>6. Score(hits, c) = Max(vals)
  BY <1>5 DEF Score
<1> HIDE DEF vals
<1>7. Score(hits, c) \in vals /\ \A m \in vals : m <= Score(hits, c)
  BY <1>4, <1>6, MaxIs
<1>. QED  BY <1>4, <1>5, <1>7

(* A chunk that is found wherever another is, with scores that are no      *)
(* worse, has a score that is no worse: the weights, the normalisation per *)
(* query and the choice of the best query cannot turn the two round.       *)
THEOREM BetterMatchScoresHigher ==
  ASSUME NEW hits, AreHits(hits), NEW b \in Candidates(hits), NEW a,
         \A q \in DOMAIN hits : \A f \in {hits[q].vec, hits[q].fts} :
             b \in DOMAIN f => a \in DOMAIN f /\ f[a] >= f[b]
  PROVE  a \in Candidates(hits) /\ Score(hits, a) >= Score(hits, b)
<1>1. PICK q \in MatchedBy(hits, b) : Score(hits, b) = Combined(hits[q], b)
  BY ScoreIs
<1>2. q \in DOMAIN hits /\ b \in Found(hits[q])
  BY DEF MatchedBy
<1>3. a \in Found(hits[q])
  BY <1>2 DEF Found
<1>4. a \in Candidates(hits) /\ q \in MatchedBy(hits, a)
  BY <1>2, <1>3 DEF Candidates, MatchedBy
<1>5. IsFound(hits[q].vec) /\ IsFound(hits[q].fts)
  BY <1>2 DEF AreHits
<1>6. Share(hits[q].vec, b) <= Share(hits[q].vec, a) /\ Share(hits[q].fts, b) <= Share(hits[q].fts, a)
  BY <1>2, <1>5, ShareKeepsOrder
<1>7. Combined(hits[q], b) <= Combined(hits[q], a)
  <2>1. /\ Share(hits[q].vec, b) \in Nat /\ Share(hits[q].vec, a) \in Nat
        /\ Share(hits[q].fts, b) \in Nat /\ Share(hits[q].fts, a) \in Nat
    BY <1>5, ShareIsNat
  <2>. QED  BY <1>6, <2>1 DEF Combined, WVec, WFts
<1>8. Combined(hits[q], a) <= Score(hits, a)
  BY <1>4, ScoreIs
<1>9. Combined(hits[q], a) \in Nat /\ Combined(hits[q], b) \in Nat /\ Score(hits, a) \in Nat
  BY <1>4, <1>5, CombinedIsNat, ScoreIs
<1>. QED  BY <1>1, <1>4, <1>7, <1>8, <1>9


-----------------------------------------------------------------------------
(* The ranking. *)

LEMMA CandidatesAreFinite ==
  ASSUME NEW hits, AreHits(hits)
  PROVE  IsFiniteSet(Candidates(hits))
<1> DEFINE F == {Found(hits[q]) : q \in DOMAIN hits}
<1>1. IsFiniteSet(F)
  <2> DEFINE f == [q \in DOMAIN hits |-> Found(hits[q])]
  <2>1. IsFiniteSet({f[q] : q \in DOMAIN hits})
    <3> HIDE DEF f
    <3>. QED  BY ValuesAreFinite DEF AreHits
  <2>. QED  BY <2>1
<1>2. \A S \in F : IsFiniteSet(S)
  BY FS_Union DEF AreHits, IsFound, Found
<1>3. IsFiniteSet(UNION F)
  <2> HIDE DEF F
  <2>. QED  BY <1>1, <1>2, FS_UNION
<1>. QED  BY <1>3 DEF Candidates

(* Of two chunks at different places in the paper one comes before.        *)
LEMMA OneComesFirst ==
  ASSUME NEW hits, AreHits(hits), NEW a \in Candidates(hits), NEW b \in Candidates(hits),
         Position[a] \in Nat, Position[b] \in Nat, Position[a] # Position[b]
  PROVE  Before(hits, a, b) \/ Before(hits, b, a)
<1>1. Score(hits, a) \in Nat /\ Score(hits, b) \in Nat
  BY ScoreIs
<1>. QED  BY <1>1 DEF Before

(* Some chunk is behind none of the others.                                *)
LEMMA OneIsFirst ==
  ASSUME NEW hits, AreHits(hits), NEW S \in SUBSET Candidates(hits), S # {},
         \A c \in S : Position[c] \in Nat
  PROVE  \E c \in S : \A d \in S : ~ Before(hits, d, c)
<1> DEFINE scores == {Score(hits, c) : c \in S}
           hi == Max(scores)
           best == {c \in S : Score(hits, c) = hi}
           places == {Position[c] : c \in best}
<1>1. IsFiniteSet(S)
  BY CandidatesAreFinite, FS_Subset
<1>2. \A c \in S : Score(hits, c) \in Nat
  BY ScoreIs
<1>3. IsFiniteSet(scores)
  <2> DEFINE f == [c \in S |-> Score(hits, c)]
  <2>1. IsFiniteSet({f[c] : c \in S})
    <3> HIDE DEF f
    <3>. QED  BY <1>1, ValuesAreFinite
  <2>. QED  BY <2>1
<1>4. scores \in SUBSET Nat /\ scores # {}
  BY <1>2
<1>5. hi \in scores /\ \A m \in scores : m <= hi
  <2> HIDE DEF scores
  <2>. QED  BY <1>3, <1>4, MaxIs
<1>6. best # {} /\ \A c \in S : Score(hits, c) <= hi
  BY <1>5
<1> HIDE DEF scores, hi
<1>7. places \in SUBSET Nat /\ places # {}
  BY <1>6
<1>8. PICK p \in places : \A m \in places : p <= m
  <2> HIDE DEF places
  <2>. QED  BY <1>7, LeastNumber
<1>9. PICK c \in best : Position[c] = p
  OBVIOUS
<1>10. ASSUME NEW d \in S PROVE ~ Before(hits, d, c)
  <2>1. Score(hits, d) <= Score(hits, c) /\ Score(hits, d) \in Nat /\ Score(hits, c) \in Nat
    BY <1>2, <1>6
  <2>2. CASE Score(hits, d) = Score(hits, c)
    <3>1. d \in best /\ Position[d] \in places
      BY <2>2
    <3>2. Position[c] <= Position[d] /\ Position[c] \in Nat /\ Position[d] \in Nat
      BY <1>8, <1>9, <3>1
    <3>. QED  BY <2>1, <2>2, <3>2 DEF Before
  <2>3. CASE Score(hits, d) # Score(hits, c)
    BY <2>1, <2>3 DEF Before
  <2>. QED  BY <2>2, <2>3
<1>. QED  BY <1>9, <1>10

(* A ranking as long as one likes: the chunks taken so far, in order, with *)
(* nothing left out that should have come before.                          *)
LEMMA RankingExists ==
  ASSUME NEW hits, AreHits(hits), \A c \in Candidates(hits) : Position[c] \in Nat,
         NEW k \in 0..Cardinality(Candidates(hits))
  PROVE  \E s \in [1..k -> Candidates(hits)] :
            /\ \A m, n \in 1..k : m < n => s[m] # s[n] /\ ~ Before(hits, s[n], s[m])
            /\ \A c \in Candidates(hits) \ {s[n] : n \in 1..k} :
                  \A n \in 1..k : ~ Before(hits, c, s[n])
<1> DEFINE C == Candidates(hits)
           Taken(s, j) == {s[n] : n \in 1..j}
           InOrder(s, j) ==
             /\ s \in [1..j -> C]
             /\ \A m, n \in 1..j : m < n => s[m] # s[n] /\ ~ Before(hits, s[n], s[m])
             /\ \A c \in C \ Taken(s, j) : \A n \in 1..j : ~ Before(hits, c, s[n])
           T == {j \in 0..k : \E s : InOrder(s, j)}
<1>1. Cardinality(C) \in Nat /\ IsFiniteSet(C) /\ k \in Nat
  <2>1. IsFiniteSet(C)
    BY CandidatesAreFinite
  <2>2. Cardinality(C) \in Nat
    BY <2>1, FS_CardinalityType
  <2>. QED  BY <2>1, <2>2
<1>2. 0 \in T
  <2> DEFINE s == [n \in 1..0 |-> {}]
  <2>1. s \in [1..0 -> C] /\ 1..0 = {}
    OBVIOUS
  <2>2. InOrder(s, 0)
    BY <2>1
  <2> HIDE DEF InOrder, s
  <2>3. \E t : InOrder(t, 0)
    BY <2>2
  <2>. QED  BY <1>1, <2>3
<1>3. ASSUME NEW j \in 1..k, j - 1 \in T PROVE j \in T
  <2>1. PICK s : InOrder(s, j - 1)
    BY <1>3
  <2> DEFINE rest == C \ Taken(s, j - 1)
  <2>2. rest # {}
    <3>1. IsFiniteSet(1..(j - 1)) /\ Cardinality(1..(j - 1)) = j - 1
      <4> DEFINE i == j - 1
      <4>1. i \in Nat
        BY <1>1
      <4> HIDE DEF i
      <4>2. IsFiniteSet(1..i) /\ Cardinality(1..i) = i
        BY <4>1, FS_Interval
      <4>. QED  BY <4>2 DEF i
    <3>2. IsFiniteSet(Taken(s, j - 1)) /\ Cardinality(Taken(s, j - 1)) <= j - 1
      <4>1. s \in Surjection(1..(j - 1), Taken(s, j - 1))
        BY <2>1 DEF Surjection
      <4> HIDE DEF Taken
      <4>. QED  BY <3>1, <4>1, FS_Surjection
    <3>3. Taken(s, j - 1) \subseteq C
      BY <2>1
    <3>4. Taken(s, j - 1) # C
      BY <1>1, <3>2
    <3> HIDE DEF Taken
    <3>. QED  BY <3>3, <3>4
  <2>3. PICK x \in rest : \A d \in rest : ~ Before(hits, d, x)
    <3>1. rest \in SUBSET C
      OBVIOUS
    <3> HIDE DEF rest
    <3>. QED  BY <2>2, <3>1, OneIsFirst
  <2> DEFINE t == [n \in 1..j |-> IF n = j THEN x ELSE s[n]]
  <2>4. t \in [1..j -> C] /\ t[j] = x /\ \A n \in 1..(j - 1) : t[n] = s[n]
    BY <2>1
  <2> HIDE DEF t
  <2>5. ASSUME NEW m \in 1..j, NEW n \in 1..j, m < n
        PROVE  t[m] # t[n] /\ ~ Before(hits, t[n], t[m])
    <3>1. m \in 1..(j - 1) /\ t[m] = s[m]
      BY <2>4, <2>5
    <3>2. CASE n = j
      <4>1. t[n] = x /\ x \in C \ Taken(s, j - 1)
        BY <2>4, <3>2
      <4>. QED  BY <2>1, <3>1, <4>1
    <3>3. CASE n # j
      <4>1. n \in 1..(j - 1) /\ t[n] = s[n]
        BY <2>4, <3>3
      <4>. QED  BY <2>1, <2>5, <3>1, <4>1
    <3>. QED  BY <3>2, <3>3
  <2>6. ASSUME NEW c \in C \ Taken(t, j), NEW n \in 1..j
        PROVE  ~ Before(hits, c, t[n])
    <3>1. c \in rest
      BY <2>4
    <3>2. CASE n = j
      BY <2>3, <2>4, <3>1, <3>2
    <3>3. CASE n # j
      <4>1. n \in 1..(j - 1) /\ t[n] = s[n]
        BY <2>4, <3>3
      <4>. QED  BY <2>1, <3>1, <4>1
    <3>. QED  BY <3>2, <3>3
  <2>7. InOrder(t, j)
    BY <2>4, <2>5, <2>6
  <2> HIDE DEF InOrder
  <2>8. \E u : InOrder(u, j)
    BY <2>7
  <2>. QED  BY <1>1, <2>8
<1>4. 0..k \subseteq T
  <2> HIDE DEF T
  <2>. QED  BY <1>1, <1>2, <1>3, Induction
<1>5. k \in T
  <2> HIDE DEF T
  <2>. QED  BY <1>1, <1>4
<1>6. \E s : InOrder(s, k)
  <2> HIDE DEF InOrder
  <2>. QED  BY <1>5
<1>. QED  BY <1>6

LEMMA RankingIsOnly ==
  ASSUME NEW hits, AreHits(hits), NEW k \in Nat,
         \A c \in Candidates(hits) : Position[c] \in Nat,
         \A c, d \in Candidates(hits) : c # d => Position[c] # Position[d],
         NEW s \in [1..k -> Candidates(hits)], NEW t \in [1..k -> Candidates(hits)],
         NEW topK, IsRanking(s, hits, topK), IsRanking(t, hits, topK)
  PROVE  s = t
<1> DEFINE differ == {n \in 1..k : s[n] # t[n]}
<1>1. Len(s) = k /\ Len(t) = k
  OBVIOUS
<1>2. ASSUME differ # {} PROVE FALSE
  <2>1. differ \in SUBSET Nat
    OBVIOUS
  <2>2. PICK n \in differ : \A m \in differ : n <= m
    <3> HIDE DEF differ
    <3>. QED  BY <1>2, <2>1, LeastNumber
  <2>3. n \in 1..k /\ s[n] # t[n] /\ \A m \in 1..k : m < n => s[m] = t[m]
    BY <2>2
  <2>4. ~ Before(hits, s[n], t[n])
    <3>1. CASE \E m \in 1..k : t[m] = s[n]
      <4>1. PICK m \in 1..k : t[m] = s[n]
        BY <3>1
      <4>2. ~ m < n /\ m # n
        BY <1>1, <2>3, <4>1 DEF IsRanking
      <4>3. n < m
        BY <2>3, <4>2
      <4>. QED  BY <1>1, <2>3, <4>1, <4>3 DEF IsRanking
    <3>2. CASE ~ \E m \in 1..k : t[m] = s[n]
      <4>1. s[n] \in Candidates(hits) \ {t[m] : m \in 1..Len(t)}
        BY <1>1, <2>3, <3>2
      <4>. QED  BY <1>1, <2>3, <4>1 DEF IsRanking
    <3>. QED  BY <3>1, <3>2
  <2>5. ~ Before(hits, t[n], s[n])
    <3>1. CASE \E m \in 1..k : s[m] = t[n]
      <4>1. PICK m \in 1..k : s[m] = t[n]
        BY <3>1
      <4>2. ~ m < n /\ m # n
        BY <1>1, <2>3, <4>1 DEF IsRanking
      <4>3. n < m
        BY <2>3, <4>2
      <4>. QED  BY <1>1, <2>3, <4>1, <4>3 DEF IsRanking
    <3>2. CASE ~ \E m \in 1..k : s[m] = t[n]
      <4>1. t[n] \in Candidates(hits) \ {s[m] : m \in 1..Len(s)}
        BY <1>1, <2>3, <3>2
      <4>. QED  BY <1>1, <2>3, <4>1 DEF IsRanking
    <3>. QED  BY <3>1, <3>2
  <2>6. s[n] \in Candidates(hits) /\ t[n] \in Candidates(hits)
    BY <2>3
  <2>. QED  BY <2>3, <2>4, <2>5, <2>6, OneComesFirst
<1>. QED  BY <1>2

(* The merge has one outcome for every list of hits, for chunks that have  *)
(* places of their own in the paper.                                       *)
THEOREM OneRanking ==
  ASSUME NEW hits, AreHits(hits), NEW topK \in Nat,
         \A c \in Candidates(hits) : Position[c] \in Nat,
         \A c, d \in Candidates(hits) : c # d => Position[c] # Position[d]
  PROVE  \E s : Rankings(hits, topK) = {s}
<1> DEFINE C == Candidates(hits)
           k == Smaller(topK, Cardinality(C))
<1>1. k \in 0..Cardinality(C) /\ k \in Nat
  <2>1. Cardinality(C) \in Nat
    BY CandidatesAreFinite, FS_CardinalityType
  <2>. QED  BY <2>1 DEF Smaller
<1>2. Rankings(hits, topK) = {s \in [1..k -> C] : IsRanking(s, hits, topK)}
  BY DEF Rankings
<1>3. \A s \in [1..k -> C] : Len(s) = k
  <2> HIDE DEF k
  <2>. QED  BY <1>1
<1>4. PICK s \in [1..k -> C] :
        /\ \A m, n \in 1..k : m < n => s[m] # s[n] /\ ~ Before(hits, s[n], s[m])
        /\ \A c \in C \ {s[n] : n \in 1..k} : \A n \in 1..k : ~ Before(hits, c, s[n])
  <2> HIDE DEF k
  <2>. QED  BY <1>1, RankingExists
<1>5. IsRanking(s, hits, topK)
  BY <1>3, <1>4 DEF IsRanking
<1> HIDE DEF k
<1>6. \A t \in [1..k -> C] : IsRanking(t, hits, topK) => t = s
  BY <1>1, <1>5, RankingIsOnly
<1>. QED  BY <1>2, <1>5, <1>6

(* ... and that outcome depends on what was found, not on the order in     *)
(* which the queries were searched or on which were searched twice.        *)
THEOREM RankingIgnoresOrder ==
  ASSUME NEW h, NEW g, {h[q] : q \in DOMAIN h} = {g[q] : q \in DOMAIN g}, NEW topK
  PROVE  Rankings(h, topK) = Rankings(g, topK)
<1>1. Candidates(h) = Candidates(g)
  <2>1. \A f : Candidates(f) = UNION {Found(x) : x \in {f[q] : q \in DOMAIN f}}
    BY DEF Candidates
  <2>. QED  BY <2>1
<1>2. ASSUME NEW c PROVE Score(h, c) = Score(g, c)
  <2>1. \A f : {Combined(f[q], c) : q \in MatchedBy(f, c)} =
               {Combined(x, c) : x \in {y \in {f[q] : q \in DOMAIN f} : c \in Found(y)}}
    BY DEF MatchedBy
  <2>. QED  BY <2>1 DEF Score
<1>3. \A a, b : Before(h, a, b) <=> Before(g, a, b)
  BY <1>2 DEF Before
<1>4. \A s : IsRanking(s, h, topK) <=> IsRanking(s, g, topK)
  BY <1>1, <1>3 DEF IsRanking
<1>. QED  BY <1>1, <1>4 DEF Rankings

=============================================================================
