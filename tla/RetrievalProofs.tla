--------------------------- MODULE RetrievalProofs ---------------------------
(* What an answer is written from, for every index, every question and     *)
(* every answer of the rewriter, the searches and the reranker.            *)
(* The scores' arithmetic is not expanded: what is proved is which chunks  *)
(* the ranking, the context and the citation hold.                         *)
EXTENDS Retrieval, MergerProofs

NoRepeats(s) == \A m, n \in 1..Len(s) : m # n => s[m] # s[n]

ScoreFunctions == UNION {[T -> Nat] : T \in SUBSET Chunks}

-----------------------------------------------------------------------------
(* Sets, sequences and the sorts of the code. *)

(* A member is found where it comes first.                                 *)
LEMMA FirstPlace ==
  ASSUME NEW R, NEW s \in Seq(R), NEW c \in Members(s)
  PROVE  FirstIn(s, c) \in 1..Len(s) /\ s[FirstIn(s, c)] = c
<1> DEFINE T == {n \in 1..Len(s) : s[n] = c}
<1>0. T \in SUBSET Nat /\ T # {}
  BY DEF Members
<1>1. PICK n \in T : \A m \in T : n <= m
  <2> HIDE DEF T
  <2>. QED  BY <1>0, LeastNumber
<1>2. \A m \in 1..(n - 1) : s[m] # c
  BY <1>1
<1>. QED  BY <1>1, <1>2 DEF FirstIn

(* Sorting a set by keys that differ gives each element once.              *)
LEMMA SortedOnce ==
  ASSUME NEW S, IsFiniteSet(S), NEW key \in [S -> Int], NEW t \in [1..Cardinality(S) -> S],
         \A m, n \in 1..Cardinality(S) : m < n => key[t[m]] < key[t[n]]
  PROVE  t \in Seq(S) /\ Len(t) = Cardinality(S) /\ Members(t) = S /\ NoRepeats(t)
<1>1. Cardinality(S) \in Nat
  BY FS_CardinalityType
<1>2. t \in Seq(S) /\ Len(t) = Cardinality(S)
  BY <1>1
<1>3. \A m, n \in 1..Cardinality(S) : m # n => t[m] # t[n]
  <2>1. \A m, n \in 1..Cardinality(S) : m < n => t[m] # t[n]
    OBVIOUS
  <2>. QED  BY <2>1, <1>1
<1>4. t \in Injection(1..Cardinality(S), S)
  BY <1>3 DEF Injection, IsInjective
<1>5. Cardinality(1..Cardinality(S)) = Cardinality(S)
  BY <1>1, FS_Interval
<1>6. t \in Surjection(1..Cardinality(S), S)
  BY <1>4, <1>5, FS_Injection
<1>7. Members(t) = S
  BY <1>2, <1>6 DEF Surjection, Members
<1>. QED  BY <1>2, <1>3, <1>7 DEF NoRepeats

(* A sequence without repeats is as long as its set of members.            *)
LEMMA CountMembers ==
  ASSUME NEW s, NEW n \in Nat, NoRepeats(s), Len(s) = n
  PROVE  IsFiniteSet(Members(s)) /\ Cardinality(Members(s)) = n
<1> DEFINE f == [k \in 1..n |-> s[k]]
<1>1. f \in Bijection(1..n, Members(s))
  BY DEF Bijection, Injection, IsInjective, Surjection, Members, NoRepeats
<1>2. ExistsBijection(1..n, Members(s))
  BY <1>1 DEF ExistsBijection
<1>. QED  BY <1>2, FS_CountingElements, FS_NatBijection

(* Loading keeps the chunks of the index, each once.                       *)
LEMMA LoadedIs ==
  ASSUME NEW chunks \in Seq(Chunks), NEW t \in Loaded(chunks)
  PROVE  /\ t \in Seq(Chunks) /\ NoRepeats(t) /\ Len(t) \in Nat
         /\ Members(t) = {c \in Members(chunks) : IndexOf[c] = index /\ HasChunks(index)}
<1> DEFINE S == {c \in Members(chunks) : IndexOf[c] = index /\ HasChunks(index)}
           key == [c \in S |-> FirstIn(chunks, c)]
<1>0. S \in SUBSET Chunks
  BY DEF Members
<1>1. S \subseteq Chunks /\ IsFiniteSet(S)
  <2> HIDE DEF S, key
  <2>. QED  BY <1>0, RetrievalAssumption, FS_Subset
<1>2. key \in [S -> Int]
  BY FirstPlace
<1>3. /\ t \in [1..Cardinality(S) -> S]
      /\ \A m, n \in 1..Cardinality(S) : m < n => FirstIn(chunks, t[m]) < FirstIn(chunks, t[n])
  BY DEF Loaded, SortedBy
<1>4. \A m, n \in 1..Cardinality(S) : m < n => key[t[m]] < key[t[n]]
  BY <1>3
<1>5. t \in Seq(S) /\ Members(t) = S /\ NoRepeats(t)
  <2> HIDE DEF S, key
  <2>. QED  BY <1>1, <1>2, <1>3, <1>4, SortedOnce
<1>. QED  BY <1>1, <1>5

(* The reranker's answer gives each of its chunks once, and no other.      *)
LEMMA RankIs ==
  ASSUME NEW chunks \in Seq(Chunks), NEW answer \in Seq(Chunks \cup {None}), NEW t \in Rank(answer, chunks)
  PROVE  /\ t \in Seq(Chunks) /\ NoRepeats(t) /\ Len(t) \in Nat
         /\ Members(t) = Members(chunks)
<1> DEFINE S == Members(chunks)
           Key(c) == IF c \in Members(answer) THEN FirstIn(answer, c)
                     ELSE Len(answer) + FirstIn(chunks, c)
           key == [c \in S |-> Key(c)]
<1>0. S \in SUBSET Chunks
  BY DEF Members
<1>1. S \subseteq Chunks /\ IsFiniteSet(S)
  <2> HIDE DEF S, key
  <2>. QED  BY <1>0, RetrievalAssumption, FS_Subset
<1>2. key \in [S -> Int]
  BY FirstPlace
<1>3. /\ t \in [1..Cardinality(S) -> S]
      /\ \A m, n \in 1..Cardinality(S) : m < n => Key(t[m]) < Key(t[n])
  BY DEF Rank, SortedBy
<1>4. \A m, n \in 1..Cardinality(S) : m < n => key[t[m]] < key[t[n]]
  BY <1>3
<1>5. t \in Seq(S) /\ Members(t) = S /\ NoRepeats(t)
  <2> HIDE DEF S, key
  <2>. QED  BY <1>1, <1>2, <1>3, <1>4, SortedOnce
<1>. QED  BY <1>1, <1>5

(* A search returns as many of the chunks it may return as it is asked for. *)
LEMMA BestIs ==
  ASSUME NEW S \in SUBSET Chunks, NEW scores \in [Chunks -> Nat], NEW k, NEW f \in Best(S, scores, k)
  PROVE  /\ f \in ScoreFunctions /\ DOMAIN f \subseteq S
         /\ Cardinality(DOMAIN f) = Smaller(k, Cardinality(S))
<1>1. PICK T \in SUBSET S : /\ f = [c \in T |-> scores[c]]
                            /\ Cardinality(T) = Smaller(k, Cardinality(S))
  BY DEF Best
<1>2. f \in [T -> Nat] /\ DOMAIN f = T
  BY <1>1
<1>. QED  BY <1>1, <1>2 DEF ScoreFunctions

-----------------------------------------------------------------------------
(* The inductive invariant. *)

StageOK == stage \in [Indexes -> {"absent", "chunked", "ready", "reopened", "cancelled"}]

(* The limits, and an index that keeps its chunks for the whole call.      *)
RequestOK ==
    /\ topK \in Nat /\ topN \in Nat /\ topN <= topK
    /\ pc # "idle" => index \in Indexes /\ HasEmbeddings(index)

Hit == [vec : ScoreFunctions, fts : ScoreFunctions]

(* Only own chunks are found, by vector as many as there may be.           *)
HitsOK ==
    /\ hits \in Seq(Hit)
    /\ \A q \in 1..Len(hits) :
          /\ DOMAIN hits[q].vec \subseteq OwnChunks /\ DOMAIN hits[q].fts \subseteq OwnChunks
          /\ Cardinality(DOMAIN hits[q].vec) = Smaller(topK, Cardinality(OwnChunks))
    /\ pc = "idle" => hits = <<>>
    /\ pc \in {"text", "merge"} => Len(hits) > 0

(* A ranking of own chunks, none twice, none missing, with their scores.   *)
Ranking(s) ==
    /\ s \in Seq(Chunks) /\ NoRepeats(s) /\ Members(s) \subseteq OwnChunks
    /\ Len(s) = Smaller(topK, Cardinality(OwnChunks))
    /\ \A c \in Members(s) : /\ c \in Candidates(hits)
                             /\ score[c] = Score(hits, c) /\ matchedBy[c] = MatchedBy(hits, c)

RankedOK ==
    /\ pc \in {"load", "rerank", "finish", "answer", "saved"} => Ranking(ranked)
    /\ pc = "load" => IsRanking(ranked, hits, topK)

(* What is stored and shown goes back to that ranking.                     *)
PackOK ==
    /\ pc \in {"answer", "saved"} =>
          pack = ContextPack(SubSeq(ranked, 1, Smaller(topN, Len(ranked))))
    /\ pack # None => pc \in {"answer", "saved"}
    /\ message # None => pc = "saved" /\ message = Citations
    /\ shown # None => pc = "saved"

IInv == StageOK /\ RequestOK /\ HitsOK /\ RankedOK /\ PackOK /\ CitationsNameTheContext

LEMMA InitInv == Init => IInv
<1> SUFFICES ASSUME Init PROVE IInv
  OBVIOUS
<1>1. hits \in Seq(Hit) /\ Len(hits) = 0
  BY DEF Init
<1>. QED
  BY <1>1 DEF Init, IInv, StageOK, RequestOK, HitsOK, RankedOK, PackOK, CitationsNameTheContext

(* The own chunks are finitely many, and stay the same under their index.  *)
LEMMA OwnIsFinite == IsFiniteSet(OwnChunks) /\ Cardinality(OwnChunks) \in Nat
<1>1. OwnChunks \in SUBSET Chunks
  BY DEF OwnChunks
<1>. QED  BY <1>1, RetrievalAssumption, FS_Subset, FS_CardinalityType

LEMMA IndexStepInv ==
  ASSUME IInv, NEW i \in Indexes, IndexStep(i)
  PROVE  IInv'
<1>1. UNCHANGED <<project, pc, index, topK, topN, timed, queries, primary, hits, ranked, score,
                  matchedBy, pack, message, shown>>
  BY DEF IndexStep, request, result, reply
<1>2. StageOK' /\ (pc # "idle" => HasEmbeddings(index)')
  BY <1>1 DEF IInv, StageOK, RequestOK, IndexStep, HasEmbeddings
<1>. QED
  BY <1>1, <1>2 DEF IInv, RequestOK, HitsOK, RankedOK, Ranking, PackOK, CitationsNameTheContext,
     OwnChunks, Citations, ContextPack

LEMMA DeleteProjectInv ==
  ASSUME IInv, DeleteProject
  PROVE  IInv'
<1>1. UNCHANGED <<stage, pc, index, topK, topN, timed, queries, primary, hits, ranked, score,
                  matchedBy, pack, shown>> /\ message' = None
  BY DEF DeleteProject, request, result
<1>. QED
  BY <1>1 DEF IInv, StageOK, RequestOK, HitsOK, RankedOK, Ranking, PackOK, HasEmbeddings,
     CitationsNameTheContext, OwnChunks, ContextPack

LEMMA StartInv ==
  ASSUME IInv, NEW i \in Indexes, NEW r \in Requests, Start(i, r)
  PROVE  IInv'
<1>1. UNCHANGED <<stage, queries, primary, hits, ranked, score, matchedBy, pack, message, shown>>
  BY DEF Start, result, reply
<1>2. pc = "idle" /\ pc' = "rewrite" /\ index' = i /\ stage[i] = "ready"
  BY DEF Start, Goto
<1>3. topK' \in Nat /\ topN' \in Nat /\ topN' <= topK'
  BY RetrievalAssumption DEF Start, Clamp, Smaller
<1>4. HitsOK'
  BY <1>1, <1>2 DEF IInv, HitsOK
<1>. QED
  BY <1>1, <1>2, <1>3, <1>4 DEF IInv, StageOK, RequestOK, RankedOK, PackOK, HasEmbeddings,
     CitationsNameTheContext

(* The steps that only prepare or fail.                                    *)
LEMMA QuietInv ==
  ASSUME IInv, Embed \/ Raises \/ \E answer \in RewriterAnswers : Rewrite(answer)
  PROVE  IInv'
<1>1. UNCHANGED <<stage, index, topK, topN, hits, ranked, score, matchedBy, pack, message, shown>>
  BY DEF Embed, Raises, Rewrite, request, result, reply
<1>2. /\ pc \in {"rewrite", "embed", "vector", "text", "load"}
      /\ pc' \in {"embed", "vector", "failed"}
  BY DEF Embed, Raises, Rewrite, Goto
<1>3. HitsOK'
  BY <1>1, <1>2 DEF IInv, HitsOK, OwnChunks
<1>. QED
  BY <1>1, <1>2, <1>3 DEF IInv, StageOK, RequestOK, RankedOK, PackOK, HasEmbeddings,
     CitationsNameTheContext

LEMMA VectorInv ==
  ASSUME IInv, NEW scores \in Similarities, VectorSearch(scores)
  PROVE  IInv'
<1>1. UNCHANGED <<stage, index, topK, topN, ranked, score, matchedBy, pack, message, shown>>
  BY DEF VectorSearch, request, result, reply
<1>2. pc = "vector" /\ pc' = "text"
  BY DEF VectorSearch, Goto
<1>3. PICK found \in SimilaritySearch(scores) : hits' = Append(hits, [vec |-> found, fts |-> <<>>])
  BY DEF VectorSearch
<1>4. /\ found \in ScoreFunctions /\ DOMAIN found \subseteq OwnChunks
      /\ Cardinality(DOMAIN found) = Smaller(topK, Cardinality(OwnChunks))
  <2>1. {c \in Chunks : IndexOf[c] = index /\ HasEmbeddings(index)} = OwnChunks
    BY <1>2 DEF IInv, RequestOK, OwnChunks
  <2>2. OwnChunks \in SUBSET Chunks /\ scores \in [Chunks -> Nat]
    BY RetrievalAssumption DEF OwnChunks
  <2>. QED  BY <1>3, <2>1, <2>2, BestIs DEF SimilaritySearch
<1>5. <<>> \in ScoreFunctions /\ DOMAIN <<>> = {}
  <2>1. <<>> \in [{} -> Nat] /\ {} \in SUBSET Chunks
    OBVIOUS
  <2>. QED  BY <2>1 DEF ScoreFunctions
<1>6. HitsOK'
  <2> DEFINE h == [vec |-> found, fts |-> <<>>]
  <2>1. h \in Hit /\ h.vec = found /\ DOMAIN h.fts = {}
    BY <1>4, <1>5 DEF Hit
  <2> HIDE DEF h
  <2>2. hits' = Append(hits, h) /\ hits \in Seq(Hit)
    BY <1>3 DEF h, IInv, HitsOK
  <2>3. hits' \in Seq(Hit) /\ Len(hits') = Len(hits) + 1 /\ Len(hits) \in Nat
    BY <2>1, <2>2
  <2>4. ASSUME NEW q \in 1..Len(hits')
        PROVE  hits'[q] = h \/ (q \in 1..Len(hits) /\ hits'[q] = hits[q])
    BY <2>2, <2>3
  <2>5. OwnChunks' = OwnChunks /\ topK' = topK
    BY <1>1 DEF OwnChunks
  <2>6. \A q \in 1..Len(hits') :
           /\ DOMAIN hits'[q].vec \subseteq OwnChunks /\ DOMAIN hits'[q].fts \subseteq OwnChunks
           /\ Cardinality(DOMAIN hits'[q].vec) = Smaller(topK, Cardinality(OwnChunks))
    BY <1>4, <2>1, <2>4 DEF IInv, HitsOK
  <2>. QED  BY <1>2, <2>3, <2>5, <2>6 DEF HitsOK
<1>. QED
  BY <1>1, <1>2, <1>6 DEF IInv, StageOK, RequestOK, RankedOK, PackOK, HasEmbeddings,
     CitationsNameTheContext

LEMMA TextInv ==
  ASSUME IInv, NEW scores \in Ranks, TextSearch(scores)
  PROVE  IInv'
<1>1. UNCHANGED <<stage, index, topK, topN, ranked, score, matchedBy, pack, message, shown>>
  BY DEF TextSearch, request, result, reply
<1>2. pc = "text" /\ pc' \in {"vector", "merge"}
  BY DEF TextSearch
<1>3. PICK found \in FtsSearch(scores) : hits' = [hits EXCEPT ![Len(hits)].fts = found]
  BY DEF TextSearch
<1>4. found \in ScoreFunctions /\ DOMAIN found \subseteq OwnChunks
  <2> DEFINE S == {c \in Chunks : IndexOf[c] = index /\ HasChunks(index) /\ scores[c] > 0}
  <2>1. S \in SUBSET Chunks /\ S \subseteq OwnChunks /\ scores \in [Chunks -> Nat]
    BY RetrievalAssumption DEF OwnChunks
  <2>2. found \in Best(S, scores, topK)
    BY <1>3 DEF FtsSearch
  <2> HIDE DEF S
  <2>. QED  BY <2>1, <2>2, BestIs
<1>5. HitsOK'
  <2>1. hits \in Seq(Hit) /\ Len(hits) \in 1..Len(hits)
    BY <1>2 DEF IInv, HitsOK
  <2>2. hits' = [hits EXCEPT ![Len(hits)] = [hits[Len(hits)] EXCEPT !.fts = found]]
    BY <1>3
  <2> DEFINE h == [hits[Len(hits)] EXCEPT !.fts = found]
  <2>3. h \in Hit /\ h.vec = hits[Len(hits)].vec /\ h.fts = found
    <3>1. hits[Len(hits)] \in Hit
      BY <2>1
    <3>. QED  BY <1>4, <3>1 DEF Hit
  <2> HIDE DEF h
  <2>4. hits' = [hits EXCEPT ![Len(hits)] = h]
    BY <2>2 DEF h
  <2>5. hits' \in Seq(Hit) /\ Len(hits') = Len(hits)
    BY <2>1, <2>3, <2>4
  <2>6. \A q \in 1..Len(hits) : hits'[q] = IF q = Len(hits) THEN h ELSE hits[q]
    BY <2>1, <2>4
  <2>7. OwnChunks' = OwnChunks /\ topK' = topK
    BY <1>1 DEF OwnChunks
  <2>8. \A q \in 1..Len(hits) :
           /\ DOMAIN hits'[q].vec \subseteq OwnChunks /\ DOMAIN hits'[q].fts \subseteq OwnChunks
           /\ Cardinality(DOMAIN hits'[q].vec) = Smaller(topK, Cardinality(OwnChunks))
    BY <1>4, <2>1, <2>3, <2>6 DEF IInv, HitsOK
  <2>. QED  BY <1>2, <2>1, <2>5, <2>7, <2>8 DEF HitsOK
<1>. QED
  BY <1>1, <1>2, <1>5 DEF IInv, StageOK, RequestOK, RankedOK, PackOK, HasEmbeddings,
     CitationsNameTheContext

(* The hits are what the merger is about.                                  *)
LEMMA HitsAre ==
  ASSUME IInv
  PROVE  AreHits(hits) /\ DOMAIN hits = 1..Len(hits) /\ Candidates(hits) \subseteq OwnChunks
<1>1. hits \in Seq(Hit)
  BY DEF IInv, HitsOK
<1>2. DOMAIN hits = 1..Len(hits) /\ IsFiniteSet(DOMAIN hits)
  BY <1>1, FS_Interval
<1>3. ASSUME NEW f \in ScoreFunctions
      PROVE  IsFound(f)
  <2>1. PICK T \in SUBSET Chunks : f \in [T -> Nat]
    BY DEF ScoreFunctions
  <2>2. IsFiniteSet(T)
    BY RetrievalAssumption, FS_Subset
  <2>. QED  BY <2>1, <2>2 DEF IsFound
<1>4. \A q \in DOMAIN hits : hits[q].vec \in ScoreFunctions /\ hits[q].fts \in ScoreFunctions
  <2>1. \A q \in DOMAIN hits : hits[q] \in Hit
    BY <1>1, <1>2
  <2>. QED  BY <2>1 DEF Hit
<1>5. Candidates(hits) \subseteq OwnChunks
  BY <1>2 DEF IInv, HitsOK, Candidates, Found
<1>. QED  BY <1>2, <1>3, <1>4, <1>5 DEF AreHits

(* The merge cuts to top_k what is at least the best of one vector search. *)
LEMMA MergeInv ==
  ASSUME IInv, Merge
  PROVE  IInv'
<1>1. UNCHANGED <<stage, index, topK, topN, hits, pack, message, shown>>
  BY DEF Merge, request, reply
<1>2. pc = "merge" /\ pc' = "load"
  BY DEF Merge, Goto
<1>3. /\ ranked' \in Rankings(hits, topK)
      /\ \A c \in Members(ranked') : score'[c] = Score(hits, c) /\ matchedBy'[c] = MatchedBy(hits, c)
      /\ IsRanking(ranked', hits, topK)
  BY DEF Merge, Rankings
<1> DEFINE found == Candidates(hits)
<1>4. IsFiniteSet(found) /\ Cardinality(found) \in Nat /\ found \subseteq OwnChunks
  <2>1. hits \in Seq(Hit)
    BY DEF IInv, HitsOK
  <2>2. found \in SUBSET OwnChunks
    BY <2>1 DEF IInv, HitsOK, Candidates, Found
  <2> HIDE DEF found
  <2>. QED  BY <2>2, OwnIsFinite, FS_Subset, FS_CardinalityType
<1>5. Smaller(topK, Cardinality(found)) = Smaller(topK, Cardinality(OwnChunks))
  <2>1. hits \in Seq(Hit) /\ 1 \in 1..Len(hits)
    BY <1>2 DEF IInv, HitsOK
  <2>2. DOMAIN hits[1].vec \in SUBSET found
    BY <2>1 DEF Candidates, Found
  <2>3. Cardinality(DOMAIN hits[1].vec) = Smaller(topK, Cardinality(OwnChunks))
    BY <2>1 DEF IInv, HitsOK
  <2> HIDE DEF found
  <2>4. Smaller(topK, Cardinality(OwnChunks)) <= Cardinality(found)
    BY <1>4, <2>2, <2>3, FS_Subset
  <2>5. Cardinality(found) <= Cardinality(OwnChunks)
    BY <1>4, OwnIsFinite, FS_Subset
  <2>6. topK \in Nat
    BY DEF IInv, RequestOK
  <2>. QED  BY <1>4, <2>4, <2>5, <2>6, OwnIsFinite DEF Smaller
<1>6. Ranking(ranked)'
  <2> DEFINE k == Smaller(topK, Cardinality(found))
  <2>1. k \in Nat
    BY <1>4 DEF IInv, RequestOK, Smaller
  <2>2. ranked' \in [1..k -> found] /\ IsRanking(ranked', hits, topK)
    BY <1>3 DEF Rankings
  <2>3. found \subseteq Chunks
    BY <1>4 DEF OwnChunks
  <2>4. OwnChunks' = OwnChunks
    BY <1>1 DEF OwnChunks
  <2> HIDE DEF k, found
  <2>5. ranked' \in Seq(Chunks) /\ Len(ranked') = k /\ Members(ranked') \subseteq found
    BY <2>1, <2>2, <2>3 DEF Members
  <2>6. NoRepeats(ranked')
    <3>1. \A m, n \in 1..k : m < n => ranked'[m] # ranked'[n]
      BY <2>2, <2>5 DEF IsRanking
    <3>2. \A m, n \in 1..k : m # n => ranked'[m] # ranked'[n]
      BY <2>1, <3>1
    <3>. QED  BY <2>5, <3>2 DEF NoRepeats
  <2>7. k = Smaller(topK, Cardinality(OwnChunks))
    BY <1>5 DEF k
  <2>8. Members(ranked') \subseteq Candidates(hits)
    BY <2>5 DEF found
  <2>. QED  BY <1>1, <1>3, <1>4, <2>4, <2>5, <2>6, <2>7, <2>8 DEF Ranking
<1>7. HitsOK'
  BY <1>1, <1>2 DEF IInv, HitsOK, OwnChunks
<1>8. RankedOK'
  BY <1>1, <1>2, <1>3, <1>6 DEF RankedOK
<1>. QED
  BY <1>1, <1>2, <1>7, <1>8 DEF IInv, StageOK, RequestOK, PackOK, HasEmbeddings,
     CitationsNameTheContext

(* Another order of the same chunks is as good a ranking.                  *)
LEMMA Reordered ==
  ASSUME NEW s, Ranking(s), NEW t \in Seq(Chunks), NoRepeats(t), Members(t) = Members(s)
  PROVE  Ranking(t) /\ Len(t) = Len(s)
<1>1. Len(t) \in Nat /\ Len(s) \in Nat
  BY DEF Ranking
<1>2. Len(t) = Cardinality(Members(t))
  BY <1>1, CountMembers
<1>3. Len(s) = Cardinality(Members(s))
  BY <1>1, CountMembers DEF Ranking
<1>. QED  BY <1>2, <1>3 DEF Ranking

(* Nothing is lost on loading: the index still has its chunks.             *)
LEMMA LoadInv ==
  ASSUME IInv, Load
  PROVE  IInv'
<1>1. UNCHANGED <<stage, index, topK, topN, hits, score, matchedBy, pack, message, shown>>
  BY DEF Load, request, reply
<1>2. pc = "load" /\ pc' \in {"rerank", "finish"} /\ ranked' \in Loaded(ranked)
  BY DEF Load
<1>3. Ranking(ranked)
  BY <1>2 DEF IInv, RankedOK
<1>4. /\ ranked' \in Seq(Chunks) /\ NoRepeats(ranked')
      /\ Members(ranked') = Members(ranked)
  <2>1. HasChunks(index)
    BY <1>2 DEF IInv, RequestOK, HasEmbeddings, HasChunks
  <2>2. {c \in Members(ranked) : IndexOf[c] = index /\ HasChunks(index)} = Members(ranked)
    BY <1>3, <2>1 DEF Ranking, OwnChunks
  <2>3. ranked \in Seq(Chunks)
    BY <1>3 DEF Ranking
  <2>. QED  BY <1>2, <2>2, <2>3, LoadedIs
<1>5. Ranking(ranked')
  BY <1>3, <1>4, Reordered
<1>6. Ranking(ranked)'
  BY <1>1, <1>5 DEF Ranking, OwnChunks
<1>7. HitsOK'
  BY <1>1, <1>2 DEF IInv, HitsOK, OwnChunks
<1>. QED
  BY <1>1, <1>2, <1>6, <1>7 DEF IInv, StageOK, RequestOK, RankedOK, PackOK, HasEmbeddings,
     CitationsNameTheContext

(* The reranker's answer only reorders.                                    *)
LEMMA RerankStep ==
  ASSUME IInv, RerankFails \/ \E answer \in RerankerAnswers : Rerank(answer)
  PROVE  /\ Ranking(ranked') /\ Len(ranked') = Len(ranked)
         /\ Members(ranked') = Members(ranked)
<1>1. Ranking(ranked)
  BY DEF IInv, RankedOK, RerankFails, Rerank, Goto
<1>2. CASE RerankFails
  BY <1>1, <1>2 DEF RerankFails, result
<1>3. CASE \E answer \in RerankerAnswers : Rerank(answer)
  <2>1. PICK answer \in RerankerAnswers : ranked' \in Rank(answer, ranked)
    BY <1>3 DEF Rerank
  <2>2. ranked \in Seq(Chunks) /\ answer \in Seq(Chunks \cup {None})
    BY <1>1, <2>1, RetrievalAssumption DEF Ranking
  <2>3. /\ ranked' \in Seq(Chunks) /\ NoRepeats(ranked')
        /\ Members(ranked') = Members(ranked)
    BY <2>1, <2>2, RankIs
  <2>. QED  BY <1>1, <2>3, Reordered
<1>. QED  BY <1>2, <1>3

LEMMA RerankInv ==
  ASSUME IInv, RerankFails \/ \E answer \in RerankerAnswers : Rerank(answer)
  PROVE  IInv'
<1>1. UNCHANGED <<stage, index, topK, topN, hits, score, matchedBy, pack, message, shown>>
  BY DEF RerankFails, Rerank, request, result, reply
<1>2. pc = "rerank" /\ pc' = "finish"
  BY DEF RerankFails, Rerank, Goto
<1>3. Ranking(ranked)'
  BY <1>1, RerankStep DEF Ranking, OwnChunks
<1>4. HitsOK'
  BY <1>1, <1>2 DEF IInv, HitsOK, OwnChunks
<1>. QED
  BY <1>1, <1>2, <1>3, <1>4 DEF IInv, StageOK, RequestOK, RankedOK, PackOK, HasEmbeddings,
     CitationsNameTheContext

LEMMA FinishInv ==
  ASSUME IInv, Finish
  PROVE  IInv'
<1>1. UNCHANGED <<stage, index, topK, topN, queries, primary, hits, ranked, score, matchedBy,
                  message, shown>>
  BY DEF Finish, request, result
<1>2. pc = "finish" /\ pc' = "answer"
  BY DEF Finish, Goto
<1>3. pack' = ContextPack(SubSeq(ranked, 1, Smaller(topN, Len(ranked))))
  BY DEF Finish
<1>4. HitsOK' /\ RankedOK'
  BY <1>1, <1>2 DEF IInv, HitsOK, RankedOK, Ranking, OwnChunks
<1>5. PackOK'
  BY <1>1, <1>2, <1>3 DEF IInv, PackOK, ContextPack
<1>. QED
  BY <1>1, <1>2, <1>4, <1>5 DEF IInv, StageOK, RequestOK, PackOK, HasEmbeddings,
     CitationsNameTheContext

LEMMA SaveInv ==
  ASSUME IInv, SaveAnswer
  PROVE  IInv'
<1>1. UNCHANGED <<stage, index, topK, topN, queries, primary, hits, ranked, score, matchedBy,
                  pack, shown>>
  BY DEF SaveAnswer, request, result
<1>2. pc = "answer" /\ pc' = "saved" /\ message' = Citations
  BY DEF SaveAnswer, Goto
<1>3. HitsOK' /\ RankedOK'
  BY <1>1, <1>2 DEF IInv, HitsOK, RankedOK, Ranking, OwnChunks
<1>4. PackOK'
  BY <1>1, <1>2 DEF IInv, PackOK, ContextPack, Citations
<1>. QED
  BY <1>1, <1>2, <1>3, <1>4 DEF IInv, StageOK, RequestOK, PackOK, HasEmbeddings,
     CitationsNameTheContext

(* The context of a call that has ended its search: own chunks with the    *)
(* scores of the merge, none twice.                                        *)
LEMMA ContextIs ==
  ASSUME IInv, pc \in {"answer", "saved"}
  PROVE  /\ pack.index = index
         /\ Len(pack.chunks) = Smaller(topN, Cardinality(OwnChunks))
         /\ Len(pack.chunks) \in Nat /\ Len(pack.chunks) <= Len(ranked)
         /\ \A n \in 1..Len(pack.chunks) :
               /\ pack.chunks[n].chunk = ranked[n] /\ ranked[n] \in OwnChunks
               /\ pack.chunks[n].score = Score(hits, ranked[n])
<1> DEFINE k == Smaller(topN, Len(ranked))
           kept == SubSeq(ranked, 1, k)
<1>1. Ranking(ranked) /\ pack = ContextPack(kept)
  BY DEF IInv, RankedOK, PackOK
<1>2. topK \in Nat /\ topN \in Nat /\ topN <= topK
  BY DEF IInv, RequestOK
<1>3. ranked \in Seq(Chunks) /\ Len(ranked) \in Nat
  BY <1>1 DEF Ranking
<1>4. k \in 0..Len(ranked) /\ k = Smaller(topN, Cardinality(OwnChunks))
  BY <1>1, <1>2, <1>3, OwnIsFinite DEF Ranking, Smaller
<1> HIDE DEF k
<1>5. Len(kept) = k /\ \A n \in 1..k : kept[n] = ranked[n]
  BY <1>3, <1>4
<1> HIDE DEF kept
<1>6. /\ pack.index = index
      /\ pack.chunks = [n \in 1..k |-> [chunk |-> kept[n], score |-> score[kept[n]],
                                        matchedBy |-> matchedBy[kept[n]]]]
  BY <1>1, <1>5 DEF ContextPack
<1>7. Len(pack.chunks) = k
  BY <1>4, <1>6
<1>8. \A n \in 1..k : ranked[n] \in Members(ranked)
  BY <1>3, <1>4 DEF Members
<1>. QED  BY <1>1, <1>4, <1>5, <1>6, <1>7, <1>8 DEF Ranking

LEMMA ReadInv ==
  ASSUME IInv, ReadMessages
  PROVE  IInv'
<1>1. UNCHANGED <<stage, pc, index, topK, topN, queries, primary, hits, ranked, score, matchedBy,
                  pack, message>>
  BY DEF ReadMessages, request, result
<1>2. pc = "saved" /\ message = Citations
  BY DEF ReadMessages, IInv, PackOK
<1>3. HitsOK' /\ RankedOK'
  BY <1>1, <1>2 DEF IInv, HitsOK, RankedOK, Ranking, OwnChunks
<1>4. PackOK'
  BY <1>1, <1>2 DEF IInv, PackOK, ContextPack, Citations
<1>5. CitationsNameTheContext'
  <2> DEFINE k == Len(pack.chunks)
             Plain(n) == [chunk |-> message.chunks[n].chunk, score |-> message.chunks[n].score,
                          matchedBy |-> message.chunks[n].matchedBy, content |-> None]
             plain == [n \in 1..k |-> Plain(n)]
  <2>1. message.index = pack.index /\ message.chunks = pack.chunks /\ k \in Nat
    BY <1>2, ContextIs DEF Citations
  <2>2. Restored = [index |-> pack.index, chunks |-> plain, rewritten |-> pack.rewritten,
                    queries |-> pack.queries, question |-> pack.question]
    BY <1>2, <2>1 DEF Restored, Citations
  <2>3. \A n \in 1..k : ContentOf(pack.chunks[n].chunk) = pack.chunks[n].chunk
    <3>1. HasChunks(index)
      BY <1>2 DEF IInv, RequestOK, HasEmbeddings, HasChunks
    <3>. QED  BY <1>2, <2>1, <3>1, ContextIs DEF ContentOf, OwnChunks
  <2>4. CASE message.chunks = <<>>
    <3>1. shown' = Restored /\ k = 0
      BY <2>1, <2>4 DEF ReadMessages
    <3>2. shown'.index = pack.index /\ shown'.chunks = plain /\ Len(plain) = 0
      BY <2>2, <3>1
    <3>. QED  BY <1>1, <2>1, <3>1, <3>2 DEF CitationsNameTheContext
  <2>5. CASE message.chunks # <<>>
    <3> DEFINE full == [n \in 1..k |-> [plain[n] EXCEPT !.content = ContentOf(plain[n].chunk),
                                                        !.matchedBy = None]]
    <3>1. k = Len(plain)
      BY <2>1
    <3>2. shown' = [Restored EXCEPT
                       !.chunks = [n \in 1..Len(Restored.chunks) |->
                                     [Restored.chunks[n] EXCEPT
                                        !.content = ContentOf(Restored.chunks[n].chunk),
                                        !.matchedBy = None]],
                       !.rewritten = message.queries, !.queries = None, !.question = None]
      BY <2>5 DEF ReadMessages
    <3>3. Restored.chunks = plain
      BY <2>2
    <3>4. shown'.chunks = full /\ shown'.index = pack.index
      <4> HIDE DEF plain
      <4>. QED  BY <2>2, <3>1, <3>2, <3>3
    <3>5. \A n \in 1..k : /\ plain[n].chunk = pack.chunks[n].chunk
                          /\ plain[n].score = pack.chunks[n].score
                          /\ DOMAIN plain[n] = {"chunk", "score", "matchedBy", "content"}
      BY <2>1
    <3>6. \A n \in 1..k : /\ full[n].chunk = pack.chunks[n].chunk
                          /\ full[n].score = pack.chunks[n].score
                          /\ full[n].content = ContentOf(pack.chunks[n].chunk)
      <4> HIDE DEF plain
      <4>. QED  BY <3>5
    <3>7. Len(shown'.chunks) = k
      <4>1. k \in Nat
        BY <2>1
      <4> HIDE DEF plain, k
      <4>2. Len(full) = k
        BY <4>1
      <4> HIDE DEF full
      <4>. QED  BY <3>4, <4>2
    <3>8. \A n \in 1..k : pack.chunks[n].score = Score(hits, pack.chunks[n].chunk)
      BY <1>2, ContextIs
    <3> HIDE DEF full
    <3>. QED  BY <1>1, <2>3, <3>4, <3>6, <3>7, <3>8 DEF CitationsNameTheContext
  <2>. QED  BY <2>4, <2>5
<1>. QED
  BY <1>1, <1>2, <1>3, <1>4, <1>5 DEF IInv, StageOK, RequestOK, HasEmbeddings

LEMMA NextInv == IInv /\ [Next]_vars => IInv'
<1> SUFFICES ASSUME IInv, [Next]_vars PROVE IInv'
  OBVIOUS
<1>1. CASE \E i \in Indexes : IndexStep(i) \/ \E r \in Requests : Start(i, r)
  BY <1>1, IndexStepInv, StartInv
<1>2. CASE DeleteProject
  BY <1>2, DeleteProjectInv
<1>3. CASE Embed \/ Raises \/ \E answer \in RewriterAnswers : Rewrite(answer)
  BY <1>3, QuietInv
<1>4. CASE \E scores \in Similarities : VectorSearch(scores)
  BY <1>4, VectorInv
<1>5. CASE \E scores \in Ranks : TextSearch(scores)
  BY <1>5, TextInv
<1>6. CASE Merge \/ Load \/ Finish
  BY <1>6, MergeInv, LoadInv, FinishInv
<1>7. CASE RerankFails \/ \E answer \in RerankerAnswers : Rerank(answer)
  BY <1>7, RerankInv
<1>8. CASE SaveAnswer \/ ReadMessages
  BY <1>8, SaveInv, ReadInv
<1>9. CASE UNCHANGED vars
  BY <1>9
     DEF vars, request, result, reply, IInv, StageOK, RequestOK, HitsOK, RankedOK, Ranking, PackOK,
         HasEmbeddings, CitationsNameTheContext, OwnChunks, ContextPack, Citations
<1>. QED  BY <1>1, <1>2, <1>3, <1>4, <1>5, <1>6, <1>7, <1>8, <1>9 DEF Next

-----------------------------------------------------------------------------
(* The theorems. *)

(* From the start of the call to the reading of its answer, rankings hold  *)
(* own chunks once and citations go back to them (IInv).                   *)
THEOREM Invariance == Spec => []IInv
  BY InitInv, NextInv, PTL DEF Spec

(* Whatever the searches and models answer, and whatever happens to the    *)
(* index meanwhile, the context holds chunks of the index asked for, none  *)
(* twice (ContextIsOwn).                                                   *)
THEOREM ContextIsOwnAlways == Spec => []ContextIsOwn
<1>1. IInv => ContextIsOwn
  <2> SUFFICES ASSUME IInv, pack # None
               PROVE  /\ CitedChunks(pack.chunks) \subseteq OwnChunks
                      /\ Cardinality(CitedChunks(pack.chunks)) = Len(pack.chunks)
                      /\ pack.index = index /\ HasEmbeddings(index)
    BY DEF ContextIsOwn
  <2>1. pc \in {"answer", "saved"} /\ HasEmbeddings(index)
    BY DEF IInv, PackOK, RequestOK
  <2> DEFINE k == Len(pack.chunks)
             cited == [n \in 1..k |-> pack.chunks[n].chunk]
  <2>2. Ranking(ranked)
    BY <2>1 DEF IInv, RankedOK
  <2>3. k \in Nat /\ Len(cited) = k /\ NoRepeats(cited)
    BY <2>1, <2>2, ContextIs DEF Ranking, NoRepeats
  <2>4. Members(cited) = CitedChunks(pack.chunks)
    <3>1. {cited[n] : n \in 1..k} = {pack.chunks[n].chunk : n \in 1..k}
      BY DEF CitedChunks
    <3> HIDE DEF cited
    <3>. QED  BY <2>3, <3>1 DEF Members, CitedChunks
  <2>5. CitedChunks(pack.chunks) \subseteq OwnChunks
    BY <2>1, ContextIs DEF CitedChunks
  <2>6. Cardinality(CitedChunks(pack.chunks)) = k
    <3> HIDE DEF cited
    <3>. QED  BY <2>3, <2>4, CountMembers
  <2>. QED  BY <2>1, <2>5, <2>6, ContextIs
<1>. QED  BY <1>1, Invariance, PTL

(* Merging, loading and reranking lose no chunk: the context is as long as *)
(* asked and as the index allows (ContextIsFull).                          *)
THEOREM ContextIsFullAlways == Spec => []ContextIsFull
<1>1. IInv => ContextIsFull
  BY ContextIs DEF ContextIsFull, IInv, PackOK
<1>. QED  BY <1>1, Invariance, PTL

(* A citation that is read back names the chunks of the context, with      *)
(* their scores and texts, also when the index has been reopened           *)
(* (CitationsNameTheContext).                                              *)
THEOREM CitationsAreTrue == Spec => []CitationsNameTheContext
<1>1. IInv => CitationsNameTheContext
  BY DEF IInv
<1>. QED  BY <1>1, Invariance, PTL

(* Whatever the reranker answers, or if it does not, the same chunks go on *)
(* (RerankOnlyReorders).                                                   *)
THEOREM RerankingOnlyReorders == Spec => RerankOnlyReorders
<1>1. IInv /\ [Next]_vars =>
        [pc = "rerank" => Members(ranked') = Members(ranked) /\ Len(ranked') = Len(ranked)]_vars
  <2> SUFFICES ASSUME IInv, Next, pc = "rerank"
               PROVE  Members(ranked') = Members(ranked) /\ Len(ranked') = Len(ranked)
    OBVIOUS
  <2>1. \/ RerankFails \/ \E answer \in RerankerAnswers : Rerank(answer)
        \/ ranked' = ranked
    BY DEF Next, IndexStep, Start, DeleteProject, Rewrite, Embed, Raises, VectorSearch, TextSearch,
           Merge, Load, Finish, SaveAnswer, ReadMessages, Goto, result
  <2>. QED  BY <2>1, RerankStep
<1>. QED  BY <1>1, Invariance, PTL DEF Spec, RerankOnlyReorders

(* Weights, normalisation and the best of the queries never put a chunk    *)
(* behind one that it matches at least as well everywhere, unless the two  *)
(* tie and the other comes first in the paper (BetterMatchesComeFirst).    *)
THEOREM BetterMatchesAreFirst == Spec => []BetterMatchesComeFirst
<1>1. IInv => BetterMatchesComeFirst
  <2> SUFFICES ASSUME IInv, pc = "load", NEW n \in 1..Len(ranked), NEW c \in OwnChunks,
                      c # ranked[n], Dominates(c, ranked[n]),
                      ~ \E m \in 1..(n - 1) : ranked[m] = c
               PROVE  Position[ranked[n]] < Position[c] /\ Score(hits, c) = Score(hits, ranked[n])
    BY DEF BetterMatchesComeFirst
  <2> DEFINE b == ranked[n]
  <2>1. Ranking(ranked) /\ IsRanking(ranked, hits, topK)
    BY DEF IInv, RankedOK
  <2>2. Len(ranked) \in Nat /\ b \in Candidates(hits) /\ b \in OwnChunks
    BY <2>1 DEF Ranking, Members
  <2>3. \A q \in DOMAIN hits : \A f \in {hits[q].vec, hits[q].fts} :
            b \in DOMAIN f => c \in DOMAIN f /\ f[c] >= f[b]
    BY HitsAre DEF Dominates
  <2> HIDE DEF b
  <2>4. c \in Candidates(hits) /\ Score(hits, c) >= Score(hits, b)
    BY <2>2, <2>3, HitsAre, BetterMatchScoresHigher
  <2>5. Score(hits, c) \in Nat /\ Score(hits, b) \in Nat
    BY <2>2, <2>4, HitsAre, ScoreIs
  <2>6. Position[c] \in Nat /\ Position[b] \in Nat /\ Position[c] # Position[b]
    BY <2>2, RetrievalAssumption DEF OwnChunks, b
  <2>7. ~ Before(hits, c, b)
    <3>1. CASE \E m \in 1..Len(ranked) : ranked[m] = c
      <4>1. PICK m \in 1..Len(ranked) : ranked[m] = c
        BY <3>1
      <4>2. n < m
        BY <2>2, <4>1 DEF b
      <4>. QED  BY <2>1, <4>1, <4>2 DEF IsRanking, b
    <3>2. CASE ~ \E m \in 1..Len(ranked) : ranked[m] = c
      BY <2>1, <2>4, <3>2 DEF IsRanking, b
    <3>. QED  BY <3>1, <3>2
  <2>. QED  BY <2>4, <2>5, <2>6, <2>7 DEF Before, b
<1>. QED  BY <1>1, Invariance, PTL

(* What an invariant of a single step can say of the types.                *)
PlainTypes ==
    /\ project \in BOOLEAN
    /\ pc \in {"idle", "rewrite", "embed", "vector", "text", "merge", "load", "rerank", "finish",
               "answer", "saved", "failed"}
    /\ index \in Indexes \cup {None} /\ timed \in BOOLEAN
    /\ topK \in 0..MaxTopK /\ topN \in 0..Smaller(topK, MaxTopN)
    /\ ranked \in Seq(Chunks)

LEMMA PlainTypesStep == IInv /\ IInv' /\ PlainTypes /\ [Next]_vars => PlainTypes'
<1> SUFFICES ASSUME IInv, IInv', PlainTypes, [Next]_vars PROVE PlainTypes'
  OBVIOUS
<1> USE DEF request, result, reply
<1>1. ASSUME NEW i \in Indexes, NEW r \in Requests, Start(i, r) PROVE PlainTypes'
  <2>1. r.topK \in Int /\ r.topN \in Int /\ r.timed \in BOOLEAN
    BY RetrievalAssumption
  <2>2. topK' \in 0..MaxTopK /\ topN' \in 0..Smaller(topK', MaxTopN)
    BY <1>1, <2>1, RetrievalAssumption DEF Start, Clamp, Smaller
  <2>. QED  BY <1>1, <2>1, <2>2 DEF Start, Goto, PlainTypes
<1>2. CASE Merge
  <2>1. ranked' \in Seq(Chunks)
    BY <1>2 DEF Merge, Goto, IInv, RankedOK, Ranking
  <2>. QED  BY <1>2, <2>1 DEF Merge, Goto, PlainTypes
<1>3. CASE Load
  <2>1. pc' \in {"rerank", "finish"}
    BY <1>3 DEF Load
  <2>2. ranked' \in Seq(Chunks)
    BY <2>1 DEF IInv, RankedOK, Ranking
  <2>. QED  BY <1>3, <2>1, <2>2 DEF Load, PlainTypes
<1>4. ASSUME NEW answer \in RerankerAnswers, Rerank(answer) PROVE PlainTypes'
  <2>1. ranked' \in Seq(Chunks)
    BY <1>4 DEF Rerank, Goto, IInv, RankedOK, Ranking
  <2>. QED  BY <1>4, <2>1 DEF Rerank, Goto, PlainTypes
<1>5. CASE \/ \E i \in Indexes : IndexStep(i)
           \/ DeleteProject \/ \E answer \in RewriterAnswers : Rewrite(answer)
           \/ Embed \/ Raises \/ RerankFails \/ Finish \/ SaveAnswer \/ ReadMessages
           \/ \E scores \in Similarities : VectorSearch(scores)
           \/ \E scores \in Ranks : TextSearch(scores)
  BY <1>5 DEF IndexStep, DeleteProject, Rewrite, Embed, Raises, VectorSearch, TextSearch,
     RerankFails, Finish, SaveAnswer, ReadMessages, Goto, PlainTypes
<1>6. CASE UNCHANGED vars
  BY <1>6 DEF vars, PlainTypes
<1>. QED  BY <1>1, <1>2, <1>3, <1>4, <1>5, <1>6 DEF Next

(* Rows, call and answer keep their types; the scores are numbers (TypeOK). *)
THEOREM TypeCorrect == Spec => []TypeOK
<1>1. Init => PlainTypes
  <2>1. 0 \in 0..MaxTopK /\ 0 \in 0..Smaller(0, MaxTopN)
    BY RetrievalAssumption DEF Smaller
  <2>2. <<>> \in Seq(Chunks)
    OBVIOUS
  <2>. QED  BY <2>1, <2>2 DEF Init, PlainTypes
<1>2. IInv /\ PlainTypes => TypeOK
  <2> SUFFICES ASSUME IInv, PlainTypes PROVE TypeOK
    OBVIOUS
  <2>1. ASSUME NEW n \in 1..Len(hits), NEW f \in {hits[n].vec, hits[n].fts}
        PROVE  DOMAIN f \subseteq Chunks /\ f \in [DOMAIN f -> Nat]
    <3>1. IsFound(f)
      BY <2>1, HitsAre DEF AreHits
    <3>2. DOMAIN f \subseteq OwnChunks
      BY <2>1 DEF IInv, HitsOK
    <3>. QED  BY <3>1, <3>2 DEF IsFound, OwnChunks
  <2>2. ASSUME pack # None
        PROVE  pack.chunks \in Seq([chunk : Chunks, score : Nat, matchedBy : SUBSET Nat])
    <3> DEFINE k == Smaller(topN, Len(ranked))
               kept == SubSeq(ranked, 1, k)
               Entry(n) == [chunk |-> kept[n], score |-> score[kept[n]],
                            matchedBy |-> matchedBy[kept[n]]]
    <3>1. Ranking(ranked) /\ pack = ContextPack(kept)
      BY <2>2 DEF IInv, RankedOK, PackOK
    <3>2. ranked \in Seq(Chunks) /\ Len(ranked) \in Nat /\ topN \in Nat
      BY <3>1 DEF Ranking, IInv, RequestOK
    <3>3. k \in 0..Len(ranked)
      BY <3>2 DEF Smaller
    <3> HIDE DEF k
    <3>4. Len(kept) = k /\ \A n \in 1..k : kept[n] = ranked[n]
      BY <3>2, <3>3
    <3> HIDE DEF kept
    <3>5. \A n \in 1..k : Entry(n) \in [chunk : Chunks, score : Nat, matchedBy : SUBSET Nat]
      <4> SUFFICES ASSUME NEW n \in 1..k
                   PROVE  Entry(n) \in [chunk : Chunks, score : Nat, matchedBy : SUBSET Nat]
        OBVIOUS
      <4>1. kept[n] = ranked[n] /\ ranked[n] \in Members(ranked) /\ ranked[n] \in Chunks
        BY <3>2, <3>3, <3>4 DEF Members
      <4>2. /\ ranked[n] \in Candidates(hits)
            /\ score[ranked[n]] = Score(hits, ranked[n])
            /\ matchedBy[ranked[n]] = MatchedBy(hits, ranked[n])
        BY <3>1, <4>1 DEF Ranking
      <4>3. Score(hits, ranked[n]) \in Nat /\ MatchedBy(hits, ranked[n]) \in SUBSET Nat
        BY <4>2, HitsAre, ScoreIs DEF MatchedBy
      <4>. QED  BY <4>1, <4>2, <4>3
    <3>6. pack.chunks = [n \in 1..k |-> Entry(n)] /\ k \in Nat
      BY <3>1, <3>3, <3>4 DEF ContextPack
    <3> HIDE DEF Entry
    <3>. QED  BY <3>5, <3>6
  <2>3. StageOK
    BY DEF IInv
  <2>. QED  BY <2>1, <2>2, <2>3 DEF PlainTypes, StageOK, TypeOK
<1>3. IInv /\ IInv' /\ PlainTypes /\ [Next]_vars => PlainTypes'
  BY PlainTypesStep
<1>. QED  BY <1>1, <1>2, <1>3, Invariance, PTL DEF Spec

-----------------------------------------------------------------------------
(* The queries: what the code builds by walks over lists. *)

QueryLists == {l \in Seq(Texts \ Blank) : NoRepeats(l)}

LEMMA AppendedList ==
  ASSUME NEW l \in QueryLists, NEW t \in Texts \ Blank, t \notin Members(l)
  PROVE  /\ Append(l, t) \in QueryLists
         /\ Members(l) \subseteq Members(Append(l, t)) /\ t \in Members(Append(l, t))
<1> DEFINE a == Append(l, t)
<1>1. l \in Seq(Texts \ Blank) /\ Len(l) \in Nat /\ NoRepeats(l)
  BY DEF QueryLists
<1>2. /\ a \in Seq(Texts \ Blank) /\ Len(a) = Len(l) + 1
      /\ a[Len(l) + 1] = t /\ \A n \in 1..Len(l) : a[n] = l[n]
  BY <1>1
<1> HIDE DEF a
<1>3. \A n \in 1..Len(l) : l[n] # t
  BY DEF Members
<1>4. NoRepeats(a)
  BY <1>1, <1>2, <1>3 DEF NoRepeats
<1>5. Members(l) \subseteq Members(a) /\ t \in Members(a)
  BY <1>1, <1>2 DEF Members
<1>. QED  BY <1>2, <1>4, <1>5 DEF QueryLists, a

LEMMA AddNewIs ==
  ASSUME NEW l \in QueryLists, NEW t \in Texts \ Blank
  PROVE  /\ AddNew(l, t) \in QueryLists
         /\ Members(l) \subseteq Members(AddNew(l, t)) /\ t \in Members(AddNew(l, t))
<1>1. CASE t \in Members(l)
  BY <1>1 DEF AddNew, Members
<1>2. CASE t \notin Members(l)
  <2>1. AddNew(l, t) = Append(l, t)
    BY <1>2 DEF AddNew, Members
  <2>. QED  BY <1>2, <2>1, AppendedList
<1>. QED  BY <1>1, <1>2

(* Adding what is new of a list, element by element: what a list that is   *)
(* kept so far holds, it goes on to hold.                                  *)
LEMMA AddAllIs ==
  ASSUME NEW l \in QueryLists, NEW s \in Seq(Texts \ Blank)
  PROVE  /\ FoldLeft(AddNew, l, s) \in QueryLists
         /\ Members(l) \subseteq Members(FoldLeft(AddNew, l, s))
<1> DEFINE k == Len(s)
           Lists == {m \in QueryLists : Members(l) \subseteq Members(m)}
           iter[t \in SUBSET DOMAIN s] ==
               IF t = {} THEN l ELSE AddNew(iter[t \ {Max(t)}], s[Max(t)])
           step == [n \in 1..k |-> [m \in Lists |-> AddNew(m, s[n])]]
<1>1. FoldLeft(AddNew, l, s) = iter[DOMAIN s]
  BY DEF FoldLeft, MapThenFoldSet
<1>2. k \in Nat /\ DOMAIN s = 1..k /\ l \in Lists
  OBVIOUS
<1>3. ASSUME NEW m \in Lists, NEW n \in 1..k PROVE AddNew(m, s[n]) \in Lists
  <2>1. s[n] \in Texts \ Blank /\ m \in QueryLists
    BY <1>2
  <2>. QED  BY <2>1, AddNewIs
<1> HIDE DEF k, Lists
<1>4. step \in [1..k -> [Lists -> Lists]]
  BY <1>3
<1>5. PICK g : FoldsTo(g, k, Lists, l, step)
  <2> HIDE DEF step
  <2>. QED  BY <1>2, <1>4, FoldExists
<1>6. g = [t \in SUBSET DOMAIN s |->
             IF t = {} THEN l ELSE AddNew(g[t \ {Max(t)}], s[Max(t)])]
  BY <1>2, <1>5 DEF FoldsTo
<1>7. iter = [t \in SUBSET DOMAIN s |->
                IF t = {} THEN l ELSE AddNew(iter[t \ {Max(t)}], s[Max(t)])]
  BY <1>6 DEF iter
<1> HIDE DEF iter
<1>8. ASSUME NEW n \in 1..k, iter[(1..n) \ {Max(1..n)}] \in Lists
      PROVE  iter[1..n] \in Lists
  <2>1. Max(1..n) = n
    BY <1>2, MaxOfInterval
  <2>2. 1..n \in SUBSET DOMAIN s /\ 1..n # {}
    BY <1>2
  <2>3. iter[1..n] = AddNew(iter[(1..n) \ {Max(1..n)}], s[Max(1..n)])
    BY <1>7, <2>2
  <2>. QED  BY <1>3, <1>8, <2>1, <2>3
<1>9. iter[1..k] \in Lists
  <2>1. iter[{}] \in Lists
    BY <1>2, <1>7
  <2>. QED  BY <1>2, <1>8, <2>1, FoldStays
<1>. QED  BY <1>1, <1>2, <1>9 DEF Lists


(* ... and so with every acronym of a list of texts.                       *)
LEMMA SearchedIs ==
  ASSUME NEW q \in QueryLists
  PROVE  Searched(q) \in QueryLists /\ Question \in Members(Searched(q))
<1> DEFINE l == AddNew(q, Question)
           k == Len(l)
           Lists == {m \in QueryLists : Members(l) \subseteq Members(m)}
           AddAcronyms(list, t) == FoldLeft(AddNew, list, AcronymsOf[t])
           iter[t \in SUBSET DOMAIN l] ==
               IF t = {} THEN l ELSE AddAcronyms(iter[t \ {Max(t)}], l[Max(t)])
           step == [n \in 1..k |-> [m \in Lists |-> AddAcronyms(m, l[n])]]
<1>1. Searched(q) = iter[DOMAIN l]
  BY DEF Searched, FoldLeft, MapThenFoldSet
<1>2. l \in QueryLists /\ Question \in Members(l)
  BY AddNewIs, RetrievalAssumption
<1> HIDE DEF l
<1>3. k \in Nat /\ DOMAIN l = 1..k /\ l \in Lists /\ l \in Seq(Texts \ Blank)
  BY <1>2 DEF QueryLists
<1>4. ASSUME NEW m \in Lists, NEW n \in 1..k PROVE AddAcronyms(m, l[n]) \in Lists
  <2>1. l[n] \in Texts /\ m \in QueryLists /\ Members(l) \subseteq Members(m)
    BY <1>3
  <2>2. AcronymsOf[l[n]] \in Seq(Texts \ Blank)
    BY <2>1, AcronymAssumption
  <2>. QED  BY <2>1, <2>2, AddAllIs
<1> HIDE DEF k, Lists, AddAcronyms
<1>5. step \in [1..k -> [Lists -> Lists]]
  BY <1>4
<1>6. PICK g : FoldsTo(g, k, Lists, l, step)
  <2> HIDE DEF step
  <2>. QED  BY <1>3, <1>5, FoldExists
<1>7. g = [t \in SUBSET DOMAIN l |->
             IF t = {} THEN l ELSE AddAcronyms(g[t \ {Max(t)}], l[Max(t)])]
  BY <1>3, <1>6 DEF FoldsTo
<1>8. iter = [t \in SUBSET DOMAIN l |->
                IF t = {} THEN l ELSE AddAcronyms(iter[t \ {Max(t)}], l[Max(t)])]
  BY <1>7 DEF iter
<1> HIDE DEF iter
<1>9. ASSUME NEW n \in 1..k, iter[(1..n) \ {Max(1..n)}] \in Lists
      PROVE  iter[1..n] \in Lists
  <2>1. Max(1..n) = n
    BY <1>3, MaxOfInterval
  <2>2. 1..n \in SUBSET DOMAIN l /\ 1..n # {}
    BY <1>3
  <2>3. iter[1..n] = AddAcronyms(iter[(1..n) \ {Max(1..n)}], l[Max(1..n)])
    BY <1>8, <2>2
  <2>. QED  BY <1>4, <1>9, <2>1, <2>3
<1>10. iter[1..k] \in Lists
  <2>1. iter[{}] \in Lists
    BY <1>3, <1>8
  <2>. QED  BY <1>3, <1>9, <2>1, FoldStays
<1>. QED  BY <1>1, <1>2, <1>3, <1>10 DEF Lists

(* The rewriter's answer without what is blank and what has been there.    *)
LEMMA DistinctIs ==
  ASSUME NEW s \in Seq(Texts)
  PROVE  Distinct(s) \in QueryLists
<1> DEFINE k == Len(s)
           Keep(kept, t) ==
               IF t \in Blank \/ \E n \in 1..Len(kept) : KeyOf[kept[n]] = KeyOf[t]
               THEN kept ELSE Append(kept, t)
           iter[t \in SUBSET DOMAIN s] ==
               IF t = {} THEN <<>> ELSE Keep(iter[t \ {Max(t)}], s[Max(t)])
           step == [n \in 1..k |-> [m \in QueryLists |-> Keep(m, s[n])]]
<1>1. Distinct(s) = iter[DOMAIN s]
  BY DEF Distinct, FoldLeft, MapThenFoldSet
<1>2. k \in Nat /\ DOMAIN s = 1..k /\ <<>> \in QueryLists
  BY DEF QueryLists, NoRepeats
<1>3. ASSUME NEW m \in QueryLists, NEW n \in 1..k PROVE Keep(m, s[n]) \in QueryLists
  <2>1. s[n] \in Texts
    BY <1>2
  <2>2. CASE s[n] \in Blank \/ \E j \in 1..Len(m) : KeyOf[m[j]] = KeyOf[s[n]]
    BY <2>2
  <2>3. CASE ~(s[n] \in Blank \/ \E j \in 1..Len(m) : KeyOf[m[j]] = KeyOf[s[n]])
    <3>1. s[n] \in Texts \ Blank /\ s[n] \notin Members(m)
      BY <2>1, <2>3 DEF Members
    <3>. QED  BY <2>3, <3>1, AppendedList
  <2>. QED  BY <2>2, <2>3
<1> HIDE DEF k, Keep
<1>4. step \in [1..k -> [QueryLists -> QueryLists]]
  BY <1>3
<1>5. PICK g : FoldsTo(g, k, QueryLists, <<>>, step)
  <2> HIDE DEF step
  <2>. QED  BY <1>2, <1>4, FoldExists
<1>6. g = [t \in SUBSET DOMAIN s |->
             IF t = {} THEN <<>> ELSE Keep(g[t \ {Max(t)}], s[Max(t)])]
  BY <1>2, <1>5 DEF FoldsTo
<1>7. iter = [t \in SUBSET DOMAIN s |->
                IF t = {} THEN <<>> ELSE Keep(iter[t \ {Max(t)}], s[Max(t)])]
  BY <1>6 DEF iter
<1> HIDE DEF iter
<1>8. ASSUME NEW n \in 1..k, iter[(1..n) \ {Max(1..n)}] \in QueryLists
      PROVE  iter[1..n] \in QueryLists
  <2>1. Max(1..n) = n
    BY <1>2, MaxOfInterval
  <2>2. 1..n \in SUBSET DOMAIN s /\ 1..n # {}
    <3>1. k \in Nat /\ DOMAIN s = 1..k
      BY <1>2
    <3>2. n \in 1..n /\ 1..n \subseteq 1..k
      BY <3>1
    <3>. QED  BY <3>1, <3>2
  <2>3. iter[1..n] = Keep(iter[(1..n) \ {Max(1..n)}], s[Max(1..n)])
    BY <1>7, <2>2
  <2>. QED  BY <1>3, <1>8, <2>1, <2>3
<1>9. iter[1..k] \in QueryLists
  <2>1. iter[{}] \in QueryLists
    BY <1>2, <1>7
  <2>. QED  BY <1>2, <1>8, <2>1, FoldStays
<1>. QED  BY <1>1, <1>2, <1>9


LEMMA NormalizedIs ==
  ASSUME NEW s \in Seq(Texts)
  PROVE  NormalizeQueries(s) \in QueryLists /\ Len(NormalizeQueries(s)) > 0
<1> DEFINE kept == Distinct(s)
<1>1. kept \in QueryLists
  BY DistinctIs
<1> HIDE DEF kept
<1>2. kept \in Seq(Texts \ Blank) /\ Len(kept) \in Nat /\ NoRepeats(kept)
  BY <1>1 DEF QueryLists
<1>3. Question \in Texts \ Blank /\ MaxRewrites \in Nat \ {0, 1}
  BY RetrievalAssumption
<1>4. CASE Len(kept) = 0
  <2>1. NormalizeQueries(s) = <<Question>>
    BY <1>4 DEF NormalizeQueries, kept
  <2>2. NoRepeats(<<Question>>) /\ <<Question>> \in Seq(Texts \ Blank) /\ Len(<<Question>>) = 1
    BY <1>3 DEF NoRepeats
  <2>. QED  BY <2>1, <2>2 DEF QueryLists
<1>5. CASE Len(kept) = 1 /\ KeyOf[kept[1]] # KeyOf[Question]
  <2>1. NormalizeQueries(s) = Append(kept, Question)
    BY <1>5 DEF NormalizeQueries, kept
  <2>2. Question \notin Members(kept)
    BY <1>5 DEF Members
  <2>3. Len(Append(kept, Question)) > 0
    BY <1>2, <1>3
  <2>. QED  BY <1>1, <1>3, <2>1, <2>2, <2>3, AppendedList
<1>6. CASE Len(kept) # 0 /\ ~(Len(kept) = 1 /\ KeyOf[kept[1]] # KeyOf[Question])
  <2> DEFINE k == Smaller(MaxRewrites, Len(kept))
             cut == SubSeq(kept, 1, k)
  <2>1. k \in 1..Len(kept)
    BY <1>2, <1>3, <1>6 DEF Smaller
  <2> HIDE DEF k
  <2>2. cut \in Seq(Texts \ Blank) /\ Len(cut) = k /\ \A n \in 1..k : cut[n] = kept[n]
    BY <1>2, <2>1
  <2>3. NoRepeats(cut)
    <3> HIDE DEF cut
    <3>. QED  BY <1>2, <2>1, <2>2 DEF NoRepeats
  <2>4. NormalizeQueries(s) = cut
    BY <1>6 DEF NormalizeQueries, kept, k
  <2> HIDE DEF cut
  <2>. QED  BY <2>1, <2>2, <2>3, <2>4 DEF QueryLists
<1>. QED  BY <1>4, <1>5, <1>6

(* The question is among the queries that are searched, none is blank and  *)
(* none comes twice, for every list that the rewriter's model answers with *)
(* and however texts are folded to keys and hold acronyms.                 *)
THEOREM QuestionIsSearched == Spec => []QuestionIsSearchedOnce
<1>1. Init => QuestionIsSearchedOnce
  BY DEF Init, QuestionIsSearchedOnce
<1>2. QuestionIsSearchedOnce /\ [Next]_vars => QuestionIsSearchedOnce'
  <2> SUFFICES ASSUME QuestionIsSearchedOnce, [Next]_vars PROVE QuestionIsSearchedOnce'
    OBVIOUS
  <2>1. ASSUME NEW answer \in RewriterAnswers, Rewrite(answer) PROVE QuestionIsSearchedOnce'
    <3> DEFINE q == Searched(NormalizeQueries(answer))
    <3>1. queries' = q
      BY <2>1 DEF Rewrite
    <3>2. answer \in Seq(Texts)
      BY RetrievalAssumption
    <3>3. NormalizeQueries(answer) \in QueryLists
      BY <3>2, NormalizedIs
    <3>4. q \in QueryLists /\ Question \in Members(q)
      BY <3>3, SearchedIs
    <3> HIDE DEF q
    <3>. QED  BY <3>1, <3>4 DEF QuestionIsSearchedOnce, QueryLists, NoRepeats, Members
  <2>2. CASE UNCHANGED queries
    BY <2>2 DEF QuestionIsSearchedOnce
  <2>3. UNCHANGED queries \/ \E answer \in RewriterAnswers : Rewrite(answer)
    BY DEF Next, vars, IndexStep, DeleteProject, Start, Embed, Raises, VectorSearch, TextSearch,
       Merge, Load, RerankFails, Finish, Rerank, SaveAnswer, ReadMessages
  <2>. QED  BY <2>1, <2>2, <2>3
<1>. QED  BY <1>1, <1>2, PTL DEF Spec


(* The merge has one outcome, which does not depend on the order in which  *)
(* the queries were searched.                                              *)
THEOREM MergeHasOneOutcome == Spec => []MergeIsDetermined
<1>1. IInv => MergeIsDetermined
  <2> SUFFICES ASSUME IInv, pc = "merge"
               PROVE  /\ Cardinality(Rankings(hits, topK)) = 1
                      /\ Rankings(Reverse(hits), topK) = Rankings(hits, topK)
    BY DEF MergeIsDetermined
  <2>1. AreHits(hits) /\ Candidates(hits) \subseteq OwnChunks
    BY HitsAre DEF IInv
  <2>2. topK \in Nat /\ hits \in Seq(Hit)
    BY DEF IInv, RequestOK, HitsOK
  <2>3. /\ \A c \in OwnChunks : Position[c] \in Nat
        /\ \A c, d \in OwnChunks : c # d => Position[c] # Position[d]
    BY RetrievalAssumption DEF OwnChunks
  <2>4. Cardinality(Rankings(hits, topK)) = 1
    <3>1. \E s : Rankings(hits, topK) = {s}
      BY <2>1, <2>2, <2>3, OneRanking
    <3>. QED  BY <3>1, FS_Singleton
  <2>5. {Reverse(hits)[q] : q \in DOMAIN Reverse(hits)} = {hits[q] : q \in DOMAIN hits}
    <3> DEFINE k == Len(hits)
               back == Reverse(hits)
    <3>1. k \in Nat /\ DOMAIN hits = 1..k
      BY <2>2
    <3>2. DOMAIN back = 1..k /\ \A q \in 1..k : back[q] = hits[k - q + 1]
      BY <3>1 DEF Reverse
    <3>3. \A q \in 1..k : k - q + 1 \in 1..k /\ hits[q] = back[k - q + 1]
      <4> HIDE DEF k, back
      <4>1. \A q \in 1..k : k - q + 1 \in 1..k /\ k - (k - q + 1) + 1 = q
        BY <3>1
      <4>2. \A q \in 1..k : hits[q] = back[k - q + 1]
        <5> TAKE q \in 1..k
        <5>1. back[k - q + 1] = hits[k - (k - q + 1) + 1]
          BY <3>2, <4>1
        <5>. QED  BY <4>1, <5>1
      <4>. QED  BY <4>1, <4>2
    <3> HIDE DEF k, back
    <3>4. \A q \in 1..k : \E p \in 1..k : hits[q] = back[p]
      BY <3>3
    <3>5. \A q \in 1..k : \E p \in 1..k : back[q] = hits[p]
      BY <3>2, <3>3
    <3>6. {back[q] : q \in 1..k} = {hits[q] : q \in 1..k}
      BY <3>4, <3>5
    <3>. QED  BY <3>1, <3>2, <3>6 DEF back
  <2>. QED  BY <2>4, <2>5, RankingIgnoresOrder
<1>. QED  BY <1>1, Invariance, PTL

=============================================================================
