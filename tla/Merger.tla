-------------------------------- MODULE Merger --------------------------------
(***************************************************************************)
(* DeterministicRetrievalResultMerger: the hits of several queries, each   *)
(* searched by vector and by text, become one ranking.                     *)
(*                                                                         *)
(* The hits of one query are [vec |-> f, fts |-> g], f and g functions     *)
(* from the chunks found to their raw scores.  Scores are integers here;   *)
(* the weights 0.65 and 0.35 are counted in twentieths, and a normalised   *)
(* score of 1.0 is Unit.  The source of a match (vector or text) is left   *)
(* out: nothing reads it after the merge.                                  *)
(***************************************************************************)
EXTENDS Integers, FiniteSets, Sequences, FiniteSetsExt

CONSTANTS
    Position, \* chunk_index of each chunk
    Unit      \* what a normalised score of 1.0 counts

ASSUME UnitAssumption == Unit \in Nat \ {0}

WVec == 13
WFts == 7

(* Variant: scores are taken for distances.                                *)
MinMaxOfDistances(scores) ==
    LET vals == {scores[c] : c \in DOMAIN scores}
        lo == Min(vals)
        hi == Max(vals)
    IN [c \in DOMAIN scores |->
          IF hi = lo THEN Unit ELSE (Unit * (hi - scores[c])) \div (hi - lo)]

(* _minmax_norm: within one query and one source.                          *)
MinMaxNorm(scores) ==
    LET vals == {scores[c] : c \in DOMAIN scores}
        lo == Min(vals)
        hi == Max(vals)
    IN [c \in DOMAIN scores |->
          IF hi = lo THEN Unit ELSE (Unit * (scores[c] - lo)) \div (hi - lo)]

(* A chunk that a source did not find has no share of it.                  *)
Share(scores, c) == IF c \in DOMAIN scores THEN MinMaxNorm(scores)[c] ELSE 0

Found(h) == DOMAIN h.vec \cup DOMAIN h.fts

Combined(h, c) == WVec * Share(h.vec, c) + WFts * Share(h.fts, c)

Candidates(hits) == UNION {Found(hits[q]) : q \in DOMAIN hits}

(* matched_by: the queries that found the chunk.                           *)
MatchedBy(hits, c) == {q \in DOMAIN hits : c \in Found(hits[q])}

(* Variant: the first query that found the chunk decides.                  *)
FirstScore(hits, c) == Combined(hits[Min(MatchedBy(hits, c))], c)

(* The best of the queries, never their sum.                               *)
Score(hits, c) == Max({Combined(hits[q], c) : q \in MatchedBy(hits, c)})

(* Variant: ties are left to the order of the set of ids.                  *)
BeforeByScore(hits, a, b) == Score(hits, a) > Score(hits, b)

(* The sort key (-score, chunk_index).                                     *)
Before(hits, a, b) ==
    \/ Score(hits, a) > Score(hits, b)
    \/ Score(hits, a) = Score(hits, b) /\ Position[a] < Position[b]

Smaller(a, b) == IF a <= b THEN a ELSE b

(* merged_matches[:top_k]: an order the sort may give.  The sort is stable *)
(* over the iteration of a set, so chunks that compare equal may come in   *)
(* any order.                                                              *)
IsRanking(s, hits, topK) ==
    /\ Len(s) = Smaller(topK, Cardinality(Candidates(hits)))
    /\ \A m, n \in 1..Len(s) : m < n => s[m] # s[n] /\ ~ Before(hits, s[n], s[m])
    /\ \A c \in Candidates(hits) \ {s[n] : n \in 1..Len(s)} :
          \A n \in 1..Len(s) : ~ Before(hits, c, s[n])

Rankings(hits, topK) ==
    {s \in [1..Smaller(topK, Cardinality(Candidates(hits))) -> Candidates(hits)] :
        IsRanking(s, hits, topK)}

===============================================================================
