------------------------------ MODULE Retrieval ------------------------------
(***************************************************************************)
(* From a question to the chunks an answer is written from, and back from  *)
(* the stored citation: BuildIndexContextUseCase with the query rewriter,  *)
(* the searches of the repositories, the merger and the reranker, while    *)
(* indexes are built, cancelled and reopened and the project is deleted    *)
(* between its three transactions.                                         *)
(*                                                                         *)
(* One call is modelled: calls share no state that they write.  What the   *)
(* language models answer and what the embedding space and the text search *)
(* find similar is chosen from the constants; every filter, limit and      *)
(* order of the code is kept.                                              *)
(***************************************************************************)
EXTENDS Merger, SequencesExt

CONSTANTS
    Indexes,
    Chunks,          \* identifiers of the chunks that any index may hold
    IndexOf,         \* the index each chunk belongs to
    Texts,           \* texts of queries
    Blank,           \* ... those that are empty or white space
    KeyOf,           \* ... in lower case, with single spaces
    AcronymsOf,      \* ... the acronyms found in each, in order
    Question,        \* the user's query
    RewriterAnswers, \* lists of queries the rewriter's model may answer; <<>> when it cannot be parsed
    Similarities,    \* score functions the vector search may see
    Ranks,           \* score functions the text search may see, 0 where nothing matches
    MaxRewrites,     \* most queries taken from the rewriter (4 in the code)
    Requests,        \* top_k, top_n and whether reranking has time, as asked
    MaxTopK, MaxTopN,\* the limits of the settings
    RerankerAnswers, \* lists of ids the reranker's model may answer, None for one it invents
    None

ASSUME RetrievalAssumption ==
    /\ IndexOf \in [Chunks -> Indexes]
    /\ Position \in [Chunks -> Nat]
    /\ \A c, d \in Chunks : IndexOf[c] = IndexOf[d] /\ c # d => Position[c] # Position[d]
    /\ IsFiniteSet(Chunks)
    /\ MaxRewrites \in Nat \ {0, 1}
    /\ Question \in Texts \ Blank
    /\ RewriterAnswers \subseteq Seq(Texts)
    /\ Similarities \subseteq [Chunks -> Nat] /\ Ranks \subseteq [Chunks -> Nat]
    /\ Requests \subseteq [topK : Int, topN : Int, timed : BOOLEAN]
    /\ MaxTopK \in Nat \ {0} /\ MaxTopN \in Nat \ {0}
    /\ RerankerAnswers \subseteq Seq(Chunks \cup {None})
    /\ None \notin Indexes \cup Chunks

(* An acronym is a text of two letters or more, and its own only acronym.  *)
ASSUME AcronymAssumption ==
    /\ AcronymsOf \in [Texts -> Seq(Texts \ Blank)]
    /\ \A t \in Texts : \A n \in 1..Len(AcronymsOf[t]) :
          AcronymsOf[AcronymsOf[t][n]] = <<AcronymsOf[t][n]>>

VARIABLES
    stage,   \* what is committed of each index
    project, \* the projects row: TRUE while it is there
    pc,
    index,   \* dto.index_id
    topK, topN, timed,
    queries, \* rewritten_queries
    primary, \* the first query of the rewriter
    hits,    \* per_query_vec_matches and per_query_fts_matches
    ranked,  \* merge_result.matches, later final_chunks
    score, matchedBy,
    pack,    \* the ContextPackDTO
    message, \* citations of the chat_messages row of the answer
    shown    \* citations as GetChatMessages returned them last

request == <<index, topK, topN, timed>>
result == <<ranked, score, matchedBy>>
reply == <<pack, message, shown>>
vars == <<stage, project, pc, request, queries, primary, hits, result, reply>>

Init ==
    /\ stage = [i \in Indexes |-> "absent"]
    /\ project = TRUE
    /\ pc = "idle"
    /\ index = None /\ topK = 0 /\ topN = 0 /\ timed = FALSE
    /\ queries = <<>> /\ primary = None /\ hits = <<>>
    /\ ranked = <<>> /\ score = <<>> /\ matchedBy = <<>>
    /\ pack = None /\ message = None /\ shown = None

-----------------------------------------------------------------------------
(* The rows around the call. *)

HasChunks(i) == stage[i] \in {"chunked", "ready", "reopened"}

HasEmbeddings(i) == stage[i] \in {"ready", "reopened"}

(* The worker commits the chunks first, then embeddings and READY; a       *)
(* cancel noticed in between removes the chunks.  A cancel that comes too  *)
(* late takes READY back and leaves the rows.                              *)
IndexStep(i) ==
    /\ \E s \in {<<"absent", "chunked">>, <<"chunked", "ready">>, <<"chunked", "cancelled">>,
                 <<"ready", "reopened">>} :
          stage[i] = s[1] /\ stage' = [stage EXCEPT ![i] = s[2]]
    /\ UNCHANGED <<project, pc, request, queries, primary, hits, result, reply>>

(* The messages go with the project, its indexes stay.                     *)
DeleteProject ==
    /\ project
    /\ project' = FALSE
    /\ message' = None
    /\ UNCHANGED <<stage, pc, request, queries, primary, hits, result, pack, shown>>

-----------------------------------------------------------------------------
(* Queries. *)

(* The non-blank queries, the first of each key.                           *)
Distinct(answer) ==
    LET Keep(kept, t) == IF t \in Blank \/ \E n \in 1..Len(kept) : KeyOf[kept[n]] = KeyOf[t]
                         THEN kept ELSE Append(kept, t)
    IN FoldLeft(Keep, <<>>, answer)

(* _normalize_queries, with the question to fall back on.                  *)
NormalizeQueries(answer) ==
    LET kept == Distinct(answer)
    IN IF Len(kept) = 0 THEN <<Question>>
       ELSE IF Len(kept) = 1 /\ KeyOf[kept[1]] # KeyOf[Question] THEN Append(kept, Question)
       ELSE SubSeq(kept, 1, Smaller(MaxRewrites, Len(kept)))

AddNew(list, t) == IF \E n \in 1..Len(list) : list[n] = t THEN list ELSE Append(list, t)

(* Variant: the rewriter's queries replace the question.                   *)
SearchedWithoutQuestion(rewritten) ==
    LET AddAcronyms(list, t) == FoldLeft(AddNew, list, AcronymsOf[t])
    IN FoldLeft(AddAcronyms, rewritten, rewritten)

(* The queries searched: the rewriter's, the question as it was written    *)
(* when it is not among them, and every acronym in them.                   *)
Searched(rewritten) ==
    LET AddAcronyms(list, t) == FoldLeft(AddNew, list, AcronymsOf[t])
        withQuestion == AddNew(rewritten, Question)
    IN FoldLeft(AddAcronyms, withQuestion, withQuestion)

-----------------------------------------------------------------------------
(* BuildIndexContextUseCase.execute. *)

Goto(from, to) == pc = from /\ pc' = to

Clamp(v, lo, hi) == IF v < lo THEN lo ELSE IF v > hi THEN hi ELSE v

(* Variant: what was asked is not limited.                                 *)
StartUnclamped(i, r) ==
    /\ Goto("idle", "rewrite")
    /\ project /\ stage[i] = "ready"
    /\ index' = i
    /\ topK' = Clamp(r.topK, 1, MaxTopK)
    /\ topN' = r.topN
    /\ timed' = r.timed
    /\ UNCHANGED <<stage, project, queries, primary, hits, result, reply>>

(* Variant: any index that has chunks will do.                             *)
StartAnyIndex(i, r) ==
    /\ Goto("idle", "rewrite")
    /\ project /\ HasChunks(i)
    /\ index' = i
    /\ topK' = Clamp(r.topK, 1, MaxTopK)
    /\ topN' = Smaller(Clamp(r.topN, 1, MaxTopN), topK')
    /\ timed' = r.timed
    /\ UNCHANGED <<stage, project, queries, primary, hits, result, reply>>

(* get_by_owner_project_and_id.                                            *)
OwnIndex(i) == project /\ stage[i] # "absent"

(* 1) Limits, then the first transaction: the owner's project is there and *)
(* the index is READY.  A call that is refused leaves no trace.            *)
Start(i, r) ==
    /\ Goto("idle", "rewrite")
    /\ OwnIndex(i) /\ stage[i] = "ready"
    /\ index' = i
    /\ topK' = Clamp(r.topK, 1, MaxTopK)
    /\ topN' = Smaller(Clamp(r.topN, 1, MaxTopN), topK')
    /\ timed' = r.timed
    /\ UNCHANGED <<stage, project, queries, primary, hits, result, reply>>

(* 2) The rewriter's answer becomes the queries.                           *)
Rewrite(answer) ==
    /\ Goto("rewrite", "embed")
    /\ queries' = Searched(NormalizeQueries(answer))
    /\ primary' = NormalizeQueries(answer)[1]
    /\ UNCHANGED <<stage, project, request, hits, result, reply>>

(* Every query gets its vector: another number of them, or an empty one,   *)
(* is InvalidRetrieval.                                                    *)
Embed ==
    /\ Goto("embed", "vector")
    /\ UNCHANGED <<stage, project, request, queries, primary, hits, result, reply>>

(* The rewriter's model, the embedder or a statement of the database       *)
(* raises, up to the rerank.                                               *)
Raises ==
    /\ pc \in {"rewrite", "embed", "vector", "text", "load"}
    /\ pc' = "failed"
    /\ UNCHANGED <<stage, project, request, queries, primary, hits, result, reply>>

(* The k best of the set by a score, as a function to their scores: ties   *)
(* are cut as the database likes.                                          *)
Best(S, scores, k) ==
    {[c \in T |-> scores[c]] : T \in
        {T \in SUBSET S : /\ Cardinality(T) = Smaller(k, Cardinality(S))
                          /\ \A c \in T, d \in S \ T : scores[c] >= scores[d]}}

(* Variant: the embeddings of every index are searched.                    *)
VectorsOfAll(scores) == Best({c \in Chunks : HasEmbeddings(IndexOf[c])}, scores, topK)

(* similarity_search: the embeddings of the index.                         *)
SimilaritySearch(scores) ==
    Best({c \in Chunks : IndexOf[c] = index /\ HasEmbeddings(index)}, scores, topK)

(* fts_search: the chunks of the index whose tsv matches.                  *)
FtsSearch(scores) ==
    Best({c \in Chunks : IndexOf[c] = index /\ HasChunks(index) /\ scores[c] > 0}, scores, topK)

(* 3) One query after the other, in one transaction.                       *)
VectorSearch(scores) ==
    /\ Goto("vector", "text")
    /\ \E found \in SimilaritySearch(scores) :
          hits' = Append(hits, [vec |-> found, fts |-> <<>>])
    /\ UNCHANGED <<stage, project, request, queries, primary, result, reply>>

TextSearch(scores) ==
    /\ pc = "text"
    /\ \E found \in FtsSearch(scores) : hits' = [hits EXCEPT ![Len(hits)].fts = found]
    /\ pc' = IF Len(hits) < Len(queries) THEN "vector" ELSE "merge"
    /\ UNCHANGED <<stage, project, request, queries, primary, result, reply>>

Members(s) == {s[n] : n \in 1..Len(s)}

FirstIn(s, c) == CHOOSE n \in 1..Len(s) : s[n] = c /\ \A m \in 1..(n - 1) : s[m] # c

(* The elements of S by increasing key; one sequence when keys differ.     *)
SortedBy(S, Key(_)) ==
    {t \in [1..Cardinality(S) -> S] : \A m, n \in 1..Cardinality(S) : m < n => Key(t[m]) < Key(t[n])}

(* The pack for the chunks that are left.                                  *)
ContextPack(chunks) ==
    [index |-> index,
     chunks |-> [n \in 1..Len(chunks) |->
                   [chunk |-> chunks[n], score |-> score[chunks[n]], matchedBy |-> matchedBy[chunks[n]]]],
     question |-> Question, rewritten |-> primary, queries |-> queries]

Merge ==
    /\ Goto("merge", "load")
    /\ \E s \in Rankings(hits, topK) :
          /\ ranked' = s
          /\ score' = [c \in Members(s) |-> Score(hits, c)]
          /\ matchedBy' = [c \in Members(s) |-> MatchedBy(hits, c)]
    /\ UNCHANGED <<stage, project, request, queries, primary, hits, reply>>

(* get_many_by_ids_for_index, put back into the order of the ranking.      *)
Loaded(chunks) ==
    SortedBy({c \in Members(chunks) : IndexOf[c] = index /\ HasChunks(index)},
             LAMBDA c : FirstIn(chunks, c))

(* 4) The chunks are loaded in a third transaction.  Nothing found is an   *)
(* empty pack, a single chunk is not reranked.                             *)
Load ==
    /\ pc = "load"
    /\ ranked' \in Loaded(ranked)
    /\ pc' = IF timed /\ Len(ranked') > 1 THEN "rerank" ELSE "finish"
    /\ UNCHANGED <<stage, project, request, queries, primary, hits, score, matchedBy, reply>>

(* Variant: the chunks that the reranker's model left out are dropped.     *)
RankOnly(answer, chunks) ==
    SortedBy(Members(chunks) \cap Members(answer), LAMBDA c : FirstIn(answer, c))

(* OpenaiReranker.rank: the ids that are known, each where it comes first, *)
(* then the other chunks as they were.  An answer that cannot be parsed    *)
(* has no ids.                                                             *)
Rank(answer, chunks) ==
    SortedBy(Members(chunks),
             LAMBDA c : IF c \in Members(answer) THEN FirstIn(answer, c)
                        ELSE Len(answer) + FirstIn(chunks, c))

(* 5) The reranker answers in time.                                        *)
Rerank(answer) ==
    /\ Goto("rerank", "finish")
    /\ ranked' \in Rank(answer, ranked)
    /\ UNCHANGED <<stage, project, request, queries, primary, hits, score, matchedBy, reply>>

(* ... or it raises or runs out of time: the ranking stays.                *)
RerankFails ==
    /\ Goto("rerank", "finish")
    /\ UNCHANGED <<stage, project, request, queries, primary, hits, result, reply>>

(* 6) final_chunks[:top_n].                                                *)
Finish ==
    /\ Goto("finish", "answer")
    /\ pack' = ContextPack(SubSeq(ranked, 1, Smaller(topN, Len(ranked))))
    /\ UNCHANGED <<stage, project, request, queries, primary, hits, result, message, shown>>

-----------------------------------------------------------------------------
(* The citation. *)

(* create_citations_from_context.                                          *)
Citations ==
    [index |-> pack.index, chunks |-> pack.chunks, rewritten |-> pack.rewritten,
     queries |-> pack.queries, question |-> pack.question]

(* message_domain_to_model: the answer is saved with its citation, without *)
(* the texts of its chunks, unless its chat is gone with the project.      *)
SaveAnswer ==
    /\ Goto("answer", "saved")
    /\ project
    /\ message' = Citations
    /\ UNCHANGED <<stage, project, request, queries, primary, hits, result, pack, shown>>

(* Variant: only READY indexes are looked into.                            *)
ContentWhileReady(c) ==
    IF IndexOf[c] = message.index /\ stage[message.index] = "ready" THEN c ELSE None

(* The text of a cited chunk, by id and index; a chunk stands for its text.*)
ContentOf(c) == IF IndexOf[c] = message.index /\ HasChunks(message.index) THEN c ELSE None

(* message_model_to_domain: the citation comes back without the texts.     *)
Restored ==
    [message EXCEPT !.chunks = [n \in 1..Len(@) |->
        [chunk |-> @[n].chunk, score |-> @[n].score, matchedBy |-> @[n].matchedBy, content |-> None]]]

(* GetChatMessagesUseCase: a citation that has chunks is built anew.       *)
(* matched_by, the list of queries and the question are not taken over,    *)
(* and the list takes the place of the rewritten query.                    *)
ReadMessages ==
    /\ pc = "saved" /\ project /\ message # None
    /\ LET Read(c) == [c EXCEPT !.content = ContentOf(c.chunk), !.matchedBy = None]
       IN  shown' = IF message.chunks = <<>> THEN Restored
                    ELSE [Restored EXCEPT !.chunks = [n \in 1..Len(@) |-> Read(@[n])],
                                          !.rewritten = message.queries,
                                          !.queries = None, !.question = None]
    /\ UNCHANGED <<stage, project, pc, request, queries, primary, hits, result, pack, message>>

-----------------------------------------------------------------------------
Next ==
    \/ \E i \in Indexes : IndexStep(i) \/ \E r \in Requests : Start(i, r)
    \/ DeleteProject
    \/ \E answer \in RewriterAnswers : Rewrite(answer)
    \/ Embed \/ Raises
    \/ \E scores \in Similarities : VectorSearch(scores)
    \/ \E scores \in Ranks : TextSearch(scores)
    \/ Merge \/ Load \/ RerankFails \/ Finish
    \/ \E answer \in RerankerAnswers : Rerank(answer)
    \/ SaveAnswer \/ ReadMessages

Spec == Init /\ [][Next]_vars

-----------------------------------------------------------------------------
(* Properties. *)

(* Every variable has its type (queries: see QuestionIsSearchedOnce).      *)
TypeOK ==
    /\ stage \in [Indexes -> {"absent", "chunked", "ready", "reopened", "cancelled"}]
    /\ project \in BOOLEAN
    /\ pc \in {"idle", "rewrite", "embed", "vector", "text", "merge", "load", "rerank", "finish",
               "answer", "saved", "failed"}
    /\ index \in Indexes \cup {None} /\ timed \in BOOLEAN
    /\ topK \in 0..MaxTopK /\ topN \in 0..Smaller(topK, MaxTopN)
    /\ \A n \in 1..Len(hits) : \A f \in {hits[n].vec, hits[n].fts} :
          DOMAIN f \subseteq Chunks /\ f \in [DOMAIN f -> Nat]
    /\ ranked \in Seq(Chunks)
    /\ pack # None => pack.chunks \in Seq([chunk : Chunks, score : Nat, matchedBy : SUBSET Nat])

OwnChunks == {c \in Chunks : IndexOf[c] = index}

CitedChunks(cited) == {cited[n].chunk : n \in 1..Len(cited)}

(* The context holds chunks of the index that was asked for and no chunk   *)
(* twice, whatever lists the searches and the reranker return; and that    *)
(* index has been READY, although its status may change during the call.   *)
ContextIsOwn ==
    pack # None =>
        /\ CitedChunks(pack.chunks) \subseteq OwnChunks
        /\ Cardinality(CitedChunks(pack.chunks)) = Len(pack.chunks)
        /\ pack.index = index /\ HasEmbeddings(index)

(* The context is as long as asked, within the limits and as far as the    *)
(* index has chunks: merging, loading and reranking lose none of them.     *)
ContextIsFull ==
    pack # None => Len(pack.chunks) = Smaller(topN, Cardinality(OwnChunks))

(* The question is always among the queries searched, no query is blank    *)
(* and none is searched twice, however the rewriter's model repeats, drops *)
(* or spells them.                                                         *)
QuestionIsSearchedOnce ==
    queries # <<>> =>
        /\ \E n \in 1..Len(queries) : queries[n] = Question
        /\ \A m, n \in 1..Len(queries) : m # n => queries[m] # queries[n]
        /\ \A n \in 1..Len(queries) : queries[n] \in Texts \ Blank

(* The merge has one outcome, although it walks over sets of ids, and the  *)
(* order in which the queries were searched makes no difference to it.     *)
MergeIsDetermined ==
    pc = "merge" =>
        /\ Cardinality(Rankings(hits, topK)) = 1
        /\ Rankings(Reverse(hits), topK) = Rankings(hits, topK)

(* a is found wherever b is, with a score that is no worse.                *)
Dominates(a, b) ==
    \A q \in 1..Len(hits) : \A f \in {hits[q].vec, hits[q].fts} :
        b \in DOMAIN f => a \in DOMAIN f /\ f[a] >= f[b]

(* Normalising per query and source and taking the best of the queries     *)
(* never puts a chunk behind one that it matches at least as well          *)
(* everywhere, unless the two tie and the other comes first in the paper.  *)
BetterMatchesComeFirst ==
    pc = "load" =>
        \A n \in 1..Len(ranked) : \A c \in OwnChunks :
            c # ranked[n] /\ Dominates(c, ranked[n]) =>
                \/ \E m \in 1..(n - 1) : ranked[m] = c
                \/ Position[ranked[n]] < Position[c] /\ Score(hits, c) = Score(hits, ranked[n])

(* The reranker only reorders: with an answer that repeats, invents or     *)
(* leaves out ids, without an answer, or too late, the same chunks go on.  *)
RerankOnlyReorders ==
    [][pc = "rerank" => Members(ranked') = Members(ranked) /\ Len(ranked') = Len(ranked)]_vars

(* A citation that is read back names the chunks of the context in their   *)
(* order, with the scores of the merge and each with its own text, also    *)
(* when the index has been reopened since.                                 *)
CitationsNameTheContext ==
    shown # None =>
        /\ shown.index = pack.index /\ Len(shown.chunks) = Len(pack.chunks)
        /\ \A n \in 1..Len(shown.chunks) :
              LET c == pack.chunks[n].chunk
              IN /\ shown.chunks[n].chunk = c /\ shown.chunks[n].content = c
                 /\ shown.chunks[n].score = Score(hits, c)

=============================================================================
