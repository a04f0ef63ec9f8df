----------------------------- MODULE MCRetrieval -----------------------------
(* An instance of Retrieval for TLC: an index of three chunks beside one   *)
(* that holds a single chunk, and a question with an acronym.              *)
EXTENDS Retrieval

CONSTANTS a1, a2, a3, b1, A, B

MCIndexOf == [c \in {a1, a2, a3, b1} |-> IF c = b1 THEN B ELSE A]

MCPosition == [c \in {a1, a2, a3, b1} |-> CASE c = a2 -> 1 [] c = a3 -> 2 [] OTHER -> 0]

Scores(w, x, y, z) ==
    [c \in {a1, a2, a3, b1} |-> CASE c = a1 -> w [] c = a2 -> x [] c = a3 -> y [] c = b1 -> z]

MCTexts == {"", "ppo on AB", "Ppo on AB", "sac", "trpo", "AB"}

MCKeyOf == [t \in MCTexts |-> IF t = "Ppo on AB" THEN "ppo on AB" ELSE t]

MCAcronymsOf ==
    [t \in MCTexts |-> IF t \in {"ppo on AB", "AB"} THEN <<"AB">>
                      ELSE IF t = "Ppo on AB" THEN <<"AB">> ELSE <<>>]

MCRewriterAnswers ==
    {<<>>, <<"Ppo on AB">>, <<"sac", "", "sac", "trpo", "Ppo on AB">>}

MCSimilarities == {Scores(2, 1, 0, 2), Scores(0, 2, 2, 1)}

MCRanks == {Scores(0, 1, 2, 1), Scores(2, 1, 0, 1)}

MCRequests ==
    {[topK |-> 9, topN |-> 2, timed |-> TRUE], [topK |-> 2, topN |-> 9, timed |-> TRUE],
     [topK |-> 1, topN |-> 0, timed |-> FALSE]}

(* Repeats, chunks of another index, inventions, lists that are too short. *)
MCRerankerAnswers == {<<>>, <<a3, a3>>, <<b1, None, a2>>, <<a3, a2, a1>>}

===============================================================================
