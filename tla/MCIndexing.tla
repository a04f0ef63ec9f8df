----------------------------- MODULE MCIndexing -----------------------------
(* Instances of Indexing for TLC. *)
EXTENDS Indexing, TLC

(* Interchangeable calls and rows.  Sound for the safety runs only.        *)
Symmetry ==
    Permutations(Indexes) \cup Permutations(Starters) \cup Permutations(Cancellers)

=============================================================================
