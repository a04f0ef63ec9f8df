------------------------------ MODULE MCClient ------------------------------
(* Two users, two projects, two runs of the indexing and a chat in one tab. *)
EXTENDS Client, TLC

(* No action and no property tells one user, project or run from another.  *)
Symmetry == Permutations(Users) \cup Permutations(Projects) \cup Permutations(Indexes)
=============================================================================
