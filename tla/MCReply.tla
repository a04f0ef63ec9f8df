------------------------------ MODULE MCReply ------------------------------
(* Instances of Reply for TLC. *)
EXTENDS Reply, TLC

(* Interchangeable projects, chats and calls.                              *)
Symmetry == Permutations(Projects) \cup Permutations(Chats) \cup Permutations(Replies)

=============================================================================
