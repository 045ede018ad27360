------------------------------- MODULE MCChat -------------------------------
(* Small instances of Chat: a handful of turns over two or three sessions. *)
EXTENDS Chat, TLC

Symmetry == Permutations(Turns) \cup Permutations(Users) \cup Permutations(Ids)
=============================================================================
