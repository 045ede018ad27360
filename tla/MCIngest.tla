------------------------------ MODULE MCIngest ------------------------------
(* Small instances of Ingest: two comunicaciones, two published versions.  *)
EXTENDS Ingest, TLC

Symmetry == Permutations(Comms)
=============================================================================
