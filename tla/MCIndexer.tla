----------------------------- MODULE MCIndexer -----------------------------
(* Instances of Indexer for TLC.  No symmetry: liveness is checked.         *)
EXTENDS Indexer
=============================================================================
