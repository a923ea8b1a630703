------------------------- MODULE MCVectorStoreFiles -------------------------
(* Model values for TLC's runs of VectorStoreFiles. *)
EXTENDS VectorStoreFiles

CONSTANTS f1, f2, w1, w2

=============================================================================
