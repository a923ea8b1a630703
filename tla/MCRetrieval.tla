---------------------------- MODULE MCRetrieval ----------------------------
EXTENDS Retrieval, TLC
\* One PDF with a blank page, one DOCX and a file without an ingestor.
MCFormat == [f1 |-> "pdf", f2 |-> "docx", f3 |-> "csv"]
MCContent == [f1 |-> << <<"x">>, <<"blank">>, <<"y">> >>, f2 |-> << <<"blank", "blank", "z">> >>,
              f3 |-> << <<"x">> >>]
\* Chunks are made in one store, summaries or queries in the other.
MCGuidances == [s1 |-> {"chunks"}, s2 |-> {"summary", "queries"}]
ThreadSymmetry == Permutations(Threads)
=============================================================================
