---------------------------- MODULE MCIndexRuns ----------------------------
(* Small instances of IndexRuns for TLC.                                   *)
EXTENDS IndexRuns

CONSTANTS d1, d2

\* One document to index, another for the direct ingest to grow the corpus by.
MCBatches == {<<d1>>}

\* The failure that ends a job as failed, or makes a completed job a failed one
\* when its acknowledgement is lost.
JobFaults == {"finish"}
=============================================================================
