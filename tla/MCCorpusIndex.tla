--------------------------- MODULE MCCorpusIndex ---------------------------
(* Small instances of CorpusIndex for TLC.                                 *)
EXTENDS CorpusIndex

CONSTANTS d1, d2

\* Two documents, and one document twice.
MCBatches == {<<d1, d2>>, <<d2, d2>>}

\* The check of a document fails like its embedding does.
MCFaults == FaultPoints \ {"check"}
=============================================================================
