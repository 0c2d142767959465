--------------------------- MODULE MCRagEstimate ---------------------------
(* Small instances of RagEstimate for TLC.                                 *)
EXTENDS RagEstimate, TLC

CONSTANTS c1, c2

Est(c, ls, rs, over, bare) ==
  [confidence |-> c, lines |-> ls, refs |-> rs, overage |-> over, bare |-> bare]

\* One draft per way the checks can go: sound, citing c2 in a line or in the
\* global sources (dangling unless c2 was retrieved), claiming too much,
\* incoherent, and insufficient with a global citation.
MCDrafts ==
  {Est("high", {c1}, {}, FALSE, FALSE),
   Est("high", {c1, c2}, {}, FALSE, FALSE),
   Est("medium", {c1}, {}, TRUE, FALSE),
   Est("insufficient", {c1}, {}, FALSE, FALSE),
   Est("insufficient", {}, {c2}, FALSE, TRUE)}

\* Requests are interchangeable, the keys are not: only one starts unreadable.
MCSymmetry == Permutations(Requests)

=============================================================================
