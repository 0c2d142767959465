--------------------------- MODULE MCChatSessions ---------------------------
(* Small instances of ChatSessions and Conversation for TLC.               *)
EXTENDS ChatSessions, TLC

\* A turn with a commitment, and an audited turn without.
MCForms == {
  [commits |-> TRUE, hits |-> {}, override |-> Nothing, path |-> "estimate"],
  [commits |-> FALSE, hits |-> {}, override |-> Nothing, path |-> "estimate-acb"]}

\* Half of it is below 30, and all of it above 50.
MCDrafts == {[confidence |-> 58, outOfScope |-> FALSE, caveats |-> FALSE]}

\* A turn that names a regulated technology, and one that names nothing.
MCExtracts == {[EmptyMetadata EXCEPT !.techs = {"regulatory"}], EmptyMetadata}

MCSymmetry == Permutations(Turns)
=============================================================================
