---------------------------- MODULE MCRetrieval ----------------------------
(***************************************************************************)
(* A retrieval request, the toggles one reads before, and the wizard.  The *)
(* request of Retrieval may find any combination of stages, and the wizard *)
(* sees of a retrieval whether it failed: the three share no state, and a  *)
(* behaviour moves the machine it starts with.                             *)
(***************************************************************************)
EXTENDS Retrieval, StageToggles, EstimationWizard

CONSTANTS budget, transcript

VARIABLE machine

\* Three budget chunks and one segment of a transcript, with the id of a budget's.
MCRegistry == <<budget, transcript>>
MCNearest == [c \in {budget, transcript} |->
                IF c = budget THEN {<<1, 2, 3>>, <<3, 2, 1>>} ELSE {<<1>>}]
MCWithin == [c \in {budget, transcript} |-> IF c = budget THEN {1, 3} ELSE {0, 1}]
MCMatched == [c \in {budget, transcript} |-> IF c = budget THEN {<<>>, <<3>>, <<2, 1>>} ELSE {<<>>}]
MCAxes == {"sector", "date", "type"}
MCUnderstood == [c \in {budget, transcript} |-> IF c = budget THEN {"sector", "date"} ELSE {"date"}]
\* The segment has no sector; one budget chunk is old, one of another sector.
MCFits == [x \in {budget, transcript} \X (1..3) |->
             CASE x = <<budget, 1>> -> {"date"}
               [] x = <<budget, 2>> -> {"sector", "type"}
               [] x[1] = transcript -> {"date"}
               [] OTHER -> MCAxes]
MCHalfLives == [x \in {budget, transcript} \X (1..3) |-> IF x = <<budget, 1>> THEN 2 ELSE 2 - (x[2] + 1) \div 2]
MCToggles == <<"rerank", "routing", "temporal_decay">>
MCInEnv == [k \in Range(MCToggles) |-> IF k = "temporal_decay" THEN "off" ELSE "on"]

ASSUME StageTogglesConstantsOK /\ RetrievalConstantsOK

\* The requests to a run are interchangeable, so they are made in their order.
MCInOrder == \A p, q \in Requests : p < q /\ req[p] = Idle => req'[q] = Idle

MCInit ==
  /\ RetrievalInit /\ ToggleInit /\ Init
  /\ machine \in {"request", "toggles", "wizard"}
  /\ machine # "toggles" => /\ update = [w \in Writers |-> [k \in Range(Toggles) |-> "absent"]]
                            /\ explicit = [k \in Range(Toggles) |-> "unset"]
  /\ machine # "request" => /\ endpoint = "advanced" /\ filters = {} /\ topK = Min(TopKs)
                            /\ stages = [hybrid |-> TRUE, rerank |-> TRUE, routing |-> TRUE,
                                          transform |-> TRUE, decay |-> TRUE]

MCNext ==
  /\ UNCHANGED machine
  /\ \/ machine = "request" /\ RetrievalNext /\ UNCHANGED <<toggleVars, vars>>
     \/ machine = "toggles" /\ ToggleNext /\ UNCHANGED <<retrievalVars, vars>>
     \/ machine = "wizard" /\ Next /\ MCInOrder /\ UNCHANGED <<retrievalVars, toggleVars>>

MCSpec == MCInit /\ [][MCNext]_<<retrievalVars, toggleVars, vars, machine>>
=============================================================================
