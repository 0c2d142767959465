------------------------------ MODULE MCIntake ------------------------------
(***************************************************************************)
(* The four parts of the intake: catalog ingestion, pseudonyms, the        *)
(* cleaning of budgets and their chunking.  Nothing in the code joins them *)
(* up, so a behaviour moves one of them and the others stay behind.        *)
(***************************************************************************)
EXTENDS Pseudonyms, BudgetCleaning, Chunking, TLC

CONSTANTS Jobs, budgets, transcripts, sheets, review, a, b

VARIABLES
  job, pc, source, files, found, excuse,
  part

\* Texts that share values; the spans of two of them overlap.
Span(type, from, to) == [type |-> type, start |-> from, end |-> to]
MCInputs ==
  {[text |-> <<a, b, a, b>>, spans |-> {Span("PERSON", 1, 1), Span("PERSON", 3, 3)}],
   [text |-> <<b, a, b, a>>, spans |-> {Span("PERSON", 1, 1), Span("LOCATION", 1, 3)}],
   [text |-> <<a, b, a>>, spans |-> {Span("PERSON", 1, 2), Span("LOCATION", 2, 3)}]}

\* Pseudonyms are longer and shorter than what they replace.
MCWidth == <<1, 3>>

\* Tagged and untagged transcripts, a budget, a file that is none, another format.
MCFormat ==
  (budgets :> "json") @@ (transcripts :> "txt") @@ (sheets :> "xlsx") @@ (review :> "json")
Txt(lines) == [ext |-> "txt", body |-> lines]
Json(body) == [ext |-> "json", body |-> body]
MCFolders ==
  {<<>>, <<Json("budget"), Txt(<<"turn", "other", "silence", "turn">>)>>,
   <<Txt(<<"turn", "other", "blank", "other">>), Json("budget"), Json("other"), Json("budget")>>}

Catalog == INSTANCE IngestionJobs WITH
  Sources <- {budgets, transcripts, sheets, review}, Include <- {budgets, transcripts, sheets},
  Format <- MCFormat, Parsers <- {"json", "txt"}, Folders <- MCFolders,
  Faults <- {"create", "start", "finish", "fail"}, LostAcks <- TRUE, Restarts <- TRUE

\* Components shorter and longer than a window and than two, one of them empty of
\* description; two of them in one budget.
Component(n, tokens, sentences, module) ==
  [budget |-> n, tokens |-> tokens, sentences |-> sentences, module |-> module]
MCIdle == <<Component(1, 2, 1, FALSE)>>
MCCorpora ==
  {<<Component(1, k, 2, TRUE), Component(1, m, 0, FALSE), Component(2, 2, 1, FALSE)>> :
     k \in 2..7, m \in 1..5} \cup {MCIdle}
MCRequests ==
  {<<>>, <<"structural", "unknown", "contextual_retrieval">>,
   <<"contextual_retrieval", "unknown">>, <<"propositional", "propositional", "fixed_size">>}

ASSUME
  /\ PseudonymConstantsOK /\ Catalog!IngestionConstantsOK
  /\ CleaningConstantsOK /\ ChunkingConstantsOK

catalogVars == <<job, pc, source, files, found, excuse>>

\* The parts that stay behind have one initial state.
IntakeInit ==
  /\ part \in {"catalog", "names", "cleaning", "lab"}
  /\ Init
  /\ Catalog!Init /\ (part = "catalog" \/ source = [j \in Jobs |-> budgets])
  /\ BatchInit /\ (part = "cleaning" \/ batch = <<>>)
  /\ LabInit /\ (part = "lab" \/ (keys = {} /\ corpus = MCIdle /\ names = <<"structural", "contextual_retrieval">>))

IntakeNext ==
  /\ UNCHANGED part
  /\ \/ part = "catalog" /\ Catalog!Next /\ UNCHANGED <<vars, batchVars, labVars>>
     \/ part = "names" /\ Next /\ UNCHANGED <<catalogVars, batchVars, labVars>>
     \/ part = "cleaning" /\ BatchNext /\ UNCHANGED <<vars, catalogVars, labVars>>
     \/ part = "lab" /\ LabNext /\ UNCHANGED <<vars, catalogVars, batchVars>>

IntakeSpec ==
  IntakeInit /\ [][IntakeNext]_<<vars, catalogVars, batchVars, labVars, part>>
    /\ Catalog!Fairness

IngestionSettles == Catalog!IngestionSettles
=============================================================================
