---------------------------- MODULE IngestionJobs ----------------------------
(***************************************************************************)
(* Catalog ingestion: POST /api/v1/ingestion/runs creates a row of         *)
(* ingestion_jobs for a source the catalog includes, and a background task *)
(* loads the files of the source, parses them and marks the row.           *)
(*                                                                         *)
(* A step is a database call or a file, with the code around it.           *)
(***************************************************************************)
EXTENDS Naturals, Sequences, FiniteSets

CONSTANTS
  Jobs,       \* runs
  Sources,    \* entries of the catalog
  Include,    \* those with decision "include"
  Format,     \* the format of each
  Parsers,    \* formats of default_registry()
  Folders,    \* what a location may hold: sequences of files
  Faults,     \* the database calls that may raise
  LostAcks,   \* whether a call that raised may have committed
  Restarts    \* whether the process may restart

\* Assumed of the constants.
IngestionConstantsOK ==
  /\ Include \subseteq Sources
  /\ Faults \subseteq {"create", "start", "finish", "fail"}
  /\ {LostAcks, Restarts} \subseteq BOOLEAN

VARIABLES
  job,     \* the row of each run: its status and documents_count
  pc,      \* the call each task makes next
  source,  \* the source it was created for
  files,   \* the files it has left to parse
  found,   \* len(documents)
  excuse   \* history: tasks that a fault no handler covers left behind

vars == <<job, pc, source, files, found, excuse>>

NoJob == [status |-> "none", processed |-> 0]

TypeOK ==
  /\ job \in [Jobs -> [status : {"none", "pending", "running", "completed", "failed"},
                       processed : Nat]]
  /\ pc \in [Jobs -> {"idle", "start", "open", "parse", "finish", "fail", "ended"}]
  /\ source \in [Jobs -> Sources]
  /\ found \in [Jobs -> Nat]
  /\ excuse \subseteq Jobs

Init ==
  /\ job = [j \in Jobs |-> NoJob]
  /\ pc = [j \in Jobs |-> "idle"]
  /\ source \in [Jobs -> Sources]
  /\ files = [j \in Jobs |-> <<>>]
  /\ found = [j \in Jobs |-> 0]
  /\ excuse = {}

Goto(j, l) == pc' = [pc EXCEPT ![j] = l]

Mark(j, status) == job' = [job EXCEPT ![j].status = status]

-----------------------------------------------------------------------------
(* The parsers.  A line of a transcript is a turn, a turn without text, a  *)
(* blank or anything else; a budget is readable or not.                    *)

\* _has_speaker_tags.
Tagged(lines) == Cardinality({i \in DOMAIN lines : lines[i] \in {"turn", "silence"}}) >= 3

\* One document per turn with text, or else one per block of lines.
Transcript(lines) ==
  IF Tagged(lines)
  THEN Cardinality({i \in DOMAIN lines : lines[i] = "turn"})
  ELSE Cardinality({i \in DOMAIN lines :
                      lines[i] # "blank" /\ (i = 1 \/ lines[i - 1] = "blank")})

Readable(file) == file.ext = "json" => file.body = "budget"

Documents(file) == IF file.ext = "json" THEN 1 ELSE Transcript(file.body)

-----------------------------------------------------------------------------

\* create_ingestion_run answers 404 or 400 unless the source is included; the
\* row is committed, then the task queued.
CreateRun(j) ==
  /\ pc[j] = "idle" /\ source[j] \in Include
  /\ Mark(j, "pending")
  /\ Goto(j, "start")
  /\ UNCHANGED <<source, files, found, excuse>>

\* The answer of the commit is lost, or the refresh behind it raises.
CreateFails(j) ==
  /\ pc[j] = "idle" /\ source[j] \in Include /\ "create" \in Faults
  /\ Mark(j, "pending")
  /\ Goto(j, "ended") /\ excuse' = excuse \cup {j}
  /\ UNCHANGED <<source, files, found>>

\* jobs_repo.mark_running.
MarkRunning(j) ==
  /\ pc[j] = "start"
  /\ Mark(j, "running")
  /\ Goto(j, "open")
  /\ UNCHANGED <<source, files, found, excuse>>

\* registry.get raises ahead of the try: the row of a format without a parser
\* says "running" for ever.  Otherwise the loader lists the files with the
\* extension of the format, or raises as the location does not exist.
Open(j) ==
  /\ pc[j] = "open"
  /\ \/ /\ Format[source[j]] \notin Parsers
        /\ Goto(j, "ended") /\ excuse' = excuse \cup {j}
        /\ UNCHANGED files
     \/ /\ Format[source[j]] \in Parsers
        /\ \E folder \in Folders :
             files' = [files EXCEPT ![j] = SelectSeq(folder, LAMBDA f : f.ext = Format[source[j]])]
        /\ Goto(j, "parse")
        /\ UNCHANGED excuse
     \/ /\ Format[source[j]] \in Parsers
        /\ Goto(j, "fail")
        /\ UNCHANGED <<files, excuse>>
  /\ UNCHANGED <<job, source, found>>

\* Mutant: an unreadable file is raised past the handler.
ParseFile_Uncaught(j) ==
  /\ pc[j] = "parse"
  /\ IF files[j] = <<>> THEN Goto(j, "finish") /\ UNCHANGED <<files, found>>
     ELSE IF Readable(Head(files[j]))
     THEN /\ found' = [found EXCEPT ![j] = @ + Documents(Head(files[j]))]
          /\ files' = [files EXCEPT ![j] = Tail(@)]
          /\ UNCHANGED pc
     ELSE Goto(j, "ended") /\ UNCHANGED <<files, found>>
  /\ UNCHANGED <<job, source, excuse>>

\* A file that cannot be read ends the run.
ParseFile(j) ==
  /\ pc[j] = "parse"
  /\ IF files[j] = <<>> THEN Goto(j, "finish") /\ UNCHANGED <<files, found>>
     ELSE IF Readable(Head(files[j]))
     THEN /\ found' = [found EXCEPT ![j] = @ + Documents(Head(files[j]))]
          /\ files' = [files EXCEPT ![j] = Tail(@)]
          /\ UNCHANGED pc
     ELSE Goto(j, "fail") /\ UNCHANGED <<files, found>>
  /\ UNCHANGED <<job, source, excuse>>

\* mark_completed, behind the try.
MarkCompleted(j) ==
  /\ pc[j] = "finish"
  /\ job' = [job EXCEPT ![j] = [status |-> "completed", processed |-> found[j]]]
  /\ Goto(j, "ended")
  /\ UNCHANGED <<source, files, found, excuse>>

MarkFailed(j) ==
  /\ pc[j] = "fail"
  /\ Mark(j, "failed")
  /\ Goto(j, "ended")
  /\ UNCHANGED <<source, files, found, excuse>>

\* An update raises: _run_in_background logs it as a failure the orchestrator
\* has already recorded, which it has not.
UpdateFails(j) ==
  /\ pc[j] \in {"start", "finish", "fail"} \cap Faults
  /\ \/ UNCHANGED job
     \/ /\ LostAcks
        /\ CASE pc[j] = "start" -> Mark(j, "running")
             [] pc[j] = "fail" -> Mark(j, "failed")
             [] OTHER -> job' = [job EXCEPT ![j] = [status |-> "completed", processed |-> found[j]]]
  /\ Goto(j, "ended") /\ excuse' = excuse \cup {j}
  /\ UNCHANGED <<source, files, found>>

\* Background tasks die with the process.
Restart ==
  /\ Restarts
  /\ \E j \in Jobs : pc[j] \notin {"idle", "ended"}
  /\ excuse' = excuse \cup {j \in Jobs : pc[j] \notin {"idle", "ended"}}
  /\ pc' = [j \in Jobs |-> IF pc[j] = "idle" THEN "idle" ELSE "ended"]
  /\ UNCHANGED <<job, source, files, found>>

Task(j) ==
  \/ MarkRunning(j) \/ Open(j) \/ ParseFile(j) \/ MarkCompleted(j) \/ MarkFailed(j)
  \/ UpdateFails(j)

Next == (\E j \in Jobs : CreateRun(j) \/ CreateFails(j) \/ Task(j)) \/ Restart

Spec == Init /\ [][Next]_vars

\* The thread pool runs every queued task.
Fairness == \A j \in Jobs : WF_vars(Task(j))

FairSpec == Spec /\ Fairness

-----------------------------------------------------------------------------
(* Properties.                                                             *)

\* A run whose row is pending comes to an end that its row shows, unless one of
\* the calls no handler covers left it behind: a format the catalog allows and
\* no parser is registered for (orchestrator.py:71), an update that raised, a
\* restart.  api/ingestion.py:60 says that the failure row is always written.
IngestionSettles ==
  \A j \in Jobs : (job[j].status = "pending") ~>
                    (job[j].status \in {"completed", "failed"} \/ j \in excuse)
=============================================================================
