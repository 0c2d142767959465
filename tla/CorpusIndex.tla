----------------------------- MODULE CorpusIndex -----------------------------
(***************************************************************************)
(* How documents enter the vector store: RagIngestService.ingest, one      *)
(* database transaction that checks for a duplicate, embeds and persists,  *)
(* called either by POST /embeddings/ingest or, in a loop, by the          *)
(* background task of POST /embeddings/index/runs, which keeps a job row   *)
(* up to date for its pollers.                                             *)
(*                                                                         *)
(* A worker is a direct ingest or an expansion job.  A step is a database  *)
(* call or the embedding call, with the code around it: the transactions   *)
(* of other workers and a restart of the process come in between.          *)
(***************************************************************************)
EXTENDS Naturals, Sequences, FiniteSets

CONSTANTS
  Jobs,       \* expansion runs
  Clients,    \* direct ingests
  Docs,       \* source_path values
  Batches,    \* the lists of documents a run may be submitted with
  Faults,     \* the calls that may raise
  LostAcks,   \* whether a call that raised may have committed
  Restarts    \* whether the process may restart

\* What a worker that is under way calls next, and what may raise.
Live == {"start", "check", "embed", "progress", "finish", "fail"}

FaultPoints == Live \cup {"create"}

Workers == Jobs \cup Clients

ASSUME CorpusConstantsOK ==
  /\ Jobs \cap Clients = {}
  /\ Batches \subseteq Seq(Docs) \ {<<>>}
  /\ Faults \subseteq FaultPoints
  /\ {LostAcks, Restarts} \subseteq BOOLEAN

VARIABLES
  rows,     \* committed rows of `documents` per source_path
  job,      \* the ingestion_jobs row of each run
  pc,       \* the call each worker makes next
  batch,    \* the documents it was submitted with
  pos,      \* expand: indexed + skipped
  indexed,  \* expand: indexed
  raced,    \* history: paths two transactions checked before either committed
  raised    \* history: the calls of each worker that raised

vars == <<rows, job, pc, batch, pos, indexed, raced, raised>>

Status == {"none", "pending", "running", "completed", "failed"}

TypeOK ==
  /\ rows \in [Docs -> Nat]
  /\ job \in [Jobs -> [status : Status, processed : Nat]]
  /\ pc \in [Workers -> Live \cup {"idle", "ended", "killed"}]
  /\ batch \in [Workers -> Seq(Docs)]
  /\ pos \in [Workers -> Nat]
  /\ indexed \in [Workers -> Nat]
  /\ \A w \in Workers : indexed[w] <= pos[w] /\ pos[w] <= Len(batch[w])
  /\ raced \subseteq Docs
  /\ raised \in [Workers -> SUBSET FaultPoints]

Init ==
  /\ rows = [d \in Docs |-> 0]
  /\ job = [j \in Jobs |-> [status |-> "none", processed |-> 0]]
  /\ pc = [w \in Workers |-> "idle"]
  /\ batch = [w \in Workers |-> <<>>]
  /\ pos = [w \in Workers |-> 0]
  /\ indexed = [w \in Workers |-> 0]
  /\ raced = {}
  /\ raised = [w \in Workers |-> {}]

Goto(w, l) == pc' = [pc EXCEPT ![w] = l]

\* The document the worker's transaction is about.
Current(w) == batch[w][pos[w] + 1]

\* A job's exceptions end in mark_failed, a client's in a 500.
Raise(w) == Goto(w, IF w \in Jobs THEN "fail" ELSE "ended")

Blame(w, call) == raised' = [raised EXCEPT ![w] = @ \cup {call}]

-----------------------------------------------------------------------------
(* Submission.                                                             *)

\* POST /embeddings/index/runs: the row is committed, then the task queued.
CreateRun(j, b) ==
  /\ pc[j] = "idle"
  /\ job' = [job EXCEPT ![j] = [status |-> "pending", processed |-> 0]]
  /\ batch' = [batch EXCEPT ![j] = b]
  /\ Goto(j, "start")
  /\ UNCHANGED <<rows, pos, indexed, raced, raised>>

\* The row is committed but the refresh that follows raises, or the answer of
\* the commit is lost: no task is queued.
CreateFails(j, b) ==
  /\ pc[j] = "idle"
  /\ "create" \in Faults
  /\ job' = [job EXCEPT ![j] = [status |-> "pending", processed |-> 0]]
  /\ batch' = [batch EXCEPT ![j] = b]
  /\ Goto(j, "ended")
  /\ Blame(j, "create")
  /\ UNCHANGED <<rows, pos, indexed, raced>>

\* POST /embeddings/ingest.
SubmitIngest(c, d) ==
  /\ pc[c] = "idle"
  /\ batch' = [batch EXCEPT ![c] = <<d>>]
  /\ Goto(c, "check")
  /\ UNCHANGED <<rows, job, pos, indexed, raced, raised>>

-----------------------------------------------------------------------------
(* The transaction of RagIngestService.ingest.                             *)

\* Mutant: the duplicate guard is gone.
CheckDuplicate_None(w) ==
  /\ pc[w] = "check"
  /\ Goto(w, "embed")
  /\ UNCHANGED <<rows, job, batch, pos, indexed, raced, raised>>

\* Mutant: expand no longer catches DuplicateDocumentError.
CheckDuplicate_Raises(w) ==
  /\ pc[w] = "check"
  /\ IF rows[Current(w)] = 0 THEN Goto(w, "embed") ELSE Raise(w)
  /\ UNCHANGED <<rows, job, batch, pos, indexed, raced, raised>>

\* find_document_id: no row; one row, DuplicateDocumentError, which expand
\* counts as skipped; or several, and scalar_one_or_none raises.
CheckDuplicate(w) ==
  /\ pc[w] = "check"
  /\ LET d == Current(w)
         rivals == {v \in Workers \ {w} : pc[v] = "embed" /\ Current(v) = d}
     IN \/ /\ rows[d] = 0
           /\ Goto(w, "embed")
           /\ raced' = IF rivals = {} THEN raced ELSE raced \cup {d}
           /\ UNCHANGED pos
        \/ /\ rows[d] = 1
           /\ IF w \in Jobs
              THEN pos' = [pos EXCEPT ![w] = @ + 1] /\ Goto(w, "progress")
              ELSE UNCHANGED pos /\ Goto(w, "ended")
           /\ UNCHANGED raced
        \/ /\ rows[d] > 1
           /\ Raise(w)
           /\ UNCHANGED <<pos, raced>>
  /\ UNCHANGED <<rows, job, batch, indexed, raised>>

\* Embedding returned, document and chunks were added, the commit returned.
Persist(w) ==
  /\ pc[w] = "embed"
  /\ rows' = [rows EXCEPT ![Current(w)] = @ + 1]
  /\ pos' = [pos EXCEPT ![w] = @ + 1]
  /\ indexed' = [indexed EXCEPT ![w] = @ + 1]
  /\ Goto(w, IF w \in Jobs THEN "progress" ELSE "ended")
  /\ UNCHANGED <<job, batch, raced, raised>>

\* The check, the embedding or the insert raised: everything rolls back.  A
\* commit whose acknowledgement was lost raises too, and the row is there.
IngestFails(w) ==
  /\ pc[w] \in {"check", "embed"}
  /\ pc[w] \in Faults
  /\ \/ UNCHANGED rows
     \/ /\ LostAcks /\ pc[w] = "embed"
        /\ rows' = [rows EXCEPT ![Current(w)] = @ + 1]
  /\ Raise(w)
  /\ Blame(w, pc[w])
  /\ UNCHANGED <<job, batch, pos, indexed, raced>>

-----------------------------------------------------------------------------
(* The background task, _run_expansion.  Each update of the job row opens  *)
(* its own session and commits.                                            *)

\* The row j has once `written` is committed, and where the task goes if the
\* call returns (next) or raises (handler).
JobUpdate(j, written, next, handler) ==
  \/ /\ job' = [job EXCEPT ![j] = written]
     /\ Goto(j, next)
     /\ UNCHANGED raised
  \/ /\ pc[j] \in Faults
     /\ \/ UNCHANGED job
        \/ LostAcks /\ job' = [job EXCEPT ![j] = written]
     /\ Goto(j, handler)
     /\ Blame(j, pc[j])

\* Mutant: the task never says it is running.
Start_Unmarked(j) ==
  /\ pc[j] = "start"
  /\ Goto(j, "check")
  /\ UNCHANGED <<rows, job, batch, pos, indexed, raced, raised>>

\* mark_running is called before the try: if it raises the task just dies.
Start(j) ==
  /\ pc[j] = "start"
  /\ JobUpdate(j, [job[j] EXCEPT !.status = "running"], "check", "ended")
  /\ UNCHANGED <<rows, batch, pos, indexed, raced>>

\* Mutant: reports the document being worked on.
Progress_Ahead(j) ==
  /\ pc[j] = "progress"
  /\ JobUpdate(j, [job[j] EXCEPT !.processed = pos[j] + 1],
               IF pos[j] < Len(batch[j]) THEN "check" ELSE "finish", "fail")
  /\ UNCHANGED <<rows, batch, pos, indexed, raced>>

\* on_progress(indexed + skipped), then the next document if there is one.
Progress(j) ==
  /\ pc[j] = "progress"
  /\ JobUpdate(j, [job[j] EXCEPT !.processed = pos[j]],
               IF pos[j] < Len(batch[j]) THEN "check" ELSE "finish", "fail")
  /\ UNCHANGED <<rows, batch, pos, indexed, raced>>

\* mark_completed writes the indexed count over the progress.
Finish(j) ==
  /\ pc[j] = "finish"
  /\ JobUpdate(j, [status |-> "completed", processed |-> indexed[j]], "ended", "fail")
  /\ UNCHANGED <<rows, batch, pos, indexed, raced>>

\* Mutant: the failure is logged, not recorded.
MarkFailed_LogOnly(j) ==
  /\ pc[j] = "fail"
  /\ Goto(j, "ended")
  /\ UNCHANGED <<rows, job, batch, pos, indexed, raced, raised>>

\* The handler: if mark_failed raises as well the task dies.
MarkFailed(j) ==
  /\ pc[j] = "fail"
  /\ JobUpdate(j, [job[j] EXCEPT !.status = "failed"], "ended", "ended")
  /\ UNCHANGED <<rows, batch, pos, indexed, raced>>

-----------------------------------------------------------------------------
\* Open transactions roll back; background tasks are not resumed.
Restart ==
  /\ Restarts
  /\ \E w \in Workers : pc[w] \in Live
  /\ pc' = [w \in Workers |-> IF pc[w] \in Live THEN "killed" ELSE pc[w]]
  /\ UNCHANGED <<rows, job, batch, pos, indexed, raced, raised>>

WorkerStep(w) ==
  \/ CheckDuplicate(w) \/ Persist(w) \/ IngestFails(w)
  \/ w \in Jobs /\ (Start(w) \/ Progress(w) \/ Finish(w) \/ MarkFailed(w))

Next ==
  \/ \E j \in Jobs, b \in Batches : CreateRun(j, b) \/ CreateFails(j, b)
  \/ \E c \in Clients, d \in Docs : SubmitIngest(c, d)
  \/ \E w \in Workers : WorkerStep(w)
  \/ Restart

Spec == Init /\ [][Next]_vars

\* A task that is scheduled runs on: its calls return or raise (timeouts of
\* the OpenAI client and of the database driver).  Nobody owes a submission.
Fairness == \A w \in Workers : WF_vars(WorkerStep(w))

FairSpec == Spec /\ Fairness
-----------------------------------------------------------------------------
(* Properties.                                                             *)

\* A job that says "completed" has every document of its batch in the corpus,
\* whether it indexed it, skipped it or repeated it (index_service.expand).
CompletedIsIndexed ==
  \A j \in Jobs : job[j].status = "completed" =>
    \A i \in 1..Len(batch[j]) : rows[batch[j][i]] > 0

\* Every document a poller has seen counted is in the corpus, also after the
\* job failed or was killed: what resubmitting the batch will skip.
ProgressIsReal ==
  \A j \in Jobs : \A i \in 1..Len(batch[j]) :
    i <= job[j].processed => rows[batch[j][i]] > 0

\* A path has two documents only if two transactions on it overlapped: never
\* through retries, failed or killed jobs, or lost acknowledgements.
DuplicatesNeedRace == \A d \in Docs : rows[d] > 1 => d \in raced

\* A job fails only if one of its calls raised or its batch holds a path that
\* was ingested twice: a duplicate as such is skipped.
FailuresHaveCause ==
  \A j \in Jobs : job[j].status = "failed" =>
    raised[j] # {} \/ \E i \in 1..Len(batch[j]) : rows[batch[j][i]] > 1

Lifecycle ==
  INSTANCE JobLifecycle WITH
    status <- [j \in Jobs |-> job[j].status],
    processed <- [j \in Jobs |-> job[j].processed]

\* Job rows go through the life cycle JobLifecycle states.
LifecycleKept == Lifecycle!Spec

\* The bookkeeping outside the try, or the process, failed: nothing will write
\* the outcome of j any more.
Abandoned(j) ==
  pc[j] = "killed" \/ raised[j] \cap {"create", "start", "fail"} # {}

\* Every other submitted job reaches a terminal status, whichever of the calls
\* inside the try raise.
JobsEnd ==
  \A j \in Jobs :
    job[j].status # "none" ~> job[j].status \in Lifecycle!Terminal \/ Abandoned(j)
=============================================================================
