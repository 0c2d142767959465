------------------------------ MODULE IndexRuns ------------------------------
(***************************************************************************)
(* The Rails side of a corpus expansion (index_runs_controller.rb): an     *)
(* index_runs row is created around the POST that starts the job, then     *)
(* every page that shows it unfinished polls `status` every 1.5 seconds,   *)
(* without waiting for its previous poll, until an answer says `finished`  *)
(* (index_run_poller_controller.js).  Each poll loads the row, asks the    *)
(* service, and writes back the columns that differ from what it loaded.   *)
(*                                                                         *)
(* Composed with CorpusIndex: the job rows and the corpus the pages see    *)
(* are the ones its tasks write.                                           *)
(***************************************************************************)
EXTENDS CorpusIndex

CONSTANTS
  Pages,       \* browser pages that may show a run
  Pollers,     \* polls in flight at once, from one page or several
  NoPage,      \* no page waits for the answer of a poll
  NoRun,       \* the job has no index_runs row
  NoStats,     \* after_stats still is {}
  CallsFail    \* whether a request to the service may fail or time out

Run == [status : Status \ {"none"}, processed : Nat, before : Nat, after : Nat \cup {NoStats}]

ASSUME IndexRunsConstantsOK ==
  CallsFail \in BOOLEAN /\ NoStats \notin Nat /\ NoRun \notin Run /\ NoPage \notin Pages

VARIABLES
  form,    \* where the request that creates each run has got to
  before,  \* its local `before`: total_chunks ahead of the POST
  run,     \* the index_runs rows
  poll,    \* the polls in flight, as Rails holds them
  page,    \* the run each page shows, and whether it still polls
  caller   \* the page that waits for the answer of each poll

railsVars == <<form, before, run, poll, page, caller>>

\* The rows of `documents`, numbered per path, and their chunks: one each.
Documents == UNION {{d} \X (1..rows[d]) : d \in Docs}
TotalChunks == Cardinality(Documents)

\* What GET /index/jobs/{id} answers: the row of the job, as it is committed.
IndexJobView(j) == job[j]

Terminal == {"completed", "failed"}

Idle == [at |-> "idle"]

\* What a poll has seen of the job before it asked.
Unseen == [status |-> "pending", processed |-> 0]

Poll == [at : {"ask", "stats", "update"}, of : Jobs, loaded : Run,
         seen : [status : Status \ {"none"}, processed : Nat], stats : Nat \cup {NoStats}]

Away == [at |-> "away"]

Page == [of : Jobs, at : {"polling", "reload", "stopped"}]

RunsTypeOK ==
  /\ form \in [Jobs -> {"idle", "post", "save", "done", "failed"}]
  /\ before \in [Jobs -> Nat]
  /\ run \in [Jobs -> Run \cup {NoRun}]
  /\ poll \in [Pollers -> Poll \cup {Idle}]
  /\ page \in [Pages -> Page \cup {Away}]
  /\ caller \in [Pollers -> Pages \cup {NoPage}]

InitRuns ==
  /\ Init
  /\ form = [j \in Jobs |-> "idle"]
  /\ before = [j \in Jobs |-> 0]
  /\ run = [j \in Jobs |-> NoRun]
  /\ poll = [p \in Pollers |-> Idle]
  /\ page = [g \in Pages |-> Away]
  /\ caller = [p \in Pollers |-> NoPage]

-----------------------------------------------------------------------------
(* IndexRunsController#create.                                             *)

FetchBefore(j) ==
  /\ form[j] = "idle"
  /\ before' = [before EXCEPT ![j] = TotalChunks]
  /\ form' = [form EXCEPT ![j] = "post"]
  /\ UNCHANGED <<vars, run, poll, page, caller>>

\* start_expansion.  If its answer is lost the job runs without a row.
StartExpansion(j, b) ==
  /\ form[j] = "post"
  /\ \/ CreateRun(j, b) /\ form' = [form EXCEPT ![j] = "save"]
     \/ /\ CallsFail
        /\ CreateRun(j, b) \/ CreateFails(j, b) \/ UNCHANGED vars
        /\ form' = [form EXCEPT ![j] = "failed"]
  /\ UNCHANGED <<before, run, poll, page, caller>>

CreateRow(j) ==
  /\ form[j] = "save"
  /\ run' = [run EXCEPT ![j] = [status |-> "pending", processed |-> 0,
                                before |-> before[j], after |-> NoStats]]
  /\ form' = [form EXCEPT ![j] = "done"]
  /\ UNCHANGED <<vars, before, poll, page, caller>>

-----------------------------------------------------------------------------
(* A page, and IndexRunsController#status.                                 *)

\* The page is opened, reloaded by the user, or reloads itself; it polls
\* unless the row it was rendered from is finished.  The browser drops the
\* requests it had under way, Rails goes on serving them.
Show(g, j) ==
  /\ run[j] # NoRun
  /\ page[g] # Away => page[g].of = j
  /\ page' = [page EXCEPT ![g] =
       [of |-> j, at |-> IF run[j].status \in Terminal THEN "stopped" ELSE "polling"]]
  /\ caller' = [p \in Pollers |-> IF caller[p] = g THEN NoPage ELSE caller[p]]
  /\ UNCHANGED <<vars, form, before, run, poll>>

\* The answer of p: its page reloads if it says that the run is finished.
Answer(p, finished) ==
  /\ page' = IF finished /\ caller[p] # NoPage
             THEN [page EXCEPT ![caller[p]].at = "reload"] ELSE page
  /\ caller' = [caller EXCEPT ![p] = NoPage]

\* A page that polls asks for the run: a finished one is answered from its
\* row, any other is looked into.
Find(p, g, j) ==
  /\ poll[p] = Idle
  /\ page[g] = [of |-> j, at |-> "polling"]
  /\ IF run[j].status \in Terminal
     THEN page' = [page EXCEPT ![g].at = "reload"] /\ UNCHANGED <<poll, caller>>
     ELSE /\ poll' = [poll EXCEPT ![p] = [at |-> "ask", of |-> j, loaded |-> run[j],
                                         seen |-> Unseen, stats |-> NoStats]]
          /\ caller' = [caller EXCEPT ![p] = g]
          /\ UNCHANGED page
  /\ UNCHANGED <<vars, form, before, run>>

AskJob(p) ==
  /\ poll[p].at = "ask"
  /\ poll' = [poll EXCEPT
       ![p].seen = IndexJobView(poll[p].of),
       ![p].at = IF IndexJobView(poll[p].of).status \in Terminal THEN "stats" ELSE "update"]
  /\ UNCHANGED <<vars, form, before, run, page, caller>>

FetchStats(p) ==
  /\ poll[p].at = "stats"
  /\ poll' = [poll EXCEPT ![p].stats = TotalChunks, ![p].at = "update"]
  /\ UNCHANGED <<vars, form, before, run, page, caller>>

\* Mutant: the rescue reports the run as failed.
CallFails_Reported(p) ==
  /\ CallsFail
  /\ poll[p].at \in {"ask", "stats"}
  /\ run' = [run EXCEPT ![poll[p].of].status = "failed"]
  /\ poll' = [poll EXCEPT ![p] = Idle]
  /\ Answer(p, TRUE)
  /\ UNCHANGED <<vars, form, before>>

\* A failed call is rescued before update! and answered with finished: false.
CallFails(p) ==
  /\ CallsFail
  /\ poll[p].at \in {"ask", "stats"}
  /\ poll' = [poll EXCEPT ![p] = Idle]
  /\ Answer(p, FALSE)
  /\ UNCHANGED <<vars, form, before, run>>

\* A column is written when the new value differs from the loaded one.
Write(row, loaded, new) == IF new = loaded THEN row ELSE new

\* Mutant: the status is saved first, the stats by the poll that follows.
UpdateRun_StatusFirst(p) ==
  LET q == poll[p] IN
    /\ q.at = "update"
    /\ run' = [run EXCEPT ![q.of].status = Write(@, q.loaded.status, q.seen.status),
                          ![q.of].processed = Write(@, q.loaded.processed, q.seen.processed)]
    /\ poll' = [poll EXCEPT ![p] = Idle]
    /\ Answer(p, q.seen.status \in Terminal)
    /\ UNCHANGED <<vars, form, before>>

\* Mutant: writes the progress of a running job and drops its outcome.
UpdateRun_Running(p) ==
  LET q == poll[p] IN
    /\ q.at = "update"
    /\ run' = IF q.seen.status \in Terminal THEN run
              ELSE [run EXCEPT ![q.of].status = q.seen.status,
                               ![q.of].processed = q.seen.processed]
    /\ poll' = [poll EXCEPT ![p] = Idle]
    /\ Answer(p, q.seen.status \in Terminal)
    /\ UNCHANGED <<vars, form, before>>

UpdateRun(p) ==
  LET q == poll[p] IN
    /\ q.at = "update"
    /\ run' = [run EXCEPT
         ![q.of].status = Write(@, q.loaded.status, q.seen.status),
         ![q.of].processed = Write(@, q.loaded.processed, q.seen.processed),
         ![q.of].after = IF q.seen.status \in Terminal
                         THEN Write(@, q.loaded.after, q.stats) ELSE @]
    /\ poll' = [poll EXCEPT ![p] = Idle]
    /\ Answer(p, q.seen.status \in Terminal)
    /\ UNCHANGED <<vars, form, before>>

PollStep(p) ==
  \/ \E g \in Pages, j \in Jobs : Find(p, g, j)
  \/ AskJob(p) \/ FetchStats(p) \/ CallFails(p) \/ UpdateRun(p)

\* The service's own steps; its runs are started by StartExpansion alone.
ServiceStep ==
  /\ \/ \E c \in Clients, d \in Docs : SubmitIngest(c, d)
     \/ \E w \in Workers : WorkerStep(w)
     \/ Restart
  /\ UNCHANGED railsVars

NextRuns ==
  \/ \E j \in Jobs :
       \/ FetchBefore(j) \/ CreateRow(j)
       \/ \E b \in Batches : StartExpansion(j, b)
       \/ \E g \in Pages : Show(g, j)
  \/ \E p \in Pollers : PollStep(p)
  \/ ServiceStep

allVars == <<vars, railsVars>>

SpecRuns == InitRuns /\ [][NextRuns]_allVars

\* A page stays open while it polls and asks every 1.5 seconds until it is
\* told `finished` (setInterval), it does reload then, Rails writes what it has
\* read, and a call repeated for ever succeeds some time.
FairSpecRuns ==
  /\ SpecRuns
  /\ \A g \in Pages, j \in Jobs :
       /\ SF_allVars(\E p \in Pollers : Find(p, g, j))
       /\ WF_allVars(page[g].at = "reload" /\ Show(g, j))
  /\ \A p \in Pollers : /\ SF_allVars(AskJob(p)) /\ SF_allVars(FetchStats(p))
                         /\ WF_allVars(UpdateRun(p))
-----------------------------------------------------------------------------
(* Properties.                                                             *)

\* s is the outcome j reached, or the one it had reached before its last
\* acknowledgement got lost: mark_completed raised with its commit in place,
\* and the handler wrote "failed" over it (corpus_index.py 82-88).
OutcomeOf(s, j) ==
  \/ s = job[j].status
  \/ s = "completed" /\ job[j].status = "failed" /\ "finish" \in raised[j]

\* The row of j is finished, and shows how its job ended.
Shown(j) == run[j] # NoRun /\ run[j].status \in Terminal /\ OutcomeOf(run[j].status, j)

\* A finished run shows the outcome its job reached, however stale the polls
\* that wrote it.
RunFollowsJob ==
  \A j \in Jobs : run[j] # NoRun /\ run[j].status \in Terminal => Shown(j)

\* A run shown as completed comes with stats that contain every document its
\* job indexed: `before` was taken ahead of the POST, `after` once the job had
\* ended, however the polls of several pages overlap.
GrowthShown ==
  \A j \in Jobs : run[j] # NoRun /\ run[j].status = "completed" =>
    /\ run[j].after # NoStats
    /\ run[j].after >= run[j].before + indexed[j]

\* A page polls the run of a job that has ended.
Due(j) == job[j].status \in Terminal /\ \E g \in Pages : page[g] = [of |-> j, at |-> "polling"]

\* A poll in flight asked before the job ended, and will write that back.
Stale(j) ==
  \E p \in Pollers :
    /\ poll[p].at = "update"
    /\ poll[p].of = j
    /\ poll[p].seen.status \notin Terminal

\* A run that a page polls comes to show the outcome of its job once it has
\* ended, although calls fail and the pages stop at the first answer that says
\* `finished`; it shows it for good if no poll in flight is stale by then.  A
\* stale poll may reopen it once every page has stopped, and then it stays
\* "running" until a page is opened anew.
RunsSettle ==
  \A j \in Jobs :
    /\ Due(j) ~> Shown(j)
    /\ Due(j) /\ ~Stale(j) ~> []Shown(j)
=============================================================================
