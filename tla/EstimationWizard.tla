--------------------------- MODULE EstimationWizard ---------------------------
(***************************************************************************)
(* The Rails estimation wizard (estimation_runs_controller.rb): one row of *)
(* estimation_runs, advanced by requests that load it, call the service,   *)
(* and save what they changed.  Several tabs may show the run; each form   *)
(* sends back the data of the page it was rendered on.                     *)
(*                                                                         *)
(* An artifact is its lineage: the sequence of the requests that made it   *)
(* and all that it was built from.  <<>> is the blank column {}.           *)
(*   reformulation <<r>>         task_hours        <<r, g, e, h>>          *)
(*   generation    <<r, g>>      adjusted_breakdown  of those hours,       *)
(*   structure     <<r, g>> as seeded, <<r, g, e>> as edited by request e  *)
(***************************************************************************)
EXTENDS Naturals, SequencesExt

CONSTANTS
  Requests,  \* the requests made to one run; bounds the behaviours
  Tabs,      \* browser tabs open on it
  Draft      \* breakdown seeded by estimate_hours, confirmed by nobody

ASSUME DraftOK == Draft \notin Requests

VARIABLES
  row,    \* the estimation_runs row
  page,   \* the row as each tab last rendered it
  req,    \* the requests in flight
  causes  \* history: what may have left artifacts that do not match

vars == <<row, page, req, causes>>

Lineage == Seq(Requests)

NoBreakdown == [hours |-> <<>>, confirmed |-> Draft]

Row == [reformulation : Lineage, generation : Lineage, structure : Lineage,
        task_hours : Lineage,
        adjusted_breakdown : [hours : Lineage, confirmed : Requests \cup {Draft}],
        current_step : {"transcript", "reformulation", "review", "hours", "verification"}]

Idle == [at |-> "idle"]
Done == [at |-> "done"]

TypeOK ==
  /\ row \in Row
  /\ page \in [Tabs -> Row]
  /\ \A q \in Requests :
       \/ req[q] \in {Idle, Done}
       \/ /\ req[q].at \in {"save", "call", "clear"}
          /\ req[q].stage \in {"reformulate", "generate", "estimate_hours", "verify"}
          /\ req[q].loaded \in Row /\ req[q].sent \in Lineage
          /\ req[q].alone \in BOOLEAN
  /\ causes \subseteq {"overlap", "stale page", "interrupted", "failed hours"}

InFlight(q) == req[q] \notin {Idle, Done}
Quiet == \A q \in Requests : ~InFlight(q)

\* `create` has saved the run with its transcript.
Blank == [reformulation |-> <<>>, generation |-> <<>>, structure |-> <<>>, task_hours |-> <<>>,
          adjusted_breakdown |-> NoBreakdown, current_step |-> "transcript"]

Init ==
  /\ row = Blank
  /\ page = [t \in Tabs |-> Blank]
  /\ req = [q \in Requests |-> Idle]
  /\ causes = {}

\* update!: the columns that differ from what the request holds are written.
Update(held, new) ==
  [c \in DOMAIN row |-> IF new[c] = held[c] THEN row[c] ELSE new[c]]

-----------------------------------------------------------------------------
(* A tab renders the run, and submits one of its forms.                    *)

Show(t) ==
  /\ page' = [page EXCEPT ![t] = row]
  /\ UNCHANGED <<row, req, causes>>

\* EstimationRun.find.
Find(q, t, stage, sent) ==
  /\ req[q] = Idle
  /\ req' = [p \in Requests |->
       IF p = q THEN [at |-> IF stage \in {"reformulate", "generate"} THEN "call" ELSE "save",
                      stage |-> stage, loaded |-> row, sent |-> sent, alone |-> Quiet]
       ELSE IF InFlight(p) THEN [req[p] EXCEPT !.alone = FALSE] ELSE req[p]]
  /\ causes' = causes \cup {c \in {"overlap"} : ~Quiet}
                      \cup {c \in {"stale page"} :
                                page[t] # row /\ stage \in {"estimate_hours", "verify"}}
  /\ UNCHANGED <<row, page>>

\* `create` itself, or the button of the first screen.
Reformulate(q, t) == Find(q, t, "reformulate", <<>>)

\* Without a brief the service answers 422.
Generate(q, t) == Find(q, t, "generate", <<>>)

\* The structure on the page, as it is or edited.  The form is only there once
\* something was generated.
EstimateHours(q, t) ==
  /\ page[t].generation # <<>>
  /\ \/ Find(q, t, "estimate_hours", page[t].structure)
     \/ Find(q, t, "estimate_hours", Append(page[t].generation, q))

\* The breakdown on the page; the form is only there once there are hours.
Verify(q, t) ==
  /\ page[t].task_hours # <<>>
  /\ Find(q, t, "verify", page[t].adjusted_breakdown.hours)

-----------------------------------------------------------------------------
(* The request's saves around its call to the service.                     *)

Step(q, stage, at) == InFlight(q) /\ req[q].stage = stage /\ req[q].at = at

Reformulated(q) ==
  LET new == [req[q].loaded EXCEPT !.reformulation = <<q>>, !.current_step = "reformulation"] IN
  /\ Step(q, "reformulate", "call")
  /\ row' = Update(req[q].loaded, new)
  /\ req' = [req EXCEPT ![q].loaded = new, ![q].at = "clear"]
  /\ UNCHANGED <<page, causes>>

Generated(q) ==
  LET tree == Append(req[q].loaded.reformulation, q)
      new == [req[q].loaded EXCEPT !.generation = tree, !.structure = tree,
                                   !.current_step = "review"] IN
  /\ Step(q, "generate", "call")
  /\ req[q].loaded.reformulation # <<>>
  /\ row' = Update(req[q].loaded, new)
  /\ req' = [req EXCEPT ![q].loaded = new, ![q].at = "clear"]
  /\ UNCHANGED <<page, causes>>

\* Mutant: clears from the step after the next one.
Cleared_TooLate(q, held) ==
  [held EXCEPT !.adjusted_breakdown = NoBreakdown,
               !.task_hours = IF req[q].stage = "reformulate" THEN <<>> ELSE @,
               !.structure = IF req[q].stage = "reformulate" THEN <<>> ELSE @]

\* Mutant: clears the step itself too.
Cleared_TooEarly(q, held) ==
  [held EXCEPT !.adjusted_breakdown = NoBreakdown, !.task_hours = <<>>, !.structure = <<>>,
               !.generation = IF req[q].stage = "reformulate" THEN <<>> ELSE @]

\* clear_downstream!("reformulation") and clear_downstream!("review").
Cleared(q, held) ==
  [held EXCEPT !.adjusted_breakdown = NoBreakdown, !.task_hours = <<>>,
               !.generation = IF req[q].stage = "reformulate" THEN <<>> ELSE @,
               !.structure = IF req[q].stage = "reformulate" THEN <<>> ELSE @]

\* Made alone, the re-run leaves a row whose artifacts match: what had spoiled
\* it before is forgotten.
ClearDownstream(q) ==
  /\ InFlight(q) /\ req[q].at = "clear"
  /\ row' = Update(req[q].loaded, Cleared(q, req[q].loaded))
  /\ req' = [req EXCEPT ![q] = Done]
  /\ causes' = IF req[q].alone THEN {} ELSE causes
  /\ UNCHANGED page

SaveStructure(q) ==
  LET new == [req[q].loaded EXCEPT !.structure = req[q].sent] IN
  /\ Step(q, "estimate_hours", "save")
  /\ row' = Update(req[q].loaded, new)
  /\ req' = [req EXCEPT ![q].loaded = new, ![q].at = "call"]
  /\ UNCHANGED <<page, causes>>

HoursEstimated(q) ==
  LET hours == Append(req[q].sent, q)
      new == [req[q].loaded EXCEPT !.task_hours = hours,
                !.adjusted_breakdown = [hours |-> hours, confirmed |-> Draft],
                !.current_step = "hours"] IN
  /\ Step(q, "estimate_hours", "call")
  /\ req[q].sent # <<>>
  /\ row' = Update(req[q].loaded, new)
  /\ req' = [req EXCEPT ![q] = Done]
  /\ UNCHANGED <<page, causes>>

SaveConfirmed(q) ==
  LET new == [req[q].loaded EXCEPT
                !.adjusted_breakdown = [hours |-> req[q].sent, confirmed |-> q],
                !.current_step = "verification"] IN
  /\ Step(q, "verify", "save")
  /\ row' = Update(req[q].loaded, new)
  /\ req' = [req EXCEPT ![q] = Done]
  /\ UNCHANGED <<page, causes>>

\* guard_rag_errors: the service refused, failed or timed out.  The structure
\* that estimate_hours saved ahead of its call stays.
CallFails(q) ==
  /\ InFlight(q) /\ req[q].at = "call"
  /\ req' = [req EXCEPT ![q] = Done]
  /\ causes' = causes \cup {c \in {"failed hours"} : req[q].stage = "estimate_hours"}
  /\ UNCHANGED <<row, page>>

\* The process ends, or the database refuses the save that comes next.
Interrupted(q) ==
  /\ InFlight(q)
  /\ req' = [req EXCEPT ![q] = Done]
  /\ causes' = causes \cup
       {c \in {"interrupted"} : req[q].at = "clear" \/ Step(q, "estimate_hours", "call")}
  /\ UNCHANGED <<row, page>>

Next ==
  \/ \E t \in Tabs : Show(t)
  \/ \E q \in Requests :
       \/ \E t \in Tabs :
            Reformulate(q, t) \/ Generate(q, t) \/ EstimateHours(q, t) \/ Verify(q, t)
       \/ Reformulated(q) \/ Generated(q) \/ ClearDownstream(q)
       \/ SaveStructure(q) \/ HoursEstimated(q) \/ SaveConfirmed(q)
       \/ CallFails(q) \/ Interrupted(q)

Spec == Init /\ [][Next]_vars

-----------------------------------------------------------------------------
(* Properties.                                                             *)

\* Each artifact was built from the one on the row before it.
GenerationCurrent(r) == r.generation # <<>> => Front(r.generation) = r.reformulation
StructureCurrent(r) ==
  r.structure # <<>> => r.generation # <<>> /\ IsPrefix(r.generation, r.structure)
HoursCurrent(r) == r.task_hours # <<>> => Front(r.task_hours) = r.structure
BreakdownCurrent(r) == r.adjusted_breakdown.hours = r.task_hours

\* When no request is in flight, an artifact built from a superseded one was
\* left so by requests that overlapped, by one that died between its two saves,
\* by a form sent from an old page, or by an hours call that failed after its
\* structure was saved - and each link of the chain by some of these only.
StaleHasCause ==
  Quiet =>
    /\ GenerationCurrent(row) \/ causes \cap {"overlap", "interrupted"} # {}
    /\ StructureCurrent(row) \/ causes \cap {"overlap", "stale page"} # {}
    /\ HoursCurrent(row) \/ causes \cap {"overlap", "interrupted", "failed hours"} # {}
    /\ BreakdownCurrent(row) \/ causes \cap {"overlap", "stale page"} # {}

\* The screen that current_step names has its artifact: a failed call redirects
\* there.  Only overlapping requests can take it away, for each writes the
\* columns it found changed, and only an old page can confirm nothing.
ScreenPopulated ==
  LET populated ==
        CASE row.current_step = "transcript" -> TRUE
          [] row.current_step = "reformulation" -> row.reformulation # <<>>
          [] row.current_step = "review" -> row.structure # <<>>
          [] row.current_step = "hours" -> row.task_hours # <<>>
          [] row.current_step = "verification" -> row.task_hours # <<>>
  IN populated \/ causes \cap {"overlap", "stale page"} # {}

(* A claim of the code that it does not keep.                              *)

\* estimation_run.rb 95-97: the wizard never shows hours or an estimate built
\* from a superseded structure - here, even to one tab at a time.
NeverStale ==
  Quiet /\ causes \subseteq {"failed hours"} => HoursCurrent(row) /\ BreakdownCurrent(row)
=============================================================================
