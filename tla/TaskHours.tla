------------------------------ MODULE TaskHours ------------------------------
(***************************************************************************)
(* The hours of the tasks of a reviewed structure: POST                    *)
(* /v1/estimate/tasks/hours (one search per task, side by side) and POST   *)
(* /v1/estimate/agent/hours (the same, then the loop of an agent over the  *)
(* rows the searches left weak, and the merge of what it derived), up to   *)
(* the cost breakdown the wizard seeds from the answer.                    *)
(* A number of hours is the step that produced it: 0 is the row's own      *)
(* search, n > 0 the n-th step of the agent's trace.                       *)
(***************************************************************************)
EXTENDS Naturals, Sequences

CONSTANTS
  Keys,           \* names of tasks, [module, task]
  Submissions,    \* the structures that may be sent: sequences of names
  Calls,          \* tool calls the model may ask for
  MaxCalls,       \* bound: how many it asks for in one turn
  MaxIterations,  \* max_iterations of the request
  Nothing         \* no estimate yet

Tools == {"search_budgets", "derive_task_hours", "validate_estimate", "unknown"}

\* How the arguments of a call read: as the tool wants them, as an object it
\* rejects, as JSON that is no object, or not as JSON.
Forms == {"valid", "invalid", "not_object", "not_json"}

Grades == {"none", "low", "fair"}   \* reliability: null, below 0.35, the rest

\* key and grade matter to derive_task_hours; its neighbours are abstracted to
\* the reliability of their consensus, "none" when there are none.
Call == [tool : Tools, args : Forms, key : Keys, grade : Grades]

Estimate ==
  [has_match : BOOLEAN, hours : BOOLEAN, reliability : Grades, range : BOOLEAN, by : Nat]

\* One step of the trace: a call and whether its tool returned.
Step == [call : Call, ok : BOOLEAN]

ASSUME TaskHoursConstantsOK ==
  /\ Submissions \subseteq Seq(Keys)
  /\ Calls \subseteq Call
  /\ MaxCalls \in Nat
  /\ MaxIterations \in Nat \ {0}
  /\ Nothing \notin Estimate

VARIABLES
  pc,           \* where the request is
  modules,      \* the names of its tasks, in order
  agent,        \* whether it goes through the agent's endpoint
  rows,         \* the estimate of each task, Nothing until its search ended
  iterations,   \* turns of the model so far
  turn,         \* the calls of its last turn that are still to run
  trace,        \* the calls that ran
  derivations,  \* by name, the step of the trace that derived it last, or 0
  answer,       \* the estimates sent back
  breakdown,    \* what the wizard seeds from them
  asked         \* history: how many calls the model asked for

vars == <<pc, modules, agent, rows, iterations, turn, trace, derivations, answer,
          breakdown, asked>>

Slots == DOMAIN modules

Places == {"idle", "search", "ask", "tools", "answered", "failed", "seeded"}

TypeOK ==
  /\ pc \in Places
  /\ modules \in Seq(Keys)
  /\ agent \in BOOLEAN
  /\ rows \in [Slots -> Estimate \cup {Nothing}]
  /\ iterations \in 0..MaxIterations
  /\ turn \in Seq(Calls) /\ Len(turn) <= MaxCalls
  /\ trace \in Seq(Step) /\ Len(trace) + Len(turn) <= (MaxIterations - 1) * MaxCalls
  /\ derivations \in [Keys -> 0..Len(trace)]
  /\ answer \in Seq(Estimate) /\ breakdown \in Seq(Estimate)
  /\ asked \in Nat

Init ==
  /\ pc = "idle" /\ modules = <<>> /\ agent = FALSE /\ rows = <<>>
  /\ iterations = 0 /\ turn = <<>> /\ trace = <<>>
  /\ derivations = [k \in Keys |-> 0]
  /\ answer = <<>> /\ breakdown = <<>>
  /\ asked = 0

-----------------------------------------------------------------------------
(* The request, and one search per task.                                   *)

\* The form of a run's structure is sent; a request starts from nothing.
Submit(s, byAgent) ==
  /\ pc \in {"idle", "failed", "seeded"}
  /\ pc' = "search"
  /\ modules' = s /\ agent' = byAgent
  /\ rows' = [i \in DOMAIN s |-> Nothing]
  /\ iterations' = 0 /\ turn' = <<>> /\ trace' = <<>>
  /\ derivations' = [k \in Keys |-> 0]
  /\ answer' = <<>> /\ breakdown' = <<>>
  /\ asked' = 0

\* What estimate_one makes of the neighbours of a task: the range is there only
\* when they disagree and synthesis is on.
Found == [has_match : {TRUE}, hours : {TRUE}, reliability : {"low", "fair"},
          range : BOOLEAN, by : {0}]
NoMatch == [has_match |-> FALSE, hours |-> FALSE, reliability |-> "none",
            range |-> FALSE, by |-> 0]

EstimateOne(i) ==
  /\ pc = "search" /\ rows[i] = Nothing
  /\ \E e \in Found \cup {NoMatch} : rows' = [rows EXCEPT ![i] = e]
  /\ UNCHANGED <<pc, modules, agent, iterations, turn, trace, derivations, answer,
                 breakdown, asked>>

\* The gather raises with the first search that does.
SearchFails ==
  /\ pc = "search" /\ \E i \in Slots : rows[i] = Nothing
  /\ pc' = "failed"
  /\ UNCHANGED <<modules, agent, rows, iterations, turn, trace, derivations, answer,
                 breakdown, asked>>

\* _flag_reason: whether a row is worth handing to the agent.
Flagged(e) == ~e.has_match \/ e.range \/ e.reliability = "low"

\* Nobody is asked when nothing is flagged, or through /tasks/hours.
SearchesDone ==
  /\ pc = "search" /\ \A i \in Slots : rows[i] # Nothing
  /\ IF agent /\ \E i \in Slots : Flagged(rows[i])
       THEN pc' = "ask" /\ answer' = answer
       ELSE pc' = "answered" /\ answer' = rows
  /\ UNCHANGED <<modules, agent, rows, iterations, turn, trace, derivations, breakdown,
                 asked>>

-----------------------------------------------------------------------------
(* The agent: a turn of the model, then its calls one after the other.     *)

\* recovered: the derivations that have hours, over the rows of their name.
Merged ==
  [i \in Slots |->
    LET n == derivations[modules[i]] IN
    IF n > 0 /\ trace[n].call.grade # "none"
      THEN [rows[i] EXCEPT !.has_match = TRUE, !.hours = TRUE,
                           !.reliability = trace[n].call.grade, !.range = FALSE, !.by = n]
      ELSE rows[i]]

Turns == UNION {[1..n -> Calls] : n \in 0..MaxCalls}

\* The bound holds a turn back even when it asks for calls; then these never run.
Stops(calls, n) == calls = <<>> \/ n >= MaxIterations

ModelTurn(calls) ==
  /\ pc = "ask"
  /\ iterations' = iterations + 1 /\ asked' = asked + Len(calls)
  /\ IF Stops(calls, iterations + 1)
       THEN pc' = "answered" /\ answer' = Merged /\ turn' = <<>>
       ELSE pc' = "tools" /\ answer' = answer /\ turn' = calls
  /\ UNCHANGED <<modules, agent, rows, trace, derivations, breakdown>>

\* An exception of responses.create fails the request, the searched rows with it.
ModelFails ==
  /\ pc = "ask"
  /\ pc' = "failed"
  /\ UNCHANGED <<modules, agent, rows, iterations, turn, trace, derivations, answer,
                 breakdown, asked>>

\* Whether a tool returns rather than raises; a search may also fail of itself.
Returns(c, up) == c.tool # "unknown" /\ c.args = "valid" /\ (c.tool = "search_budgets" => up)

\* A call that raised is reported to the model and forgotten.
Derived(c, ok) ==
  IF ok /\ c.tool = "derive_task_hours"
    THEN [derivations EXCEPT ![c.key] = Len(trace) + 1]
    ELSE derivations

\* Mutant: a tool that raises ends its turn.
RunCall_BreaksOff ==
  /\ pc = "tools" /\ Head(turn).args # "not_object"
  /\ \E up \in BOOLEAN :
       LET c == Head(turn)  ok == Returns(c, up) IN
       /\ derivations' = Derived(c, ok)
       /\ trace' = Append(trace, [call |-> c, ok |-> ok])
       /\ turn' = IF ok THEN Tail(turn) ELSE <<>>
       /\ pc' = IF ok /\ Len(turn) > 1 THEN "tools" ELSE "ask"
  /\ UNCHANGED <<modules, agent, rows, iterations, answer, breakdown, asked>>

RunCall ==
  /\ pc = "tools" /\ Head(turn).args # "not_object"
  /\ \E up \in BOOLEAN :
       LET c == Head(turn)  ok == Returns(c, up) IN
       /\ derivations' = Derived(c, ok)
       /\ trace' = Append(trace, [call |-> c, ok |-> ok])
  /\ turn' = Tail(turn)
  /\ pc' = IF Len(turn) = 1 THEN "ask" ELSE "tools"
  /\ UNCHANGED <<modules, agent, rows, iterations, answer, breakdown, asked>>

\* The step of a call whose arguments are no object cannot be built, outside
\* the try that guards the tools.
RunCallRaises ==
  /\ pc = "tools" /\ Head(turn).args = "not_object"
  /\ pc' = "failed"
  /\ UNCHANGED <<modules, agent, rows, iterations, turn, trace, derivations, answer,
                 breakdown, asked>>

-----------------------------------------------------------------------------
(* The wizard: each task takes the answer to the last row of its name.     *)

\* Mutant: the answer is looked up by the name of the task alone.
Named_TaskOnly(k) == {j \in Slots : modules[j].task = k.task}

Named(k) == {j \in Slots : modules[j] = k}

Lookup(k) == answer[CHOOSE j \in Named(k) : \A i \in Named(k) : i <= j]

Seed ==
  /\ pc = "answered"
  /\ breakdown' = [i \in Slots |-> Lookup(modules[i])]
  /\ pc' = "seeded"
  /\ UNCHANGED <<modules, agent, rows, iterations, turn, trace, derivations, answer,
                 asked>>

Next ==
  \/ \E s \in Submissions, b \in BOOLEAN : Submit(s, b)
  \/ \E i \in Slots : EstimateOne(i)
  \/ SearchFails \/ SearchesDone
  \/ \E calls \in Turns : ModelTurn(calls)
  \/ ModelFails \/ RunCall \/ RunCallRaises \/ Seed

Spec == Init /\ [][Next]_vars

-----------------------------------------------------------------------------
(* Properties.                                                             *)

Answered == pc \in {"answered", "seeded"}

\* The steps in which the agent derived a name.
Derivations(k) ==
  {n \in DOMAIN trace :
     trace[n].ok /\ trace[n].call.tool = "derive_task_hours" /\ trace[n].call.key = k}

\* The trace, which is shown to the reviewer beside the hours, accounts for
\* them: a row is the agent's exactly if its last derivation of that name has a
\* match, and then it is of that step and carries no range of other analogs;
\* every other row is what its own search found, red if that was nothing.
AnswerTraced ==
  Answered =>
    /\ DOMAIN answer = Slots
    /\ \A i \in Slots :
         LET D == Derivations(modules[i]) IN
         \/ /\ answer[i] = rows[i]
            /\ \A n \in D : trace[n].call.grade # "none" =>
                 \E m \in D : m > n /\ trace[m].call.grade = "none"
         \/ \E n \in D :
              /\ \A m \in D : m <= n
              /\ trace[n].call.grade # "none"
              /\ answer[i].by = n /\ answer[i].reliability = trace[n].call.grade
              /\ answer[i].has_match /\ answer[i].hours /\ ~answer[i].range

\* The breakdown a cost is computed from holds, for every task, the answer to a
\* task of the same module and name, and no row without hours passes as matched.
BreakdownTraced ==
  pc = "seeded" =>
    /\ DOMAIN breakdown = Slots
    /\ \A i \in Slots :
         /\ \E j \in Slots : modules[j] = modules[i] /\ breakdown[i] = answer[j]
         /\ breakdown[i].has_match <=> breakdown[i].hours

\* Only the bound makes the loop drop calls: short of it, an answer comes after
\* every call the model asked for ran.
NothingDropped ==
  Answered /\ Len(trace) < asked => iterations = MaxIterations
==============================================================================
