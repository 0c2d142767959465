------------------------------ MODULE WizardProofs ------------------------------
(***************************************************************************)
(* Proofs about EstimationWizard, for any number of requests and tabs; and *)
(* about what its steps call: EstimateStages, for any corpus, ranking and  *)
(* estimate, and Retrieval, for any collections, plans and rankings.       *)
(***************************************************************************)
EXTENDS EstimationWizard, EstimateStages, Retrieval, FiniteSetTheorems, WellFoundedInduction, TLAPS

Breakdown == [hours : Lineage, confirmed : Requests \cup {Draft}]
Steps == {"transcript", "reformulation", "review", "hours", "verification"}
Columns == {"reformulation", "generation", "structure", "task_hours", "adjusted_breakdown", "current_step"}

LEMMA RowFields ==
  ASSUME NEW r \in Row
  PROVE  /\ DOMAIN r = Columns
         /\ r.reformulation \in Lineage /\ r.generation \in Lineage /\ r.structure \in Lineage
         /\ r.task_hours \in Lineage /\ r.adjusted_breakdown \in Breakdown /\ r.current_step \in Steps
  BY DEF Row, Breakdown, Steps, Columns

LEMMA UpdateType ==
  ASSUME row \in Row, NEW held \in Row, NEW new \in Row
  PROVE  Update(held, new) \in Row
<1> DEFINE u == Update(held, new)
<1>1. \A c \in Columns : u[c] = IF new[c] = held[c] THEN row[c] ELSE new[c]
  BY RowFields DEF Update
<1>2. DOMAIN u = Columns
  BY RowFields DEF Update
<1>3. u = [c \in Columns |-> u[c]]
  BY <1>2 DEF Update
<1>4. u = [reformulation |-> u.reformulation, generation |-> u.generation, structure |-> u.structure,
           task_hours |-> u.task_hours, adjusted_breakdown |-> u.adjusted_breakdown,
           current_step |-> u.current_step]
  BY <1>3 DEF Columns
<1> QED
  BY <1>1, <1>4, RowFields DEF Row, Columns, Breakdown, Steps

LEMMA UpdateHeld ==
  ASSUME row \in Row, NEW new \in Row
  PROVE  Update(row, new) = new
<1>1. DOMAIN new = DOMAIN row
  BY RowFields
<1>2. new = [c \in DOMAIN new |-> new[c]]
  BY DEF Row
<1> QED
  BY <1>1, <1>2 DEF Update

Request == [at : {"save", "call", "clear"},
            stage : {"reformulate", "generate", "estimate_hours", "verify"},
            loaded : Row, sent : Lineage, alone : BOOLEAN]

Causes == {"overlap", "stale page", "interrupted", "failed hours"}

Types ==
  /\ row \in Row
  /\ page \in [Tabs -> Row]
  /\ req \in [Requests -> {Idle, Done} \cup Request]
  /\ causes \subseteq Causes

\* The step of a request belongs to its stage.
Staged(q) == InFlight(q) =>
  /\ req[q].at = "save" => req[q].stage \in {"estimate_hours", "verify"}
  /\ req[q].at = "clear" => req[q].stage \in {"reformulate", "generate"}

\* What the row holds between the two saves of a request.
Between(q) ==
  /\ req[q].at = "clear" /\ req[q].stage = "reformulate" =>
       row.current_step = "reformulation" /\ row.reformulation # <<>>
  /\ req[q].at = "clear" /\ req[q].stage = "generate" =>
       /\ row.current_step = "review" /\ row.generation # <<>>
       /\ row.structure = row.generation /\ Front(row.generation) = row.reformulation
  /\ req[q].at = "call" /\ req[q].stage = "estimate_hours" => row.structure = req[q].sent

\* What a form sent from a page that showed the row as it was.
Current(q) ==
  /\ req[q].at = "save" /\ req[q].stage = "estimate_hours" =>
       /\ req[q].sent # <<>> => row.generation # <<>> /\ IsPrefix(row.generation, req[q].sent)
       /\ row.current_step = "review" => req[q].sent # <<>>
  /\ req[q].at = "save" /\ req[q].stage = "verify" =>
       req[q].sent = row.task_hours /\ row.task_hours # <<>>

\* A request that no other overlapped holds the row as it is.
Solo(q) == InFlight(q) /\ req[q].alone =>
  /\ req[q].loaded = row
  /\ \A p \in Requests \ {q} : ~InFlight(p)
  /\ Between(q)
  /\ causes \cap {"overlap", "stale page"} = {} => Current(q)

Crowd(q) == InFlight(q) /\ ~req[q].alone => "overlap" \in causes

\* The screen that the row names has its artifact.
Populated ==
  /\ row.current_step = "reformulation" => row.reformulation # <<>>
  /\ row.current_step = "review" => row.structure # <<>>
  /\ row.current_step \in {"hours", "verification"} => row.task_hours # <<>>

Reformulating == \E q \in Requests : Step(q, "reformulate", "clear")
Rebuilding == \E q \in Requests :
  InFlight(q) /\ (req[q].at = "clear" \/ Step(q, "estimate_hours", "call"))

Links ==
  /\ GenerationCurrent(row) \/ "interrupted" \in causes \/ Reformulating
  /\ StructureCurrent(row) \/ "stale page" \in causes
  /\ HoursCurrent(row) \/ causes \cap {"interrupted", "failed hours"} # {} \/ Rebuilding
  /\ BreakdownCurrent(row) \/ "stale page" \in causes
  /\ Populated \/ "stale page" \in causes

\* The inductive invariant.
IInv ==
  /\ Types
  /\ \A q \in Requests : Staged(q) /\ Solo(q) /\ Crowd(q)
  /\ "overlap" \in causes \/ Links

-----------------------------------------------------------------------------
LEMMA SequenceFacts ==
  /\ <<>> \in Lineage
  /\ \A q \in Requests : <<q>> \in Lineage /\ <<q>> # <<>>
  /\ \A s \in Lineage, q \in Requests :
       /\ Append(s, q) \in Lineage /\ Append(s, q) # <<>>
       /\ Front(Append(s, q)) = s /\ IsPrefix(s, Append(s, q))
  /\ \A s \in Lineage : IsPrefix(s, s)
<1>1. ASSUME NEW s \in Lineage, NEW q \in Requests
      PROVE  /\ Append(s, q) \in Lineage /\ Append(s, q) # <<>>
             /\ Front(Append(s, q)) = s /\ IsPrefix(s, Append(s, q))
  <2>1. /\ Append(s, q) \in Seq(Requests) /\ Len(Append(s, q)) = Len(s) + 1
        /\ \A i \in 1..Len(s) : Append(s, q)[i] = s[i]
    BY DEF Lineage
  <2>2. SubSeq(Append(s, q), 1, Len(s)) = s
    BY <2>1 DEF Lineage
  <2>3. SubSeq(s, 1, Len(s)) = s
    BY DEF Lineage
  <2>4. Len(Append(s, q)) - 1 = Len(s) /\ Len(s) <= Len(Append(s, q)) /\ Append(s, q) # <<>>
    <3>1. Len(s) \in Nat /\ Len(<<>>) = 0
      BY DEF Lineage
    <3> QED
      BY <2>1, <3>1
  <2> QED
    BY <2>1, <2>2, <2>3, <2>4 DEF Lineage, Front, IsPrefix
<1>2. ASSUME NEW s \in Lineage PROVE IsPrefix(s, s)
  BY DEF Lineage, IsPrefix
<1> QED
  BY <1>1, <1>2 DEF Lineage

\* A request in flight is a record, and no other value of req is one of its steps.
LEMMA Flight ==
  ASSUME Types, NEW q \in Requests
  PROVE  /\ InFlight(q) => req[q] \in Request
         /\ InFlight(q) <=> req[q].at \in {"save", "call", "clear"}
<1>1. req[q] \in {Idle, Done} \cup Request
  BY DEF Types
<1>2. Idle.at = "idle" /\ Done.at = "done"
  BY DEF Idle, Done
<1>3. req[q] \in Request => req[q].at \in {"save", "call", "clear"}
  BY DEF Request
<1> QED
  BY <1>1, <1>2, <1>3 DEF InFlight

\* The request leaves.
LEMMA Leaves ==
  ASSUME Types, NEW q \in Requests, req' = [req EXCEPT ![q] = Done]
  PROVE  /\ req' \in [Requests -> {Idle, Done} \cup Request]
         /\ ~InFlight(q)'
         /\ \A p \in Requests \ {q} : req'[p] = req[p]
  BY DEF Types, InFlight

\* The request goes on to its next step, with what it has saved.
LEMMA Moves ==
  ASSUME Types, NEW q \in Requests, InFlight(q), NEW new \in Row, NEW a \in {"call", "clear"},
         req' = [req EXCEPT ![q].loaded = new, ![q].at = a]
  PROVE  /\ req' \in [Requests -> {Idle, Done} \cup Request]
         /\ InFlight(q)' /\ req'[q].at = a /\ req'[q].loaded = new
         /\ req'[q].stage = req[q].stage /\ req'[q].sent = req[q].sent
         /\ req'[q].alone = req[q].alone
         /\ \A p \in Requests \ {q} : req'[p] = req[p]
<1> DEFINE t == [req[q] EXCEPT !.loaded = new, !.at = a]
<1>1. req[q] \in Request
  BY Flight
<1>2. t \in Request
  BY <1>1 DEF Request
<1>3. /\ t.at = a /\ t.loaded = new /\ t.stage = req[q].stage /\ t.sent = req[q].sent
      /\ t.alone = req[q].alone
  BY <1>1 DEF Request
<1>4. req' = [req EXCEPT ![q] = t]
  BY <1>1 DEF Types, Request
<1> HIDE DEF t
<1>5. /\ req'[q] = t /\ req' \in [Requests -> {Idle, Done} \cup Request]
      /\ \A p \in Requests \ {q} : req'[p] = req[p]
  BY <1>2, <1>4 DEF Types
<1>6. t \notin {Idle, Done}
  BY <1>3 DEF Idle, Done
<1> QED
  BY <1>3, <1>5, <1>6 DEF InFlight

\* A step of q leaves the invariant of the others as it is.
LEMMA OthersKeep ==
  ASSUME IInv, NEW q \in Requests, InFlight(q), \A p \in Requests \ {q} : req'[p] = req[p],
         causes \subseteq causes' \/ req[q].alone
  PROVE  \A p \in Requests \ {q} : Staged(p)' /\ Solo(p)' /\ Crowd(p)'
<1> SUFFICES ASSUME NEW p \in Requests \ {q}, InFlight(p)'
             PROVE  Staged(p)' /\ Solo(p)' /\ Crowd(p)'
  BY DEF Staged, Solo, Crowd
<1>1. req'[p] = req[p] /\ InFlight(p)
  BY DEF InFlight
<1>2. ~req[p].alone /\ ~req[q].alone
  BY <1>1 DEF IInv, Solo
<1>3. "overlap" \in causes'
  BY <1>1, <1>2 DEF IInv, Crowd
<1> QED
  BY <1>1, <1>2, <1>3 DEF IInv, Staged, Solo, Crowd, InFlight

\* The step of a request that nobody overlapped, when no overlap is remembered.
LEMMA Lone ==
  ASSUME IInv, NEW q \in Requests, InFlight(q), "overlap" \notin causes
  PROVE  /\ req[q].alone /\ req[q].loaded = row /\ Between(q) /\ Links
         /\ "stale page" \notin causes => Current(q)
         /\ \A p \in Requests : InFlight(p) => p = q
  BY DEF IInv, Solo, Crowd

LEMMA SoloUpdate ==
  ASSUME IInv, NEW q \in Requests, InFlight(q), NEW new \in Row
  PROVE  /\ Update(req[q].loaded, new) \in Row
         /\ req[q].alone => Update(req[q].loaded, new) = new
<1>1. row \in Row /\ req[q].loaded \in Row
  BY Flight DEF IInv, Types, Request
<1> QED
  BY <1>1, UpdateType, UpdateHeld DEF IInv, Solo

-----------------------------------------------------------------------------
(* The invariant is inductive: one lemma per action.                       *)

LEMMA InitIInv == Init => IInv
<1> SUFFICES ASSUME Init PROVE IInv
  OBVIOUS
<1>1. Blank \in Row
  BY SequenceFacts DEF Blank, Row, NoBreakdown
<1>2. Types
  BY <1>1 DEF Init, Types
<1>3. \A q \in Requests : ~InFlight(q)
  BY DEF Init, InFlight
<1>4. Links
  BY DEF Init, Blank, NoBreakdown, Links, GenerationCurrent, StructureCurrent, HoursCurrent,
         BreakdownCurrent, Populated
<1> QED
  BY <1>2, <1>3, <1>4 DEF IInv, Staged, Solo, Crowd

LEMMA ShowStep ==
  ASSUME IInv, NEW t \in Tabs, Show(t)
  PROVE  IInv'
<1>1. Types'
  BY DEF IInv, Show, Types
<1>2. row' = row /\ req' = req /\ causes' = causes
  BY DEF Show
<1> QED
  BY <1>1, <1>2 DEF IInv, Staged, Solo, Crowd, Between, Current, Links, Populated, Reformulating,
                    Rebuilding, Step, InFlight

\* What a request starts with.
Sent(q, t, stage, sent) ==
  /\ stage = "estimate_hours" =>
       /\ page[t].generation # <<>>
       /\ sent = page[t].structure \/ sent = Append(page[t].generation, q)
  /\ stage = "verify" => page[t].task_hours # <<>> /\ sent = page[t].adjusted_breakdown.hours

LEMMA FindStep ==
  ASSUME IInv, NEW q \in Requests, NEW t \in Tabs,
         NEW stage \in {"reformulate", "generate", "estimate_hours", "verify"},
         NEW sent \in Lineage, Find(q, t, stage, sent), Sent(q, t, stage, sent)
  PROVE  IInv'
<1> DEFINE new == [at |-> IF stage \in {"reformulate", "generate"} THEN "call" ELSE "save",
                   stage |-> stage, loaded |-> row, sent |-> sent, alone |-> Quiet]
<1>1. row \in Row /\ page[t] \in Row /\ causes \subseteq Causes
  BY DEF IInv, Types
<1>2. new \in Request /\ new \notin {Idle, Done}
  BY <1>1 DEF Request, Quiet, Idle, Done
<1>3. \A p \in Requests : InFlight(p) =>
        /\ req[p] \in Request
        /\ [req[p] EXCEPT !.alone = FALSE] \in Request
        /\ [req[p] EXCEPT !.alone = FALSE].alone = FALSE
        /\ [req[p] EXCEPT !.alone = FALSE].at = req[p].at
        /\ [req[p] EXCEPT !.alone = FALSE].stage = req[p].stage
  <2> SUFFICES ASSUME NEW r \in Request
               PROVE  /\ [r EXCEPT !.alone = FALSE] \in Request
                      /\ [r EXCEPT !.alone = FALSE].alone = FALSE
                      /\ [r EXCEPT !.alone = FALSE].at = r.at
                      /\ [r EXCEPT !.alone = FALSE].stage = r.stage
    BY Flight DEF IInv
  <2> QED
    BY DEF Request
<1>4. /\ req[q] = Idle
      /\ req' = [p \in Requests |-> IF p = q THEN new
                   ELSE IF InFlight(p) THEN [req[p] EXCEPT !.alone = FALSE] ELSE req[p]]
      /\ causes' = causes \cup {c \in {"overlap"} : ~Quiet}
                          \cup {c \in {"stale page"} :
                                    page[t] # row /\ stage \in {"estimate_hours", "verify"}}
      /\ row' = row /\ page' = page
  BY DEF Find
<1>5. ~InFlight(q)
  BY <1>4 DEF InFlight
<1>6. /\ req'[q] = new
      /\ \A p \in Requests \ {q} :
           req'[p] = IF InFlight(p) THEN [req[p] EXCEPT !.alone = FALSE] ELSE req[p]
  BY <1>4
<1>7. Types'
  <2>1. req' \in [Requests -> {Idle, Done} \cup Request]
    BY <1>2, <1>3, <1>4 DEF IInv, Types
  <2>2. causes' \subseteq Causes
    BY <1>1, <1>4 DEF Causes
  <2> QED
    BY <1>4, <2>1, <2>2 DEF IInv, Types
<1>8. /\ new.at = (IF stage \in {"reformulate", "generate"} THEN "call" ELSE "save")
      /\ new.stage = stage /\ new.loaded = row /\ new.sent = sent /\ new.alone = Quiet
  OBVIOUS
<1> HIDE DEF new
<1>9. \A p \in Requests \ {q} : InFlight(p)' =>
        InFlight(p) /\ req'[p].alone = FALSE /\ req'[p].at = req[p].at /\ req'[p].stage = req[p].stage
  BY <1>3, <1>6 DEF InFlight
<1>10. \A p \in Requests \ {q} : Staged(p)' /\ Solo(p)' /\ Crowd(p)'
  <2> SUFFICES ASSUME NEW p \in Requests \ {q}, InFlight(p)' PROVE Staged(p)' /\ Solo(p)' /\ Crowd(p)'
    BY DEF Staged, Solo, Crowd
  <2>1. ~Quiet
    BY <1>9 DEF Quiet
  <2>2. "overlap" \in causes'
    BY <1>4, <2>1
  <2> QED
    BY <1>9, <2>2 DEF IInv, Staged, Solo, Crowd
<1>11. Staged(q)' /\ Crowd(q)'
  BY <1>4, <1>6, <1>8 DEF Staged, Crowd
<1>12. Solo(q)'
  <2> SUFFICES ASSUME Quiet
               PROVE  /\ req'[q].loaded = row'
                      /\ \A p \in Requests \ {q} : ~InFlight(p)'
                      /\ Between(q)'
                      /\ causes' \cap {"overlap", "stale page"} = {} => Current(q)'
    BY <1>6, <1>8 DEF Solo
  <2>1. \A p \in Requests \ {q} : ~InFlight(p)'
    BY <1>9 DEF Quiet
  <2>2. Between(q)'
    BY <1>6, <1>8 DEF Between
  <2>3. ASSUME causes' \cap {"overlap", "stale page"} = {} PROVE Current(q)'
    <3>1. "overlap" \notin causes /\ "stale page" \notin causes
      BY <1>4, <2>3
    <3>2. StructureCurrent(row) /\ BreakdownCurrent(row) /\ Populated
      BY <3>1 DEF IInv, Links
    <3>3. stage \in {"estimate_hours", "verify"} => page[t] = row
      BY <1>4, <2>3
    <3>4. ASSUME stage = "estimate_hours"
          PROVE  /\ sent # <<>> => row.generation # <<>> /\ IsPrefix(row.generation, sent)
                 /\ row.current_step = "review" => sent # <<>>
      <4>1. row.generation # <<>> /\ (sent = row.structure \/ sent = Append(row.generation, q))
        BY <3>3, <3>4 DEF Sent
      <4>2. row.generation \in Lineage
        BY <1>1, RowFields
      <4> QED
        BY <3>2, <4>1, <4>2, SequenceFacts DEF StructureCurrent, Populated
    <3>5. stage = "verify" => sent = row.task_hours /\ row.task_hours # <<>>
      BY <3>2, <3>3 DEF Sent, BreakdownCurrent
    <3> QED
      BY <1>4, <1>6, <1>8, <3>4, <3>5 DEF Current
  <2> QED
    BY <1>4, <1>6, <1>8, <2>1, <2>2, <2>3
<1>13. "overlap" \in causes' \/ Links'
  <2> SUFFICES ASSUME "overlap" \notin causes' PROVE Links'
    OBVIOUS
  <2>1. Quiet /\ causes \subseteq causes' /\ "overlap" \notin causes
    BY <1>4
  <2>2. ~Reformulating /\ ~Rebuilding
    BY <2>1 DEF Quiet, Reformulating, Rebuilding, Step
  <2> QED
    BY <1>4, <2>1, <2>2 DEF IInv, Links, Populated
<1> QED
  BY <1>7, <1>10, <1>11, <1>12, <1>13 DEF IInv

\* The parts of the invariant that a leaving request cannot disturb.
LEMMA LeaveKeeps ==
  ASSUME IInv, NEW q \in Requests, InFlight(q), req' = [req EXCEPT ![q] = Done],
         causes \subseteq causes' \/ req[q].alone,
         row' \in Row, page' = page, causes' \subseteq Causes, "overlap" \in causes' \/ Links'
  PROVE  IInv'
<1>1. /\ req' \in [Requests -> {Idle, Done} \cup Request] /\ ~InFlight(q)'
      /\ \A p \in Requests \ {q} : req'[p] = req[p]
  BY Leaves DEF IInv
<1>2. \A p \in Requests \ {q} : Staged(p)' /\ Solo(p)' /\ Crowd(p)'
  BY <1>1, OthersKeep
<1>3. Staged(q)' /\ Solo(q)' /\ Crowd(q)'
  BY <1>1 DEF Staged, Solo, Crowd
<1>4. Types'
  BY <1>1 DEF IInv, Types
<1> QED
  BY <1>2, <1>3, <1>4 DEF IInv

\* The same for a request that saves what it holds and goes on.
LEMMA MoveKeeps ==
  ASSUME IInv, NEW q \in Requests, InFlight(q), NEW new \in Row, NEW a \in {"call", "clear"},
         a = "clear" => req[q].stage \in {"reformulate", "generate"},
         req' = [req EXCEPT ![q].loaded = new, ![q].at = a],
         row' = Update(req[q].loaded, new), page' = page, causes' = causes,
         row' = new => Between(q)', "overlap" \in causes \/ Links'
  PROVE  IInv'
<1>1. /\ req' \in [Requests -> {Idle, Done} \cup Request]
      /\ InFlight(q)' /\ req'[q].at = a /\ req'[q].loaded = new
      /\ req'[q].stage = req[q].stage /\ req'[q].alone = req[q].alone
      /\ \A p \in Requests \ {q} : req'[p] = req[p]
  BY Moves DEF IInv
<1>2. \A p \in Requests \ {q} : Staged(p)' /\ Solo(p)' /\ Crowd(p)'
  BY <1>1, OthersKeep
<1>3. row' \in Row /\ (req[q].alone => row' = new)
  BY SoloUpdate
<1>4. Staged(q)' /\ Crowd(q)'
  BY <1>1 DEF IInv, Staged, Crowd
<1>5. Solo(q)'
  <2>1. req[q].alone => \A p \in Requests \ {q} : ~InFlight(p)'
    BY <1>1 DEF IInv, Solo, InFlight
  <2>2. Current(q)'
    BY <1>1 DEF Current
  <2> QED
    BY <1>1, <1>3, <2>1, <2>2 DEF Solo
<1>6. Types'
  BY <1>1, <1>3 DEF IInv, Types
<1> QED
  BY <1>2, <1>4, <1>5, <1>6 DEF IInv

LEMMA ReformulatedStep ==
  ASSUME IInv, NEW q \in Requests, Reformulated(q)
  PROVE  IInv'
<1> DEFINE new == [req[q].loaded EXCEPT !.reformulation = <<q>>, !.current_step = "reformulation"]
<1>1. /\ InFlight(q) /\ req[q].stage = "reformulate"
      /\ row' = Update(req[q].loaded, new) /\ req' = [req EXCEPT ![q].loaded = new, ![q].at = "clear"]
      /\ page' = page /\ causes' = causes
  BY DEF Reformulated, Step
<1>2. req[q].loaded \in Row
  BY <1>1, Flight DEF IInv, Request
<1>3. /\ new \in Row /\ new.reformulation = <<q>> /\ new.current_step = "reformulation"
      /\ new.generation = req[q].loaded.generation /\ new.structure = req[q].loaded.structure
      /\ new.task_hours = req[q].loaded.task_hours
      /\ new.adjusted_breakdown = req[q].loaded.adjusted_breakdown
  BY <1>2, SequenceFacts DEF Row
<1> HIDE DEF new
<1>4. InFlight(q)' /\ req'[q].at = "clear" /\ req'[q].stage = "reformulate"
  BY <1>1, <1>3, Moves DEF IInv
<1>5. row' = new => Between(q)'
  BY <1>3, <1>4, SequenceFacts DEF Between
<1>6. "overlap" \in causes \/ Links'
  <2> SUFFICES ASSUME "overlap" \notin causes PROVE Links'
    OBVIOUS
  <2>1. Links /\ req[q].loaded = row /\ row' = new
    BY <1>1, <1>3, Lone, SoloUpdate
  <2>2. Reformulating' /\ Rebuilding'
    BY <1>4 DEF Reformulating, Rebuilding, Step
  <2>3. Populated'
    BY <1>3, <2>1, SequenceFacts DEF Populated
  <2> QED
    BY <1>1, <1>3, <2>1, <2>2, <2>3 DEF Links, StructureCurrent, BreakdownCurrent
<1> QED
  BY <1>1, <1>3, <1>5, <1>6, MoveKeeps

LEMMA GeneratedStep ==
  ASSUME IInv, NEW q \in Requests, Generated(q)
  PROVE  IInv'
<1> DEFINE tree == Append(req[q].loaded.reformulation, q)
           new == [req[q].loaded EXCEPT !.generation = tree, !.structure = tree, !.current_step = "review"]
<1>1. /\ InFlight(q) /\ req[q].stage = "generate"
      /\ row' = Update(req[q].loaded, new) /\ req' = [req EXCEPT ![q].loaded = new, ![q].at = "clear"]
      /\ page' = page /\ causes' = causes
  BY DEF Generated, Step
<1>2. req[q].loaded \in Row /\ req[q].loaded.reformulation \in Lineage
  BY <1>1, Flight, RowFields DEF IInv, Request
<1>3. /\ tree \in Lineage /\ tree # <<>> /\ Front(tree) = req[q].loaded.reformulation
      /\ IsPrefix(tree, tree)
  BY <1>2, SequenceFacts
<1> HIDE DEF tree
<1>4. /\ new \in Row /\ new.generation = tree /\ new.structure = tree /\ new.current_step = "review"
      /\ new.reformulation = req[q].loaded.reformulation
      /\ new.task_hours = req[q].loaded.task_hours
      /\ new.adjusted_breakdown = req[q].loaded.adjusted_breakdown
  BY <1>2, <1>3 DEF Row
<1> HIDE DEF new
<1>5. InFlight(q)' /\ req'[q].at = "clear" /\ req'[q].stage = "generate"
  BY <1>1, <1>4, Moves DEF IInv
<1>6. row' = new => Between(q)'
  BY <1>3, <1>4, <1>5 DEF Between
<1>7. "overlap" \in causes \/ Links'
  <2> SUFFICES ASSUME "overlap" \notin causes PROVE Links'
    OBVIOUS
  <2>1. Links /\ req[q].loaded = row /\ row' = new
    BY <1>1, <1>4, Lone, SoloUpdate
  <2>2. Rebuilding'
    BY <1>5 DEF Rebuilding
  <2>3. GenerationCurrent(row)' /\ StructureCurrent(row)' /\ Populated'
    BY <1>3, <1>4, <2>1 DEF GenerationCurrent, StructureCurrent, Populated
  <2> QED
    BY <1>1, <1>4, <2>1, <2>2, <2>3 DEF Links, BreakdownCurrent
<1> QED
  BY <1>1, <1>4, <1>6, <1>7, MoveKeeps

LEMMA SaveStructureStep ==
  ASSUME IInv, NEW q \in Requests, SaveStructure(q)
  PROVE  IInv'
<1> DEFINE new == [req[q].loaded EXCEPT !.structure = req[q].sent]
<1>1. /\ InFlight(q) /\ req[q].stage = "estimate_hours" /\ req[q].at = "save"
      /\ row' = Update(req[q].loaded, new) /\ req' = [req EXCEPT ![q].loaded = new, ![q].at = "call"]
      /\ page' = page /\ causes' = causes
  BY DEF SaveStructure, Step
<1>2. req[q].loaded \in Row /\ req[q].sent \in Lineage
  BY <1>1, Flight DEF IInv, Request
<1>3. /\ new \in Row /\ new.structure = req[q].sent
      /\ new.reformulation = req[q].loaded.reformulation /\ new.generation = req[q].loaded.generation
      /\ new.task_hours = req[q].loaded.task_hours /\ new.current_step = req[q].loaded.current_step
      /\ new.adjusted_breakdown = req[q].loaded.adjusted_breakdown
  BY <1>2 DEF Row
<1> HIDE DEF new
<1>4. /\ InFlight(q)' /\ req'[q].at = "call" /\ req'[q].stage = "estimate_hours"
      /\ req'[q].sent = req[q].sent
  BY <1>1, <1>3, Moves DEF IInv
<1>5. row' = new => Between(q)'
  BY <1>3, <1>4 DEF Between
<1>6. "overlap" \in causes \/ Links'
  <2> SUFFICES ASSUME "overlap" \notin causes PROVE Links'
    OBVIOUS
  <2>1. /\ Links /\ req[q].loaded = row /\ row' = new /\ ("stale page" \notin causes => Current(q))
        /\ \A p \in Requests : InFlight(p) => p = q
    BY <1>1, <1>3, Lone, SoloUpdate
  <2>2. ~Reformulating
    BY <1>1, <2>1 DEF Reformulating, Step
  <2>3. Rebuilding'
    BY <1>4 DEF Rebuilding, Step
  <2>4. GenerationCurrent(row) => GenerationCurrent(row)'
    BY <1>3, <2>1 DEF GenerationCurrent
  <2>5. "stale page" \notin causes => StructureCurrent(row)' /\ Populated'
    BY <1>1, <1>3, <2>1 DEF Current, StructureCurrent, Links, Populated
  <2> QED
    BY <1>1, <1>3, <2>1, <2>2, <2>3, <2>4, <2>5 DEF Links, BreakdownCurrent
<1> QED
  BY <1>1, <1>3, <1>5, <1>6, MoveKeeps

LEMMA HoursStep ==
  ASSUME IInv, NEW q \in Requests, HoursEstimated(q)
  PROVE  IInv'
<1> DEFINE hours == Append(req[q].sent, q)
           held == [hours |-> hours, confirmed |-> Draft]
           new == [req[q].loaded EXCEPT !.task_hours = hours, !.adjusted_breakdown = held,
                                        !.current_step = "hours"]
<1>1. /\ InFlight(q) /\ req[q].stage = "estimate_hours" /\ req[q].at = "call"
      /\ row' = Update(req[q].loaded, new) /\ req' = [req EXCEPT ![q] = Done]
      /\ page' = page /\ causes' = causes
  BY DEF HoursEstimated, Step
<1>2. req[q].loaded \in Row /\ req[q].sent \in Lineage
  BY <1>1, Flight DEF IInv, Request
<1>3. hours \in Lineage /\ hours # <<>> /\ Front(hours) = req[q].sent
  BY <1>2, SequenceFacts
<1> HIDE DEF hours
<1>4. held \in Breakdown /\ held.hours = hours
  BY <1>3 DEF Breakdown
<1> HIDE DEF held
<1>5. /\ new \in Row /\ new.task_hours = hours /\ new.adjusted_breakdown = held
      /\ new.current_step = "hours"
      /\ new.reformulation = req[q].loaded.reformulation /\ new.generation = req[q].loaded.generation
      /\ new.structure = req[q].loaded.structure
  BY <1>2, <1>3, <1>4 DEF Row, Breakdown
<1> HIDE DEF new
<1>6. "overlap" \in causes \/ Links'
  <2> SUFFICES ASSUME "overlap" \notin causes PROVE Links'
    OBVIOUS
  <2>1. /\ Links /\ req[q].loaded = row /\ row' = new /\ Between(q)
        /\ \A p \in Requests : InFlight(p) => p = q
    BY <1>1, <1>5, Lone, SoloUpdate
  <2>2. ~Reformulating
    BY <1>1, <2>1 DEF Reformulating, Step
  <2>3. HoursCurrent(row)' /\ BreakdownCurrent(row)' /\ Populated'
    BY <1>1, <1>3, <1>4, <1>5, <2>1 DEF Between, HoursCurrent, BreakdownCurrent, Populated
  <2> QED
    BY <1>1, <1>5, <2>1, <2>2, <2>3 DEF Links, GenerationCurrent, StructureCurrent
<1>7. row' \in Row /\ causes \subseteq Causes
  BY <1>1, <1>5, SoloUpdate DEF IInv, Types
<1> QED
  BY <1>1, <1>6, <1>7, LeaveKeeps

LEMMA ConfirmedStep ==
  ASSUME IInv, NEW q \in Requests, SaveConfirmed(q)
  PROVE  IInv'
<1> DEFINE held == [hours |-> req[q].sent, confirmed |-> q]
           new == [req[q].loaded EXCEPT !.adjusted_breakdown = held, !.current_step = "verification"]
<1>1. /\ InFlight(q) /\ req[q].stage = "verify" /\ req[q].at = "save"
      /\ row' = Update(req[q].loaded, new) /\ req' = [req EXCEPT ![q] = Done]
      /\ page' = page /\ causes' = causes
  BY DEF SaveConfirmed, Step
<1>2. req[q].loaded \in Row /\ req[q].sent \in Lineage
  BY <1>1, Flight DEF IInv, Request
<1>3. held \in Breakdown /\ held.hours = req[q].sent
  BY <1>2 DEF Breakdown
<1> HIDE DEF held
<1>4. /\ new \in Row /\ new.adjusted_breakdown = held /\ new.current_step = "verification"
      /\ new.reformulation = req[q].loaded.reformulation /\ new.generation = req[q].loaded.generation
      /\ new.structure = req[q].loaded.structure /\ new.task_hours = req[q].loaded.task_hours
  BY <1>2, <1>3 DEF Row, Breakdown
<1> HIDE DEF new
<1>5. "overlap" \in causes \/ Links'
  <2> SUFFICES ASSUME "overlap" \notin causes PROVE Links'
    OBVIOUS
  <2>1. /\ Links /\ req[q].loaded = row /\ row' = new /\ ("stale page" \notin causes => Current(q))
        /\ \A p \in Requests : InFlight(p) => p = q
    BY <1>1, <1>4, Lone, SoloUpdate
  <2>2. ~Reformulating /\ ~Rebuilding
    BY <1>1, <2>1 DEF Reformulating, Rebuilding, Step
  <2>3. "stale page" \notin causes => BreakdownCurrent(row)' /\ Populated'
    BY <1>1, <1>3, <1>4, <2>1 DEF Current, BreakdownCurrent, Populated
  <2> QED
    BY <1>1, <1>4, <2>1, <2>2, <2>3 DEF Links, GenerationCurrent, StructureCurrent, HoursCurrent
<1>6. row' \in Row /\ causes \subseteq Causes
  BY <1>1, <1>4, SoloUpdate DEF IInv, Types
<1> QED
  BY <1>1, <1>5, <1>6, LeaveKeeps

LEMMA ClearStep ==
  ASSUME IInv, NEW q \in Requests, ClearDownstream(q)
  PROVE  IInv'
<1> DEFINE new == Cleared(q, req[q].loaded)
<1>1. /\ InFlight(q) /\ req[q].at = "clear" /\ req[q].stage \in {"reformulate", "generate"}
      /\ row' = Update(req[q].loaded, new) /\ req' = [req EXCEPT ![q] = Done]
      /\ page' = page /\ causes' = (IF req[q].alone THEN {} ELSE causes)
  BY DEF ClearDownstream, IInv, Staged
<1>2. req[q].loaded \in Row
  BY <1>1, Flight DEF IInv, Request
<1>3. NoBreakdown \in Breakdown /\ NoBreakdown.hours = <<>>
  BY SequenceFacts DEF NoBreakdown, Breakdown
<1>4. /\ new \in Row /\ new.adjusted_breakdown = NoBreakdown /\ new.task_hours = <<>>
      /\ new.reformulation = req[q].loaded.reformulation
      /\ new.current_step = req[q].loaded.current_step
      /\ req[q].stage = "reformulate" => new.generation = <<>> /\ new.structure = <<>>
      /\ req[q].stage = "generate" => /\ new.generation = req[q].loaded.generation
                                      /\ new.structure = req[q].loaded.structure
  <2>1. CASE req[q].stage = "reformulate"
    BY <1>2, <1>3, <2>1, SequenceFacts DEF Cleared, Row, Breakdown
  <2>2. CASE req[q].stage = "generate"
    BY <1>2, <1>3, <2>2, SequenceFacts DEF Cleared, Row, Breakdown
  <2> QED
    BY <1>1, <2>1, <2>2
<1> HIDE DEF new
<1>5. "overlap" \in causes' \/ Links'
  <2>1. CASE ~req[q].alone
    BY <1>1, <2>1 DEF IInv, Crowd
  <2>2. CASE req[q].alone
    <3>1. req[q].loaded = row /\ Between(q) /\ row' = new
      BY <1>1, <1>4, <2>2, SoloUpdate DEF IInv, Solo
    <3>2. row.generation \in Lineage
      BY RowFields DEF IInv, Types
    <3>3. HoursCurrent(row)' /\ BreakdownCurrent(row)'
      BY <1>3, <1>4, <3>1 DEF HoursCurrent, BreakdownCurrent
    <3>4. GenerationCurrent(row)' /\ StructureCurrent(row)' /\ Populated'
      BY <1>1, <1>4, <3>1, <3>2, SequenceFacts
         DEF Between, GenerationCurrent, StructureCurrent, Populated
    <3> QED
      BY <3>3, <3>4 DEF Links
  <2> QED
    BY <2>1, <2>2
<1>6. row' \in Row /\ causes' \subseteq Causes /\ (causes \subseteq causes' \/ req[q].alone)
  BY <1>1, <1>4, SoloUpdate DEF IInv, Types
<1> QED
  BY <1>1, <1>5, <1>6, LeaveKeeps

LEMMA EndStep ==
  ASSUME IInv, NEW q \in Requests, CallFails(q) \/ Interrupted(q)
  PROVE  IInv'
<1>1. /\ InFlight(q) /\ req' = [req EXCEPT ![q] = Done] /\ row' = row /\ page' = page
      /\ causes \subseteq causes' /\ causes' \subseteq causes \cup {"failed hours", "interrupted"}
      /\ req[q].at = "clear" => "interrupted" \in causes'
      /\ Step(q, "estimate_hours", "call") => causes' \cap {"failed hours", "interrupted"} # {}
  BY DEF CallFails, Interrupted, Step
<1>2. "overlap" \in causes' \/ Links'
  <2> SUFFICES ASSUME "overlap" \notin causes' PROVE Links'
    OBVIOUS
  <2>1. Links /\ \A p \in Requests : InFlight(p) => p = q
    BY <1>1, Lone
  <2>2. Reformulating => "interrupted" \in causes'
    BY <1>1, <2>1 DEF Reformulating, Step
  <2>3. Rebuilding => causes' \cap {"failed hours", "interrupted"} # {}
    BY <1>1, <2>1 DEF Rebuilding
  <2> QED
    BY <1>1, <2>1, <2>2, <2>3 DEF Links, Populated
<1>3. row \in Row /\ causes' \subseteq Causes
  BY <1>1 DEF IInv, Types, Causes
<1> QED
  BY <1>1, <1>2, <1>3, LeaveKeeps

LEMMA Inductive ==
  ASSUME IInv, [Next]_vars
  PROVE  IInv'
<1>1. ASSUME NEW t \in Tabs
      PROVE  /\ page[t].structure \in Lineage /\ page[t].adjusted_breakdown.hours \in Lineage
             /\ \A q \in Requests : Append(page[t].generation, q) \in Lineage
  <2>1. page[t] \in Row
    BY DEF IInv, Types
  <2> QED
    BY <2>1, RowFields, SequenceFacts DEF Breakdown
<1>2. ASSUME NEW q \in Requests, NEW t \in Tabs, Reformulate(q, t) \/ Generate(q, t) PROVE IInv'
  BY <1>2, FindStep, SequenceFacts DEF Reformulate, Generate, Sent
<1>3. ASSUME NEW q \in Requests, NEW t \in Tabs, EstimateHours(q, t) PROVE IInv'
  <2>1. CASE Find(q, t, "estimate_hours", page[t].structure)
    BY <1>1, <1>3, <2>1, FindStep DEF EstimateHours, Sent
  <2>2. CASE Find(q, t, "estimate_hours", Append(page[t].generation, q))
    BY <1>1, <1>3, <2>2, FindStep DEF EstimateHours, Sent
  <2> QED
    BY <1>3, <2>1, <2>2 DEF EstimateHours
<1>4. ASSUME NEW q \in Requests, NEW t \in Tabs, Verify(q, t) PROVE IInv'
  BY <1>1, <1>4, FindStep DEF Verify, Sent
<1>5. CASE UNCHANGED vars
  BY <1>5 DEF vars, IInv, Types, Staged, Solo, Crowd, Between, Current, Links, Populated,
              Reformulating, Rebuilding, Step, InFlight
<1> QED
  BY <1>2, <1>3, <1>4, <1>5, ShowStep, ReformulatedStep, GeneratedStep, SaveStructureStep, HoursStep,
     ConfirmedStep, ClearStep, EndStep DEF Next

LEMMA Invariance == Spec => []IInv
  BY InitIInv, Inductive, PTL DEF Spec

-----------------------------------------------------------------------------
(* The theorems.                                                           *)

\* The run's row, the pages and the requests in flight have their types.
THEOREM TypeCorrect == Spec => []TypeOK
<1>1. IInv => TypeOK
  BY Flight DEF IInv, Types, TypeOK, InFlight, Request, Causes
<1> QED
  BY <1>1, Invariance, PTL

\* Whatever the number of requests and tabs, an artifact that does not match the
\* one it should be built from was left so by overlapping requests, an
\* interruption, a stale page or a failed hours call, and each link of the chain
\* by some of these only (estimation_run.rb:95-97).
THEOREM StaleOnlyByCause == Spec => []StaleHasCause
<1>1. IInv => StaleHasCause
  <2> SUFFICES ASSUME IInv, Quiet, "overlap" \notin causes PROVE StaleHasCause
    BY DEF StaleHasCause
  <2>1. Links /\ ~Reformulating /\ ~Rebuilding
    BY DEF IInv, Quiet, Reformulating, Rebuilding, Step
  <2> QED
    BY <2>1 DEF StaleHasCause, Links
<1> QED
  BY <1>1, Invariance, PTL

\* The screen that current_step names has its artifact, unless requests
\* overlapped or a form came from an old page.
THEOREM ScreensPopulated == Spec => []ScreenPopulated
<1>1. IInv => ScreenPopulated
  <2> SUFFICES ASSUME IInv, causes \cap {"overlap", "stale page"} = {} PROVE ScreenPopulated
    BY DEF ScreenPopulated
  <2>1. Populated /\ row.current_step \in Steps
    BY RowFields DEF IInv, Links, Types
  <2> QED
    BY <2>1 DEF ScreenPopulated, Populated, Steps
<1> QED
  BY <1>1, Invariance, PTL

-----------------------------------------------------------------------------
(* Numbers, sums and sorted lists.                                         *)

\* A nonempty set of numbers has a least one.
LEMMA LeastNumber ==
  ASSUME NEW S \in SUBSET Nat, S # {}
  PROVE  \E x \in S : \A y \in S : x <= y
<1>1. PICK x \in S : \A y \in S : ~ (<<y, x>> \in OpToRel(<, Nat))
  BY NatLessThanWellFounded, WFMin
<1>2. \A y \in S : ~ (y < x)
  BY <1>1 DEF OpToRel
<1> QED
  BY <1>2

\* Induction up to n, for a set of numbers instead of a predicate.
LEMMA Reaches ==
  ASSUME NEW n \in Nat, NEW P, 0 \in P,
         \A k \in 0..(n - 1) : k \in P => k + 1 \in P
  PROVE  \A k \in 0..n : k \in P
<1> SUFFICES ASSUME {k \in 0..n : k \notin P} # {}
             PROVE  FALSE
  OBVIOUS
<1> DEFINE T == {k \in 0..n : k \notin P}
<1>0. T \in SUBSET Nat
  OBVIOUS
<1>1. PICK k \in T : \A j \in T : k <= j
  <2> HIDE DEF T
  <2> QED
    BY <1>0, LeastNumber DEF T
<1>2. k - 1 \in 0..(n - 1) /\ k - 1 \in P
  BY <1>1
<1> QED
  BY <1>1, <1>2

LEMMA GreatestNumber ==
  ASSUME NEW n \in Nat, NEW S \in SUBSET (0..n), S # {}
  PROVE  \E x \in S : \A y \in S : y <= x
<1> DEFINE T == {n - x : x \in S}
<1>1. T \in SUBSET Nat /\ T # {}
  <2>1. \A x \in S : n - x \in Nat
    OBVIOUS
  <2>2. T \subseteq Nat
    BY <2>1
  <2>3. PICK x \in S : TRUE
    OBVIOUS
  <2>4. n - x \in T
    BY <2>3
  <2> QED
    BY <2>2, <2>4
<1>2. PICK t \in T : \A y \in T : t <= y
  BY <1>1, LeastNumber
<1>3. PICK x \in S : t = n - x
  OBVIOUS
<1>4. \A y \in S : n - y \in T
  OBVIOUS
<1> QED
  BY <1>2, <1>3, <1>4

-----------------------------------------------------------------------------
(* Sums.                                                                   *)

\* The sums of the prefixes of a list.
SumTo(s) == CHOOSE f : f = [n \in 0..Len(s) |-> IF n = 0 THEN 0 ELSE f[n - 1] + s[n]]

Adds(f, s, n) ==
  /\ f \in [0..n -> Nat] /\ f[0] = 0
  /\ \A k \in 1..n : f[k] = f[k - 1] + s[k]

LEMMA SumsExist ==
  ASSUME NEW s \in Seq(Nat)
  PROVE  \E f : Adds(f, s, Len(s))
<1> DEFINE P == {n \in 0..Len(s) : \E f : Adds(f, s, n)}
<1>0. Len(s) \in Nat
  OBVIOUS
<1>1. 0 \in P
  <2>1. Adds([k \in {0} |-> 0], s, 0)
    BY DEF Adds
  <2> QED
    BY <2>1, <1>0
<1>2. ASSUME NEW k \in 0..(Len(s) - 1), k \in P
      PROVE  k + 1 \in P
  <2>1. PICK f : Adds(f, s, k)
    BY <1>2
  <2> DEFINE g == [j \in 0..(k + 1) |-> IF j = k + 1 THEN f[k] + s[k + 1] ELSE f[j]]
  <2>2. s[k + 1] \in Nat /\ k + 1 \in 0..Len(s)
    BY <1>0
  <2>3. f[k] \in Nat /\ \A j \in 0..k : f[j] \in Nat
    BY <2>1 DEF Adds
  <2>4. g \in [0..(k + 1) -> Nat] /\ g[0] = 0
    BY <2>1, <2>2, <2>3 DEF Adds
  <2>5. \A j \in 1..(k + 1) : g[j] = g[j - 1] + s[j]
    BY <2>1, <2>2 DEF Adds
  <2>6. Adds(g, s, k + 1)
    BY <2>4, <2>5 DEF Adds
  <2> QED
    BY <2>2, <2>6
<1>3. \A k \in 0..Len(s) : k \in P
  <2> HIDE DEF P
  <2> QED
    BY <1>0, <1>1, <1>2, Reaches
<1> QED
  BY <1>0, <1>3

LEMMA SumOfPrefixes ==
  ASSUME NEW s \in Seq(Nat)
  PROVE  Adds(SumTo(s), s, Len(s)) /\ Sum(s) = SumTo(s)[Len(s)] /\ Sum(s) \in Nat
<1>1. PICK f : Adds(f, s, Len(s))
  BY SumsExist
<1>2. f = [n \in 0..Len(s) |-> IF n = 0 THEN 0 ELSE f[n - 1] + s[n]]
  BY <1>1 DEF Adds
<1>0. Len(s) \in Nat
  OBVIOUS
<1> DEFINE g == SumTo(s)
<1>3. g = [n \in 0..Len(s) |-> IF n = 0 THEN 0 ELSE g[n - 1] + s[n]]
  BY <1>2 DEF SumTo
<1> HIDE DEF g
<1>4. Sum(s) = g[Len(s)]
  BY DEF Sum, SumTo, g
<1>5. \A k \in 0..Len(s) : k \in {n \in 0..Len(s) : g[n] = f[n]}
  <2> DEFINE P == {n \in 0..Len(s) : g[n] = f[n]}
  <2>0. Len(s) \in Nat
    OBVIOUS
  <2>1. 0 \in P
    BY <1>1, <1>3, <2>0 DEF Adds
  <2>2. ASSUME NEW k \in 0..(Len(s) - 1), k \in P
        PROVE  k + 1 \in P
    BY <1>1, <1>3, <2>0, <2>2 DEF Adds
  <2> HIDE DEF P
  <2>3. \A k \in 0..Len(s) : k \in P
    BY <2>0, <2>1, <2>2, Reaches
  <2> QED
    BY <2>3 DEF P
<1>6. g = f
  BY <1>1, <1>3, <1>5 DEF Adds
<1> QED
  BY <1>0, <1>1, <1>4, <1>6 DEF Adds, g

\* Two lists of one length, one nowhere above the other.
LEMMA SumMonotone ==
  ASSUME NEW s \in Seq(Nat), NEW t \in Seq(Nat), Len(s) = Len(t),
         \A i \in 1..Len(s) : s[i] <= t[i]
  PROVE  Sum(s) <= Sum(t) /\ ((\E i \in 1..Len(s) : s[i] < t[i]) => Sum(s) < Sum(t))
<1> DEFINE f == SumTo(s)
           g == SumTo(t)
           P == {n \in 0..Len(s) : f[n] <= g[n] /\ ((\E i \in 1..n : s[i] < t[i]) => f[n] < g[n])}
<1>0. Len(s) \in Nat
  OBVIOUS
<1>1. Adds(f, s, Len(s)) /\ Adds(g, t, Len(s)) /\ Sum(s) = f[Len(s)] /\ Sum(t) = g[Len(s)]
  BY SumOfPrefixes, Zenon
<1> HIDE DEF f, g
<1>2. 0 \in P
  BY <1>0, <1>1 DEF Adds
<1>3. ASSUME NEW k \in 0..(Len(s) - 1), k \in P
      PROVE  k + 1 \in P
  <2>1. f[k + 1] = f[k] + s[k + 1] /\ g[k + 1] = g[k] + t[k + 1]
    BY <1>0, <1>1 DEF Adds
  <2>2. f[k] \in Nat /\ g[k] \in Nat
    <3>1. f \in [0..Len(s) -> Nat] /\ g \in [0..Len(s) -> Nat] /\ k \in 0..Len(s)
      BY <1>0, <1>1 DEF Adds
    <3> QED
      BY <3>1
  <2>3. s[k + 1] \in Nat /\ t[k + 1] \in Nat /\ s[k + 1] <= t[k + 1]
    BY <1>0
  <2>4. (\E i \in 1..(k + 1) : s[i] < t[i]) => s[k + 1] < t[k + 1] \/ \E i \in 1..k : s[i] < t[i]
    OBVIOUS
  <2> QED
    <3>1. f[k] <= g[k] /\ ((\E i \in 1..k : s[i] < t[i]) => f[k] < g[k])
      BY <1>3
    <3>2. f[k + 1] <= g[k + 1]
      BY <2>1, <2>2, <2>3, <3>1
    <3>3. (\E i \in 1..(k + 1) : s[i] < t[i]) => f[k + 1] < g[k + 1]
      <4>1. CASE s[k + 1] < t[k + 1]
        BY <2>1, <2>2, <2>3, <3>1, <4>1
      <4>2. CASE \E i \in 1..k : s[i] < t[i]
        <5>1. f[k] < g[k]
          BY <3>1, <4>2
        <5> QED
          BY <2>1, <2>2, <2>3, <5>1
      <4> QED
        BY <2>4, <4>1, <4>2
    <3> QED
      BY <1>0, <3>2, <3>3
<1>4. \A k \in 0..Len(s) : k \in P
  <2> HIDE DEF P
  <2> QED
    BY <1>0, <1>2, <1>3, Reaches
<1>5. Len(s) \in P
  BY <1>0, <1>4
<1> QED
  BY <1>1, <1>5
\* The sum of a prefix.
LEMMA SumOfPrefix ==
  ASSUME NEW s \in Seq(Nat), NEW n \in 0..Len(s)
  PROVE  /\ SubSeq(s, 1, n) \in Seq(Nat) /\ Len(SubSeq(s, 1, n)) = n
         /\ \A i \in 1..n : SubSeq(s, 1, n)[i] = s[i]
         /\ Sum(SubSeq(s, 1, n)) = SumTo(s)[n]
<1> DEFINE t == SubSeq(s, 1, n)
           f == SumTo(s)
           g == SumTo(t)
           P == {k \in 0..n : g[k] = f[k]}
<1>0. Len(s) \in Nat /\ n \in Nat
  OBVIOUS
<1>1. t \in Seq(Nat) /\ Len(t) = n /\ \A i \in 1..n : t[i] = s[i]
  OBVIOUS
<1> HIDE DEF t
<1>2. Adds(f, s, Len(s)) /\ Adds(g, t, n) /\ Sum(t) = g[n]
  BY <1>1, SumOfPrefixes, Zenon
<1> HIDE DEF f, g
<1>3. 0 \in P
  BY <1>0, <1>2 DEF Adds
<1>4. ASSUME NEW k \in 0..(n - 1), k \in P
      PROVE  k + 1 \in P
  <2>1. g[k + 1] = g[k] + t[k + 1]
    BY <1>0, <1>2 DEF Adds
  <2>2. f[k + 1] = f[k] + s[k + 1]
    BY <1>0, <1>2 DEF Adds
  <2> QED
    BY <1>0, <1>1, <1>4, <2>1, <2>2
<1>5. n \in P
  <2>1. \A k \in 0..n : k \in P
    <3> HIDE DEF P
    <3> QED
      BY <1>0, <1>3, <1>4, Reaches
  <2> QED
    BY <1>0, <2>1
<1> QED
  BY <1>1, <1>2, <1>5 DEF t, f

\* A list with one more element, at p.
LEMMA SumOfInsertion ==
  ASSUME NEW s \in Seq(Nat), NEW t \in Seq(Nat), Len(t) = Len(s) + 1, NEW p \in 1..Len(t),
         \A i \in 1..Len(s) : t[IF i < p THEN i ELSE i + 1] = s[i]
  PROVE  Sum(t) = Sum(s) + t[p]
<1> DEFINE f == SumTo(s)
           g == SumTo(t)
           n == Len(s)
           P == {k \in 0..n : IF k < p THEN g[k] = f[k] ELSE g[k + 1] = f[k] + t[p]}
<1>0. n \in Nat /\ p \in 1..(n + 1) /\ t[p] \in Nat
  OBVIOUS
<1>1. Adds(f, s, n) /\ Adds(g, t, n + 1) /\ Sum(s) = f[n] /\ Sum(t) = g[n + 1]
  BY SumOfPrefixes, Zenon
<1> HIDE DEF f, g
<1>2. 0 \in P
  BY <1>0, <1>1 DEF Adds
<1>3. ASSUME NEW k \in 0..(n - 1), k \in P
      PROVE  k + 1 \in P
  <2>1. f[k + 1] = f[k] + s[k + 1] /\ f[k] \in Nat /\ s[k + 1] \in Nat /\ f[k + 1] \in Nat
    <3>1. k \in 0..n /\ k + 1 \in 1..n /\ k + 1 \in 0..n /\ (k + 1) - 1 = k
      BY <1>0
    <3>2. f \in [0..n -> Nat] /\ \A j \in 1..n : f[j] = f[j - 1] + s[j]
      BY <1>1 DEF Adds
    <3>3. s[k + 1] \in Nat /\ f[k] \in Nat /\ f[k + 1] \in Nat
      <4>1. s[k + 1] \in Nat
        BY <1>0
      <4> QED
        BY <3>1, <3>2, <4>1
    <3>4. f[k + 1] = f[(k + 1) - 1] + s[k + 1]
      BY <3>1, <3>2
    <3> QED
      BY <3>1, <3>3, <3>4
  <2>2. g[k + 1] = g[k] + t[k + 1] /\ g[k] \in Nat /\ g[k + 1] \in Nat /\ t[k + 1] \in Nat
    <3>1. k \in 0..(n + 1) /\ k + 1 \in 1..(n + 1) /\ k + 1 \in 0..(n + 1) /\ (k + 1) - 1 = k
      BY <1>0
    <3>2. g \in [0..(n + 1) -> Nat] /\ \A j \in 1..(n + 1) : g[j] = g[j - 1] + t[j]
      BY <1>1 DEF Adds
    <3>3. g[k] \in Nat /\ g[k + 1] \in Nat /\ t[k + 1] \in Nat
      <4>1. t[k + 1] \in Nat
        BY <1>0
      <4> QED
        BY <3>1, <3>2, <4>1
    <3>4. g[k + 1] = g[(k + 1) - 1] + t[k + 1]
      BY <3>1, <3>2
    <3> QED
      BY <3>1, <3>3, <3>4
  <2>3. g[k + 2] = g[k + 1] + t[k + 2]
    <3>1. k + 2 \in 1..(n + 1) /\ (k + 2) - 1 = k + 1
      BY <1>0
    <3> QED
      BY <1>0, <1>1, <3>1 DEF Adds
  <2>4. k + 1 \in 1..Len(s)
    BY <1>0
  <2>5. CASE k + 1 < p
    <3>1. t[k + 1] = s[k + 1]
      BY <2>4, <2>5
    <3> QED
      BY <1>0, <1>3, <2>1, <2>2, <2>5, <3>1
  <2>6. CASE ~ (k + 1 < p)
    <3>1. t[k + 2] = s[k + 1]
      <4>1. t[IF k + 1 < p THEN k + 1 ELSE (k + 1) + 1] = s[k + 1]
        BY <2>4
      <4>2. (k + 1) + 1 = k + 2
        BY <1>0
      <4> QED
        BY <2>6, <4>1, <4>2
    <3>2. g[k + 1] = f[k] + t[p]
      BY <1>0, <1>3, <2>2, <2>6
    <3>3. g[k + 2] = f[k + 1] + t[p]
      BY <1>0, <2>1, <2>3, <3>1, <3>2
    <3> QED
      BY <1>0, <2>6, <3>3
  <2> QED
    BY <2>5, <2>6
<1>4. n \in P
  <2>1. \A k \in 0..n : k \in P
    <3> HIDE DEF P
    <3> QED
      BY <1>0, <1>2, <1>3, Reaches
  <2> QED
    BY <1>0, <2>1
<1>5. CASE n < p
  <2>1. p = n + 1 /\ g[n] = f[n] /\ g[n + 1] = g[n] + t[n + 1]
    BY <1>0, <1>1, <1>4, <1>5 DEF Adds
  <2> QED
    BY <1>1, <2>1
<1>6. CASE ~ (n < p)
  BY <1>1, <1>4, <1>6
<1> QED
  BY <1>5, <1>6

LEMMA SumOfNothing ==
  ASSUME NEW s \in Seq(Nat), \A i \in 1..Len(s) : s[i] = 0
  PROVE  Sum(s) = 0
<1> DEFINE f == SumTo(s)
           P == {k \in 0..Len(s) : f[k] = 0}
<1>0. Len(s) \in Nat
  OBVIOUS
<1>1. Adds(f, s, Len(s)) /\ Sum(s) = f[Len(s)]
  BY SumOfPrefixes, Zenon
<1> HIDE DEF f
<1>2. 0 \in P
  BY <1>0, <1>1 DEF Adds
<1>3. ASSUME NEW k \in 0..(Len(s) - 1), k \in P
      PROVE  k + 1 \in P
  <2>1. f[k + 1] = f[k] + s[k + 1] /\ s[k + 1] = 0
    BY <1>0, <1>1 DEF Adds
  <2> QED
    BY <1>0, <1>3, <2>1
<1>4. \A k \in 0..Len(s) : k \in P
  <2> HIDE DEF P
  <2> QED
    BY <1>0, <1>2, <1>3, Reaches
<1> QED
  BY <1>0, <1>1, <1>4

-----------------------------------------------------------------------------
(* Lists in order.                                                         *)

\* R orders S: strictly and totally.
Sorts(R, S) ==
  /\ \A x \in S : <<x, x>> \notin R
  /\ \A x, y, z \in S : <<x, y>> \in R /\ <<y, z>> \in R => <<x, z>> \in R
  /\ \A x, y \in S : x # y => <<x, y>> \in R \/ <<y, x>> \in R

Rank(x, S, R) == Cardinality({y \in S : <<y, x>> \in R})

LEMMA RankRises ==
  ASSUME NEW S, IsFiniteSet(S), NEW R, Sorts(R, S)
  PROVE  /\ \A x \in S : Rank(x, S, R) \in 0..(Cardinality(S) - 1)
         /\ \A x, y \in S : <<x, y>> \in R => Rank(x, S, R) < Rank(y, S, R)
<1> DEFINE B(x) == {y \in S : <<y, x>> \in R}
<1>1. Cardinality(S) \in Nat /\ \A x \in S : IsFiniteSet(B(x)) /\ Cardinality(B(x)) \in Nat
  BY FS_Subset, FS_CardinalityType
<1>2. ASSUME NEW x \in S
      PROVE  Rank(x, S, R) \in 0..(Cardinality(S) - 1)
  <2>1. B(x) \subseteq S /\ x \notin B(x)
    BY DEF Sorts
  <2>2. Cardinality(B(x)) <= Cardinality(S) /\ Cardinality(B(x)) # Cardinality(S)
    <3> HIDE DEF B
    <3> QED
      BY <2>1, FS_Subset
  <2> QED
    BY <1>1, <2>2 DEF Rank
<1>3. ASSUME NEW x \in S, NEW y \in S, <<x, y>> \in R
      PROVE  Rank(x, S, R) < Rank(y, S, R)
  <2>1. B(x) \subseteq B(y) /\ x \in B(y) /\ x \notin B(x)
    BY <1>3 DEF Sorts
  <2>2. Cardinality(B(x)) <= Cardinality(B(y)) /\ Cardinality(B(x)) # Cardinality(B(y))
    <3>1. IsFiniteSet(B(y))
      BY <1>1
    <3> HIDE DEF B
    <3> QED
      BY <2>1, <3>1, FS_Subset
  <2> QED
    BY <1>1, <2>2 DEF Rank
<1> QED
  BY <1>2, <1>3

\* One element at each place.
LEMMA RankOnto ==
  ASSUME NEW S, IsFiniteSet(S), NEW R, Sorts(R, S)
  PROVE  \A k \in 0..(Cardinality(S) - 1) : \E x \in S : Rank(x, S, R) = k
<1> DEFINE n == Cardinality(S)
           f == [x \in S |-> Rank(x, S, R)]
<1>1. n \in Nat
  BY FS_CardinalityType
<1>2. IsFiniteSet(0..(n - 1)) /\ Cardinality(0..(n - 1)) = n
  BY <1>1, FS_Interval
<1>3. f \in [S -> 0..(n - 1)]
  BY RankRises
<1>4. ASSUME NEW x \in S, NEW y \in S, f[x] = f[y]
      PROVE  x = y
  <2>1. Rank(x, S, R) = Rank(y, S, R) /\ Rank(x, S, R) \in Nat
    BY <1>1, <1>4, RankRises
  <2>2. ~ (<<x, y>> \in R) /\ ~ (<<y, x>> \in R)
    BY <2>1, RankRises
  <2> QED
    BY <2>2 DEF Sorts
<1>5. f \in Injection(S, 0..(n - 1))
  BY <1>3, <1>4 DEF Injection, IsInjective
<1>6. f \in Surjection(S, 0..(n - 1))
  <2> HIDE DEF f, n
  <2> QED
    BY <1>2, <1>5, FS_Injection DEF n
<1> QED
  BY <1>6 DEF Surjection

LEMMA OrderedList ==
  ASSUME NEW S, IsFiniteSet(S), NEW R, Sorts(R, S), NEW l, l = InOrder(S, R)
  PROVE  /\ Cardinality(S) \in Nat
         /\ l \in [1..Cardinality(S) -> S] /\ l \in Seq(S) /\ Len(l) = Cardinality(S)
         /\ \A x \in S : \E k \in 1..Len(l) : l[k] = x
         /\ \A j, k \in 1..Len(l) : <<l[j], l[k]>> \in R <=> j < k
<1> DEFINE n == Cardinality(S)
<1>1. n \in Nat
  BY FS_CardinalityType
<1>2. \A k \in 1..n : l[k] \in S /\ Rank(l[k], S, R) = k - 1
  <2> SUFFICES ASSUME NEW k \in 1..n
               PROVE  l[k] \in S /\ Rank(l[k], S, R) = k - 1
    OBVIOUS
  <2> DEFINE ranked == {<<x, Rank(x, S, R)>> : x \in S}
             r == CHOOSE r \in ranked : r[2] = k - 1
  <2>1. l[k] = r[1]
    BY DEF InOrder, Rank
  <2>2. PICK x \in S : Rank(x, S, R) = k - 1
    BY <1>1, RankOnto
  <2>3. r \in ranked /\ r[2] = k - 1
    <3>1. <<x, k - 1>> \in ranked /\ <<x, k - 1>>[2] = k - 1
      BY <2>2
    <3> HIDE DEF ranked
    <3> QED
      BY <3>1
  <2>4. PICK y \in S : r = <<y, Rank(y, S, R)>>
    BY <2>3
  <2> HIDE DEF r
  <2> QED
    BY <2>1, <2>3, <2>4
<1>3. l \in [1..n -> S]
  BY <1>2 DEF InOrder
<1>4. l \in Seq(S) /\ Len(l) = n
  BY <1>1, <1>3
<1>5. ASSUME NEW j \in 1..n, NEW k \in 1..n
      PROVE  <<l[j], l[k]>> \in R <=> j < k
  <2>1. <<l[j], l[k]>> \in R => j < k
    BY <1>1, <1>2, RankRises
  <2>2. <<l[k], l[j]>> \in R => k < j
    BY <1>1, <1>2, RankRises
  <2>3. j # k => l[j] # l[k]
    BY <1>1, <1>2
  <2> QED
    BY <1>1, <1>2, <2>1, <2>2, <2>3 DEF Sorts
<1>6. ASSUME NEW x \in S
      PROVE  \E k \in 1..n : l[k] = x
  <2> DEFINE k == Rank(x, S, R) + 1
  <2>1. k \in 1..n /\ Rank(x, S, R) \in Nat
    BY <1>1, RankRises
  <2>2. l[k] \in S /\ Rank(l[k], S, R) = Rank(x, S, R)
    BY <1>2, <2>1
  <2>3. ~ (<<l[k], x>> \in R) /\ ~ (<<x, l[k]>> \in R)
    <3> HIDE DEF k
    <3> QED
      BY <2>1, <2>2, RankRises
  <2>4. l[k] = x
    <3> HIDE DEF k
    <3> QED
      BY <2>2, <2>3 DEF Sorts
  <2> QED
    BY <2>1, <2>4
<1> QED
  BY <1>1, <1>3, <1>4, <1>5, <1>6

\* What stands at the places: no more than there are, each of them, in order.
LEMMA ThoseProps ==
  ASSUME NEW T, NEW s \in Seq(T), NEW P \in SUBSET (1..Len(s))
  PROVE  \E l \in [1..Cardinality(P) -> P] :
           /\ Cardinality(P) \in 0..Len(s)
           /\ \A k \in 1..Cardinality(P) : Those(s, P)[k] = s[l[k]]
           /\ Those(s, P) \in Seq(T) /\ Len(Those(s, P)) = Cardinality(P)
           /\ \A p \in P : \E k \in 1..Cardinality(P) : l[k] = p
           /\ \A j, k \in 1..Cardinality(P) : l[j] < l[k] <=> j < k
<1> DEFINE R == {p \in P \X P : p[1] < p[2]}
           l == InOrder(P, R)
<1>0. Len(s) \in Nat /\ P \subseteq Nat /\ \A p \in P : p \in 1..Len(s) /\ s[p] \in T
  OBVIOUS
<1>1. IsFiniteSet(P) /\ Cardinality(P) \in Nat /\ Cardinality(P) <= Len(s)
  <2>1. IsFiniteSet(1..Len(s)) /\ Cardinality(1..Len(s)) = Len(s)
    BY <1>0, FS_Interval
  <2> QED
    BY <2>1, FS_Subset, FS_CardinalityType
<1>2. \A x, y \in P : <<x, y>> \in R <=> x < y
  OBVIOUS
<1>3. Sorts(R, P)
  <2> HIDE DEF R
  <2> QED
    BY <1>0, <1>2 DEF Sorts
<1>4. /\ l \in [1..Cardinality(P) -> P] /\ Len(l) = Cardinality(P)
      /\ \A p \in P : \E k \in 1..Cardinality(P) : l[k] = p
      /\ \A j, k \in 1..Cardinality(P) : <<l[j], l[k]>> \in R <=> j < k
  <2> HIDE DEF l, R
  <2>1. /\ l \in [1..Cardinality(P) -> P] /\ Len(l) = Cardinality(P)
        /\ \A p \in P : \E k \in 1..Len(l) : l[k] = p
        /\ \A j, k \in 1..Len(l) : <<l[j], l[k]>> \in R <=> j < k
    BY <1>1, <1>3, OrderedList DEF l
  <2> QED
    BY <2>1
<1>5. Those(s, P) = [k \in 1..Cardinality(P) |-> s[l[k]]]
  BY DEF Those
<1> HIDE DEF l, R
<1>6. Those(s, P) \in Seq(T) /\ Len(Those(s, P)) = Cardinality(P)
  <2> DEFINE n == Cardinality(P)
  <2>1. \A k \in 1..n : s[l[k]] \in T
    BY <1>0, <1>4
  <2> QED
    BY <1>1, <1>5, <2>1
<1>7. \A j, k \in 1..Cardinality(P) : l[j] < l[k] <=> j < k
  BY <1>2, <1>4
<1>8. Cardinality(P) \in 0..Len(s)
  BY <1>0, <1>1
<1> QED
  BY <1>4, <1>5, <1>6, <1>7, <1>8, Zenon

-----------------------------------------------------------------------------
(* The stages of an estimate.                                              *)

LEMMA LastStated ==
  ASSUME NEW content \in Seq(TextLine), NEW S \in SUBSET (1..Len(content)), S # {}
  PROVE  \E i \in S : /\ \A j \in S : j <= i
                      /\ i = CHOOSE x \in S : \A j \in S : j <= x
<1>0. Len(content) \in Nat /\ S \in SUBSET (0..Len(content)) /\ \A i \in S : i \in Nat
  OBVIOUS
<1>1. \E i \in S : \A j \in S : j <= i
  BY <1>0, GreatestNumber
<1> QED
  BY <1>1

LEMMA ChunkHoursType ==
  ASSUME NEW c \in Chunk
  PROVE  ChunkHours(c) \in Figure
<1> DEFINE stated == {i \in DOMAIN c.content : c.content[i].hours # Absent}
<1>0. /\ c.content \in Seq(TextLine) /\ DOMAIN c.content = 1..Len(c.content) /\ c.estimated_hours \in Figure
      /\ \A i \in 1..Len(c.content) : c.content[i].hours \in Figure
  BY DEF Chunk, TextLine
<1>1. CASE c.estimated_hours # Absent
  BY <1>0, <1>1 DEF ChunkHours
<1>2. CASE c.estimated_hours = Absent /\ stated = {}
  BY <1>2 DEF ChunkHours, Figure
<1>3. CASE c.estimated_hours = Absent /\ stated # {}
  <2>1. PICK i \in stated : i = CHOOSE x \in stated : \A j \in stated : j <= x
    <3>1. stated \in SUBSET (1..Len(c.content))
      BY <1>0
    <3> HIDE DEF stated
    <3> QED
      BY <1>0, <1>3, <3>1, LastStated
  <2>2. ChunkHours(c) = c.content[i].hours
    BY <1>3, <2>1 DEF ChunkHours
  <2> QED
    BY <1>0, <2>2
<1> QED
  BY <1>1, <1>2, <1>3

\* What the last stated figure is.
LEMMA StatedHours ==
  ASSUME NEW c \in Chunk, c.estimated_hours = Absent, NEW i \in 1..Len(c.content),
         c.content[i].hours # Absent,
         \A j \in 1..Len(c.content) : c.content[j].hours # Absent => j <= i
  PROVE  ChunkHours(c) = c.content[i].hours
<1> DEFINE stated == {j \in DOMAIN c.content : c.content[j].hours # Absent}
<1>0. c.content \in Seq(TextLine) /\ DOMAIN c.content = 1..Len(c.content) /\ Len(c.content) \in Nat
  BY DEF Chunk
<1>1. i \in stated /\ stated \subseteq 1..Len(c.content) /\ \A j \in stated : j <= i
  BY <1>0
<1>2. i = CHOOSE x \in stated : \A j \in stated : j <= x
  <2> DEFINE y == CHOOSE x \in stated : \A j \in stated : j <= x
  <2>1. y \in stated /\ \A j \in stated : j <= y
    <3> HIDE DEF stated
    <3> QED
      BY <1>1
  <2>2. i <= y /\ y <= i /\ i \in Nat /\ y \in Nat
    <3> HIDE DEF stated, y
    <3> QED
      BY <1>0, <1>1, <2>1
  <2> QED
    BY <2>2
<1> QED
  BY <1>1, <1>2 DEF ChunkHours

LEMMA NoHours ==
  ASSUME NEW c \in Chunk, c.estimated_hours = Absent,
         \A j \in 1..Len(c.content) : c.content[j].hours = Absent
  PROVE  ChunkHours(c) = Absent
<1>1. DOMAIN c.content = 1..Len(c.content)
  BY DEF Chunk
<1>2. {j \in DOMAIN c.content : c.content[j].hours # Absent} = {}
  BY <1>1
<1> QED
  BY <1>2 DEF ChunkHours

\* Compression keeps every line with a figure: it changes no hours, and adds no
\* lines (augmentation.py:23-44).
LEMMA CompressKeeps ==
  ASSUME NEW c \in Chunk, c.content # <<>>
  PROVE  /\ CompressChunk(c) \in Chunk /\ CompressChunk(c).content # <<>>
         /\ CompressChunk(c).id = c.id
         /\ WrapChunk(CompressChunk(c)) <= WrapChunk(c)
         /\ ChunkHours(CompressChunk(c)) = ChunkHours(c)
<1> DEFINE d == CompressChunk(c)
           n == Len(c.content)
           keys == {i \in DOMAIN c.content : c.content[i].key}
           stated == {i \in DOMAIN c.content : c.content[i].hours # Absent}
<1>0. /\ c.content \in Seq(TextLine) /\ DOMAIN c.content = 1..n /\ n \in Nat \ {0}
      /\ \A i \in 1..n : c.content[i] \in TextLine /\ (c.content[i].hours # Absent => c.content[i].key)
  BY DEF Chunk, TextLine
<1>1. /\ d.id = c.id /\ d.estimated_hours = c.estimated_hours /\ d.content = ExtractKeyPoints(c)
      /\ d = [id |-> c.id, estimated_hours |-> c.estimated_hours, content |-> ExtractKeyPoints(c)]
  BY DEF CompressChunk, Chunk
<1>2. CASE keys = {}
  <2>1. d.content = <<c.content[1]>>
    BY <1>0, <1>1, <1>2 DEF ExtractKeyPoints
  <2>2. d.content \in Seq(TextLine) /\ Len(d.content) = 1 /\ d.content # <<>>
    BY <1>0, <2>1
  <2>3. d \in Chunk
    BY <1>1, <2>2 DEF Chunk
  <2>4. \A i \in 1..n : c.content[i].hours = Absent
    BY <1>0, <1>2
  <2>5. ChunkHours(d) = ChunkHours(c)
    <3>1. CASE c.estimated_hours # Absent
      BY <1>1, <3>1 DEF ChunkHours
    <3>2. CASE c.estimated_hours = Absent
      <4>1. \A i \in 1..Len(d.content) : d.content[i].hours = Absent
        BY <1>0, <2>1, <2>2, <2>4
      <4> HIDE DEF d
      <4> QED
        BY <1>1, <2>3, <2>4, <3>2, <4>1, NoHours
    <3> QED
      BY <3>1, <3>2
  <2>6. WrapChunk(d) <= WrapChunk(c)
    BY <1>0, <2>2 DEF WrapChunk
  <2> QED
    BY <1>1, <2>2, <2>3, <2>5, <2>6
<1>3. CASE keys # {}
  <2> DEFINE m == Cardinality(keys)
  <2>0. keys \in SUBSET (1..n)
    BY <1>0
  <2>1. d.content = Those(c.content, keys)
    BY <1>1, <1>3 DEF ExtractKeyPoints
  <2>2. PICK l \in [1..m -> keys] :
           /\ m \in 0..n
           /\ \A k \in 1..m : d.content[k] = c.content[l[k]]
           /\ d.content \in Seq(TextLine) /\ Len(d.content) = m
           /\ \A p \in keys : \E k \in 1..m : l[k] = p
           /\ \A j, k \in 1..m : l[j] < l[k] <=> j < k
    <3> DEFINE e == Those(c.content, keys)
    <3>1. \E l \in [1..m -> keys] :
           /\ m \in 0..n
           /\ \A k \in 1..m : e[k] = c.content[l[k]]
           /\ e \in Seq(TextLine) /\ Len(e) = m
           /\ \A p \in keys : \E k \in 1..m : l[k] = p
           /\ \A j, k \in 1..m : l[j] < l[k] <=> j < k
      <4>1. c.content \in Seq(TextLine) /\ keys \in SUBSET (1..Len(c.content))
        BY <1>0, <2>0
      <4> HIDE DEF keys
      <4> QED
        BY <4>1, ThoseProps
    <3> QED
      BY <2>1, <3>1
  <2>3. m \in 1..n
    <3>1. PICK p \in keys : TRUE
      BY <1>3
    <3>2. PICK k \in 1..m : l[k] = p
      BY <2>2, <3>1
    <3> HIDE DEF m
    <3> QED
      BY <2>2, <3>2
  <2>4. d \in Chunk /\ d.content # <<>>
    <3>1. d.content # <<>>
      BY <2>2, <2>3
    <3> QED
      BY <1>1, <2>2, <3>1 DEF Chunk
  <2>5. WrapChunk(d) <= WrapChunk(c)
    BY <1>0, <2>2, <2>3 DEF WrapChunk
  <2>6. ChunkHours(d) = ChunkHours(c)
    <3>1. CASE c.estimated_hours # Absent
      BY <1>1, <3>1 DEF ChunkHours
    <3>2. CASE c.estimated_hours = Absent /\ stated = {}
      <4>1. \A i \in 1..n : c.content[i].hours = Absent
        BY <1>0, <3>2
      <4>2. \A k \in 1..m : l[k] \in 1..n
        BY <1>0, <2>0, <2>2
      <4>3. \A i \in 1..Len(d.content) : d.content[i].hours = Absent
        <5> SUFFICES ASSUME NEW i \in 1..m
                     PROVE  d.content[i].hours = Absent
          BY <2>2
        <5>1. d.content[i] = c.content[l[i]] /\ l[i] \in 1..n
          BY <2>2, <4>2
        <5> QED
          BY <4>1, <5>1
      <4> HIDE DEF d
      <4> QED
        BY <1>1, <2>4, <3>2, <4>1, <4>3, NoHours
    <3>3. CASE c.estimated_hours = Absent /\ stated # {}
      <4>1. PICK i \in stated : \A j \in stated : j <= i
        <5>1. stated \in SUBSET (1..n)
          BY <1>0
        <5> HIDE DEF stated
        <5> QED
          BY <1>0, <3>3, <5>1, LastStated
      <4>2. i \in keys /\ stated \subseteq keys /\ i \in 1..n
        BY <1>0
      <4>3. PICK k \in 1..m : l[k] = i
        BY <2>2, <4>2
      <4>4. d.content[k].hours = c.content[i].hours /\ c.content[i].hours # Absent
        BY <2>2, <4>1, <4>3
      <4>5. ASSUME NEW j \in 1..m, d.content[j].hours # Absent
            PROVE  j <= k
        <5>1. l[j] \in stated
          <6>1. l[j] \in 1..n
            BY <1>0, <2>0, <2>2
          <6>2. d.content[j] = c.content[l[j]]
            <7> HIDE DEF d, m
            <7> QED
              BY <2>2
          <6> QED
            BY <1>0, <4>5, <6>1, <6>2
        <5>2. l[j] <= l[k]
          BY <4>1, <4>3, <5>1
        <5>3. ~ (l[k] < l[j])
          BY <1>0, <2>0, <2>2, <5>2
        <5> HIDE DEF m
        <5> QED
          BY <2>2, <2>3, <5>3
      <4>6. ChunkHours(d) = c.content[i].hours
        <5> HIDE DEF d
        <5> QED
          BY <1>1, <2>2, <2>4, <3>3, <4>3, <4>4, <4>5, StatedHours
      <4>7. ChunkHours(c) = c.content[i].hours
        BY <1>0, <3>3, <4>1, <4>2, <4>4, StatedHours
      <4> QED
        BY <4>6, <4>7
    <3> QED
      BY <3>1, <3>2, <3>3
  <2> QED
    BY <1>1, <2>4, <2>5, <2>6
<1> QED
  BY <1>2, <1>3

\* The reordering of n + 1 is that of n with one inserted.
LEMMA ReorderInserts ==
  ASSUME NEW w \in Seq(Nat), NEW n \in 0..(Len(w) - 1)
  PROVE  Sum(ReorderEdgeLoaded(SubSeq(w, 1, n + 1))) = Sum(ReorderEdgeLoaded(SubSeq(w, 1, n))) + w[n + 1]
<1> DEFINE u == SubSeq(w, 1, n)
           v == SubSeq(w, 1, n + 1)
           s == ReorderEdgeLoaded(u)
           t == ReorderEdgeLoaded(v)
           p == (n + 1) \div 2 + 1
<1>0. Len(w) \in Nat /\ n \in Nat /\ p \in 1..(n + 1)
  OBVIOUS
<1>1. /\ u \in Seq(Nat) /\ Len(u) = n /\ DOMAIN u = 1..n /\ \A i \in 1..n : u[i] = w[i]
      /\ v \in Seq(Nat) /\ Len(v) = n + 1 /\ DOMAIN v = 1..(n + 1) /\ \A i \in 1..(n + 1) : v[i] = w[i]
  OBVIOUS
<1> HIDE DEF u, v
<1>2. \A i \in 1..n : /\ 2 * i <= n + 1 => 2 * i - 1 \in 1..n
                      /\ ~ (2 * i <= n + 1) => 2 * (n - i + 1) \in 1..n
  BY <1>0
<1>3. s = [i \in 1..n |-> IF 2 * i <= n + 1 THEN w[2 * i - 1] ELSE w[2 * (n - i + 1)]]
  BY <1>1, <1>2 DEF ReorderEdgeLoaded
<1>4. \A i \in 1..(n + 1) : /\ 2 * i <= n + 2 => 2 * i - 1 \in 1..(n + 1)
                            /\ ~ (2 * i <= n + 2) => 2 * (n + 1 - i + 1) \in 1..(n + 1)
  BY <1>0
<1>5. t = [i \in 1..(n + 1) |-> IF 2 * i <= n + 2 THEN w[2 * i - 1] ELSE w[2 * (n + 1 - i + 1)]]
  BY <1>0, <1>1, <1>4 DEF ReorderEdgeLoaded
<1>6. s \in Seq(Nat) /\ Len(s) = n /\ t \in Seq(Nat) /\ Len(t) = n + 1
  <2>1. \A i \in 1..(n + 1) : w[i] \in Nat
    BY <1>0
  <2>2. s \in [1..n -> Nat]
    BY <1>0, <1>2, <1>3, <2>1
  <2>3. t \in [1..(n + 1) -> Nat]
    BY <1>0, <1>4, <1>5, <2>1
  <2> QED
    BY <1>0, <2>2, <2>3
<1>7. t[p] = w[n + 1]
  <2>1. CASE 2 * p <= n + 2
    <3>1. 2 * p - 1 = n + 1
      BY <1>0, <2>1
    <3> QED
      BY <1>0, <1>5, <2>1, <3>1
  <2>2. CASE ~ (2 * p <= n + 2)
    <3>1. 2 * (n + 1 - p + 1) = n + 1
      BY <1>0, <2>2
    <3> QED
      BY <1>0, <1>5, <2>2, <3>1
  <2> QED
    BY <2>1, <2>2
<1>8. ASSUME NEW i \in 1..n
      PROVE  t[IF i < p THEN i ELSE i + 1] = s[i]
  <2>1. CASE i < p
    <3>1. 2 * i <= n + 1 /\ 2 * i <= n + 2 /\ i \in 1..(n + 1)
      BY <1>0, <2>1
    <3> HIDE DEF s, t, p
    <3> QED
      BY <1>3, <1>5, <2>1, <3>1
  <2>2. CASE ~ (i < p)
    <3>1. ~ (2 * i <= n + 1) /\ ~ (2 * (i + 1) <= n + 2) /\ i + 1 \in 1..(n + 1)
      BY <1>0, <2>2
    <3>2. 2 * (n + 1 - (i + 1) + 1) = 2 * (n - i + 1)
      BY <1>0
    <3> HIDE DEF s, t, p
    <3> QED
      BY <1>3, <1>5, <2>2, <3>1, <3>2
  <2> QED
    BY <2>1, <2>2
<1> HIDE DEF s, t, p
<1>9. Sum(t) = Sum(s) + t[p]
  BY <1>0, <1>6, <1>8, SumOfInsertion
<1> QED
  BY <1>7, <1>9 DEF s, t, u, v

LEMMA ReorderSum ==
  ASSUME NEW w \in Seq(Nat)
  PROVE  Sum(ReorderEdgeLoaded(w)) = Sum(w)
<1> DEFINE f == SumTo(w)
           P == {n \in 0..Len(w) : Sum(ReorderEdgeLoaded(SubSeq(w, 1, n))) = f[n]}
<1>0. Len(w) \in Nat
  OBVIOUS
<1>1. Adds(f, w, Len(w)) /\ Sum(w) = f[Len(w)]
  BY SumOfPrefixes, Zenon
<1> HIDE DEF f
<1>2. 0 \in P
  <2>1. SubSeq(w, 1, 0) = <<>>
    OBVIOUS
  <2>2. ReorderEdgeLoaded(<<>>) = <<>>
    BY DEF ReorderEdgeLoaded
  <2>3. <<>> \in Seq(Nat) /\ Len(<<>>) = 0
    OBVIOUS
  <2>4. Adds(SumTo(<<>>), <<>>, 0) /\ Sum(<<>>) = SumTo(<<>>)[0]
    BY <2>3, SumOfPrefixes, Zenon
  <2>5. Sum(<<>>) = 0 /\ f[0] = 0
    BY <1>1, <2>4 DEF Adds
  <2>6. Sum(ReorderEdgeLoaded(SubSeq(w, 1, 0))) = Sum(<<>>)
    BY <2>1, <2>2
  <2> QED
    BY <1>0, <2>5, <2>6
<1>3. ASSUME NEW k \in 0..(Len(w) - 1), k \in P
      PROVE  k + 1 \in P
  <2>1. f[k + 1] = f[k] + w[k + 1]
    BY <1>0, <1>1 DEF Adds
  <2>2. Sum(ReorderEdgeLoaded(SubSeq(w, 1, k + 1))) = Sum(ReorderEdgeLoaded(SubSeq(w, 1, k))) + w[k + 1]
    BY ReorderInserts
  <2> QED
    BY <1>0, <1>3, <2>1, <2>2
<1>4. Len(w) \in P
  <2>1. \A k \in 0..Len(w) : k \in P
    <3> HIDE DEF P
    <3> QED
      BY <1>0, <1>2, <1>3, Reaches
  <2> QED
    BY <1>0, <2>1
<1>5. SubSeq(w, 1, Len(w)) = w
  BY <1>0
<1> QED
  BY <1>1, <1>4, <1>5

-----------------------------------------------------------------------------
(* Assembly.                                                               *)

Weights(cs) == [i \in DOMAIN cs |-> WrapChunk(cs[i])]

\* The first chunks of a ranking, perhaps compressed.
Sourced(cs, s) ==
  /\ cs \in Seq(Chunk) /\ Len(cs) <= Len(s)
  /\ \A i \in 1..Len(cs) : /\ cs[i].id = s[i] /\ s[i] \in DOMAIN Corpus /\ cs[i].content # <<>>
                           /\ ChunkHours(cs[i]) = ChunkHours(Corpus[s[i]])

\* The same chunks, in an order a context may have.
Loaded(cs, s, n) ==
  /\ cs \in Seq(Chunk) /\ Len(cs) = n
  /\ Ids(cs) = {s[i] : i \in 1..n}
  /\ n > 0 => cs[1].id = s[1]
  /\ n > 1 => s[2] \in {cs[2].id, cs[n].id}
  /\ \A i \in 1..n : cs[i].id \in DOMAIN Corpus /\ ChunkHours(cs[i]) = ChunkHours(Corpus[cs[i].id])

LEMMA WeightsType ==
  ASSUME NEW cs \in Seq(Chunk)
  PROVE  /\ Weights(cs) \in Seq(Nat) /\ Len(Weights(cs)) = Len(cs)
         /\ \A i \in 1..Len(cs) : Weights(cs)[i] = WrapChunk(cs[i])
         /\ BuildContextBlock(cs) = Sum(Weights(cs)) /\ BuildContextBlock(cs) \in Nat
<1>0. Len(cs) \in Nat /\ DOMAIN cs = 1..Len(cs)
  OBVIOUS
<1>1. \A i \in 1..Len(cs) : WrapChunk(cs[i]) \in Nat
  <2> SUFFICES ASSUME NEW i \in 1..Len(cs)
               PROVE  WrapChunk(cs[i]) \in Nat
    OBVIOUS
  <2>1. cs[i] \in Chunk
    OBVIOUS
  <2>2. Len(cs[i].content) \in Nat
    BY <2>1 DEF Chunk
  <2> QED
    BY <2>2 DEF WrapChunk
<1>2. Weights(cs) \in Seq(Nat) /\ Len(Weights(cs)) = Len(cs) /\ \A i \in 1..Len(cs) : Weights(cs)[i] = WrapChunk(cs[i])
  BY <1>0, <1>1 DEF Weights
<1>3. BuildContextBlock(cs) = Sum(Weights(cs))
  BY DEF BuildContextBlock, Weights
<1>4. Sum(Weights(cs)) \in Nat
  BY <1>2, SumOfPrefixes
<1> QED
  BY <1>2, <1>3, <1>4

LEMMA RankingType ==
  ASSUME StagesConstantsOK, NEW s \in Rankings
  PROVE  /\ s \in Seq(DOMAIN Corpus) /\ Len(s) \in Nat /\ DOMAIN s = 1..Len(s)
         /\ \A i \in 1..Len(s) : /\ s[i] \in DOMAIN Corpus /\ Corpus[s[i]] \in Chunk
                                 /\ Corpus[s[i]].id = s[i] /\ Corpus[s[i]].content # <<>>
<1>1. s \in Seq(DOMAIN Corpus) /\ Len(s) \in Nat /\ DOMAIN s = 1..Len(s)
  BY DEF StagesConstantsOK
<1>2. \A i \in 1..Len(s) : s[i] \in DOMAIN Corpus
  BY <1>1
<1> QED
  BY <1>1, <1>2 DEF StagesConstantsOK

\* As many of the best as the budget takes (context_assembler.py:56).
LEMMA TruncateKeepsBest ==
  ASSUME StagesConstantsOK, NEW s \in Rankings, NEW b \in Budgets,
         NEW kept, kept = TruncateToTokenBudget([i \in DOMAIN s |-> Corpus[s[i]]], b)
  PROVE  /\ Sourced(kept, s)
         /\ BuildContextBlock(kept) <= b
         /\ Len(kept) < Len(s) => BuildContextBlock([i \in 1..(Len(kept) + 1) |-> Corpus[s[i]]]) > b
<1> DEFINE cs == [i \in DOMAIN s |-> Corpus[s[i]]]
           N == Len(s)
           fits == {n \in 0..Len(cs) : BuildContextBlock(SubSeq(cs, 1, n)) <= b}
           m == CHOOSE n \in fits : \A k \in fits : k <= n
<1>0. /\ N \in Nat /\ DOMAIN s = 1..N /\ b \in Nat
      /\ \A i \in 1..N : /\ s[i] \in DOMAIN Corpus /\ Corpus[s[i]] \in Chunk
                         /\ Corpus[s[i]].id = s[i] /\ Corpus[s[i]].content # <<>>
  BY RankingType DEF StagesConstantsOK
<1>1. cs \in Seq(Chunk) /\ Len(cs) = N /\ \A i \in 1..N : cs[i] = Corpus[s[i]]
  BY <1>0
<1>2. kept = SubSeq(cs, 1, m)
  BY DEF TruncateToTokenBudget
<1> HIDE DEF cs
<1>3. 0 \in fits
  <2>1. SubSeq(cs, 1, 0) = <<>>
    BY <1>1
  <2>2. Weights(<<>>) = <<>> /\ <<>> \in Seq(Chunk) /\ <<>> \in Seq(Nat) /\ Len(<<>>) = 0
    BY DEF Weights
  <2>3. BuildContextBlock(<<>>) = Sum(<<>>)
    BY <2>2, WeightsType
  <2>4. Sum(<<>>) = 0
    BY <2>2, SumOfPrefixes, Zenon DEF Adds
  <2>5. BuildContextBlock(SubSeq(cs, 1, 0)) = 0
    BY <2>1, <2>3, <2>4, Zenon
  <2>6. 0 \in 0..Len(cs) /\ BuildContextBlock(SubSeq(cs, 1, 0)) <= b
    BY <1>0, <1>1, <2>5
  <2> QED
    BY <2>6
<1>4. m \in fits /\ \A k \in fits : k <= m
  <2>1. fits \in SUBSET (0..N)
    BY <1>1
  <2>2. \E n \in fits : \A k \in fits : k <= n
    <3> HIDE DEF fits
    <3> QED
      BY <1>0, <1>3, <2>1, GreatestNumber
  <2> HIDE DEF fits
  <2> QED
    BY <2>2
<1> HIDE DEF m
<1>5. m \in 0..N /\ BuildContextBlock(kept) <= b
  BY <1>1, <1>2, <1>4
<1>6. kept \in Seq(Chunk) /\ Len(kept) = m /\ \A i \in 1..m : kept[i] = Corpus[s[i]]
  <2>1. \A i \in 1..m : cs[i] \in Chunk /\ i \in 1..N
    BY <1>0, <1>1, <1>5
  <2>2. kept \in Seq(Chunk) /\ Len(kept) = m /\ \A i \in 1..m : kept[i] = cs[i]
    BY <1>1, <1>2, <1>5, <2>1
  <2> QED
    BY <1>1, <2>1, <2>2
<1>7. Sourced(kept, s)
  <2> SUFFICES ASSUME NEW i \in 1..m
               PROVE  /\ kept[i].id = s[i] /\ s[i] \in DOMAIN Corpus /\ kept[i].content # <<>>
                      /\ ChunkHours(kept[i]) = ChunkHours(Corpus[s[i]])
    <3>1. m <= Len(s)
      BY <1>0, <1>5
    <3> QED
      BY <1>6, <3>1 DEF Sourced
  <2>1. i \in 1..N /\ kept[i] = Corpus[s[i]]
    BY <1>0, <1>5, <1>6
  <2> QED
    BY <1>0, <2>1
<1>8. ASSUME m < N
      PROVE  BuildContextBlock([i \in 1..(m + 1) |-> Corpus[s[i]]]) > b
  <2> DEFINE more == SubSeq(cs, 1, m + 1)
  <2>1. m + 1 \in 0..Len(cs) /\ m + 1 \notin fits
    BY <1>0, <1>1, <1>4, <1>5, <1>8
  <2>2. more \in Seq(Chunk) /\ more = [i \in 1..(m + 1) |-> Corpus[s[i]]]
    BY <1>0, <1>1, <1>5, <1>8
  <2>3. ~ (BuildContextBlock(more) <= b)
    BY <2>1
  <2>4. BuildContextBlock(more) \in Nat
    BY <2>2, WeightsType
  <2> HIDE DEF more
  <2> QED
    BY <1>0, <2>2, <2>3, <2>4
<1> QED
  BY <1>5, <1>6, <1>7, <1>8

LEMMA SourcedLoads ==
  ASSUME StagesConstantsOK, NEW s \in Rankings, NEW cs, Sourced(cs, s)
  PROVE  /\ Loaded(cs, s, Len(cs)) /\ Len(cs) \in Nat /\ Len(cs) <= Len(s)
<1>1. /\ cs \in Seq(Chunk) /\ Len(cs) \in Nat /\ DOMAIN cs = 1..Len(cs) /\ Len(cs) <= Len(s)
      /\ \A i \in 1..Len(cs) : /\ cs[i].id = s[i] /\ s[i] \in DOMAIN Corpus
                               /\ ChunkHours(cs[i]) = ChunkHours(Corpus[s[i]])
  BY DEF Sourced
<1>2. Ids(cs) = {s[i] : i \in 1..Len(cs)}
  BY <1>1 DEF Ids
<1> QED
  BY <1>1, <1>2 DEF Loaded

\* Compression, chunk by chunk, drops none of them.
LEMMA CompressedSourced ==
  ASSUME StagesConstantsOK, NEW s \in Rankings, NEW cs, Sourced(cs, s),
         NEW out, out = [i \in DOMAIN cs |-> CompressChunk(cs[i])]
  PROVE  /\ Sourced(out, s) /\ Len(out) = Len(cs)
         /\ BuildContextBlock(out) <= BuildContextBlock(cs)
<1> DEFINE n == Len(cs)
<1>1. /\ cs \in Seq(Chunk) /\ n \in Nat /\ DOMAIN cs = 1..n /\ n <= Len(s)
      /\ \A i \in 1..n : /\ cs[i] \in Chunk
                         /\ cs[i].id = s[i] /\ s[i] \in DOMAIN Corpus /\ cs[i].content # <<>>
                         /\ ChunkHours(cs[i]) = ChunkHours(Corpus[s[i]])
  BY DEF Sourced
<1>2. \A i \in 1..n : /\ out[i] = CompressChunk(cs[i]) /\ out[i] \in Chunk
                      /\ out[i].content # <<>> /\ out[i].id = cs[i].id
                      /\ WrapChunk(out[i]) <= WrapChunk(cs[i])
                      /\ ChunkHours(out[i]) = ChunkHours(cs[i])
  BY <1>1, CompressKeeps
<1>3. out \in Seq(Chunk) /\ Len(out) = n
  BY <1>1, <1>2
<1>4. Sourced(out, s)
  BY <1>1, <1>2, <1>3 DEF Sourced
<1>5. /\ Weights(cs) \in Seq(Nat) /\ Len(Weights(cs)) = n
      /\ \A i \in 1..n : Weights(cs)[i] = WrapChunk(cs[i])
      /\ BuildContextBlock(cs) = Sum(Weights(cs))
  BY <1>1, WeightsType
<1>6. /\ Weights(out) \in Seq(Nat) /\ Len(Weights(out)) = n
      /\ \A i \in 1..n : Weights(out)[i] = WrapChunk(out[i])
      /\ BuildContextBlock(out) = Sum(Weights(out))
  BY <1>3, WeightsType
<1>7. \A i \in 1..n : Weights(out)[i] <= Weights(cs)[i]
  BY <1>2, <1>5, <1>6
<1>8. Sum(Weights(out)) <= Sum(Weights(cs))
  BY <1>5, <1>6, <1>7, SumMonotone
<1> QED
  BY <1>3, <1>4, <1>5, <1>6, <1>8

\* The reordering is a permutation that keeps the first at the head and takes the
\* second to the tail (augmentation.py:47).
LEMMA ReorderLoads ==
  ASSUME StagesConstantsOK, NEW s \in Rankings, NEW cs, Sourced(cs, s),
         NEW out, out = ReorderEdgeLoaded(cs)
  PROVE  Loaded(out, s, Len(cs)) /\ BuildContextBlock(out) = BuildContextBlock(cs)
<1> DEFINE n == Len(cs)
           r(i) == IF 2 * i <= n + 1 THEN 2 * i - 1 ELSE 2 * (n - i + 1)
<1>1. /\ cs \in Seq(Chunk) /\ n \in Nat /\ DOMAIN cs = 1..n /\ n <= Len(s)
      /\ \A i \in 1..n : /\ cs[i] \in Chunk
                         /\ cs[i].id = s[i] /\ s[i] \in DOMAIN Corpus
                         /\ ChunkHours(cs[i]) = ChunkHours(Corpus[s[i]])
  BY DEF Sourced
<1>2. \A i \in 1..n : r(i) \in 1..n
  BY <1>1
<1>3. /\ n > 0 => 1 \in 1..n /\ r(1) = 1
      /\ n > 1 => n \in 1..n /\ r(n) = 2
  BY <1>1
<1>4. \A j \in 1..n : \E i \in 1..n : r(i) = j
  <2> SUFFICES ASSUME NEW j \in 1..n
               PROVE  \E i \in 1..n : r(i) = j
    OBVIOUS
  <2>1. CASE j % 2 = 1
    <3>1. (j + 1) \div 2 \in 1..n /\ r((j + 1) \div 2) = j
      BY <1>1, <2>1
    <3> QED
      BY <3>1
  <2>2. CASE j % 2 = 0
    <3>1. n + 1 - j \div 2 \in 1..n /\ r(n + 1 - j \div 2) = j
      BY <1>1, <2>2
    <3> QED
      BY <3>1
  <2> QED
    BY <2>1, <2>2
<1>5. out = [i \in 1..n |-> cs[r(i)]]
  BY <1>1 DEF ReorderEdgeLoaded
<1>6. Weights(out) = ReorderEdgeLoaded(Weights(cs))
  <2>1. Weights(out) = [i \in 1..n |-> WrapChunk(cs[r(i)])]
    <3> HIDE DEF r
    <3> QED
      BY <1>5 DEF Weights
  <2>2. DOMAIN Weights(cs) = 1..n /\ Len(Weights(cs)) = n
    BY <1>1, WeightsType DEF Weights
  <2>3. ReorderEdgeLoaded(Weights(cs)) = [i \in 1..n |-> Weights(cs)[r(i)]]
    BY <2>2 DEF ReorderEdgeLoaded
  <2>4. \A i \in 1..n : Weights(cs)[r(i)] = WrapChunk(cs[r(i)])
    <3> HIDE DEF r
    <3> QED
      BY <1>1, <1>2 DEF Weights
  <2> HIDE DEF r
  <2> QED
    BY <2>1, <2>3, <2>4
<1> HIDE DEF r
<1>7. out \in Seq(Chunk) /\ Len(out) = n /\ DOMAIN out = 1..n
  BY <1>1, <1>2, <1>5
<1>8. \A i \in 1..n : out[i] = cs[r(i)] /\ out[i].id = s[r(i)] /\ ChunkHours(out[i]) = ChunkHours(Corpus[s[r(i)]])
  BY <1>1, <1>2, <1>5
<1>9. BuildContextBlock(out) = BuildContextBlock(cs)
  <2>1. Weights(cs) \in Seq(Nat) /\ BuildContextBlock(cs) = Sum(Weights(cs))
    BY <1>1, WeightsType
  <2>2. BuildContextBlock(out) = Sum(Weights(out))
    BY <1>7, WeightsType
  <2>3. Sum(ReorderEdgeLoaded(Weights(cs))) = Sum(Weights(cs))
    BY <2>1, ReorderSum
  <2> QED
    BY <1>6, <2>1, <2>2, <2>3
<1>10. Ids(out) = {s[i] : i \in 1..n}
  <2>1. Ids(out) = {out[i].id : i \in 1..n}
    BY <1>7 DEF Ids
  <2>2. ASSUME NEW x \in Ids(out)
        PROVE  x \in {s[i] : i \in 1..n}
    <3>1. PICK i \in 1..n : x = out[i].id
      BY <2>1
    <3>2. x = s[r(i)] /\ r(i) \in 1..n
      BY <1>2, <1>8, <3>1
    <3> QED
      BY <3>2
  <2>3. ASSUME NEW j \in 1..n
        PROVE  s[j] \in Ids(out)
    <3>1. PICK i \in 1..n : r(i) = j
      BY <1>4
    <3>2. s[j] = out[i].id
      BY <1>8, <3>1
    <3> QED
      BY <2>1, <3>2
  <2> QED
    BY <2>2, <2>3
<1>11. /\ n > 0 => out[1].id = s[1]
       /\ n > 1 => out[n].id = s[2]
  BY <1>3, <1>8
<1>12. \A i \in 1..n : out[i].id \in DOMAIN Corpus /\ ChunkHours(out[i]) = ChunkHours(Corpus[out[i].id])
  BY <1>1, <1>2, <1>8
<1> QED
  BY <1>7, <1>9, <1>10, <1>11, <1>12 DEF Loaded

LEMMA AugmentLoads ==
  ASSUME StagesConstantsOK, NEW s \in Rankings, NEW cs, Sourced(cs, s),
         NEW compress \in BOOLEAN, NEW reorder \in BOOLEAN
  PROVE  /\ Loaded(AugmentChunks(cs, compress, reorder), s, Len(cs))
         /\ BuildContextBlock(AugmentChunks(cs, compress, reorder)) <= BuildContextBlock(cs)
<1> DEFINE out == IF compress THEN [i \in DOMAIN cs |-> CompressChunk(cs[i])] ELSE cs
<1>0. BuildContextBlock(cs) \in Nat
  BY WeightsType DEF Sourced
<1>1. Sourced(out, s) /\ Len(out) = Len(cs) /\ BuildContextBlock(out) <= BuildContextBlock(cs)
  BY <1>0, CompressedSourced
<1>2. AugmentChunks(cs, compress, reorder) = IF reorder THEN ReorderEdgeLoaded(out) ELSE out
  BY DEF AugmentChunks
<1> HIDE DEF out
<1> QED
  BY <1>1, <1>2, ReorderLoads, SourcedLoads

-----------------------------------------------------------------------------
(* The inductive invariant of the stages.                                  *)

Assembled ==
  context # Absent =>
    /\ context.of \in Rankings
    /\ Loaded(context.kept, context.of, Len(context.kept)) /\ Len(context.kept) \in Nat
    /\ Len(context.kept) <= Len(context.of)
    /\ ContextIsBest

\* An estimate, and while the client still holds the context it was generated on,
\* what it was checked against.
Checked ==
  result # Absent =>
    /\ result.estimate \in StagedEstimate
    /\ result.same =>
         /\ context # Absent /\ result.seen = Ids(context.kept)
         /\ result.citations = VerifyCitations(result.estimate, Ids(context.kept))

StagesInv ==
  /\ chunks # Absent => chunks \in Rankings
  /\ Assembled
  /\ Checked
  /\ PassedIsSupported

LEMMA AssembleStep ==
  ASSUME StagesConstantsOK, StagesInv, AssembleStage
  PROVE  Assembled'
<1>1. chunks \in Rankings
  BY DEF AssembleStage, StagesInv
<1>2. PICK r \in AssembleRequest :
        LET kept == TruncateToTokenBudget([i \in DOMAIN chunks |-> Corpus[chunks[i]]], r.budget)
        IN context' = [kept |-> IF r.augment THEN AugmentChunks(kept, r.compress, r.reorder) ELSE kept,
                       of |-> chunks, budget |-> r.budget, dropped |-> Len(chunks) - Len(kept),
                       compressed |-> r.augment /\ r.compress]
  BY DEF AssembleStage
<1> DEFINE kept == TruncateToTokenBudget([i \in DOMAIN chunks |-> Corpus[chunks[i]]], r.budget)
           out == IF r.augment THEN AugmentChunks(kept, r.compress, r.reorder) ELSE kept
           n == Len(kept)
<1>3. r.budget \in Budgets /\ r.budget \in Nat /\ r.compress \in BOOLEAN /\ r.reorder \in BOOLEAN
  BY DEF AssembleRequest, StagesConstantsOK
<1>4. context' = [kept |-> out, of |-> chunks, budget |-> r.budget, dropped |-> Len(chunks) - n,
                  compressed |-> r.augment /\ r.compress]
  BY <1>2
<1> HIDE DEF out
<1>5. /\ Sourced(kept, chunks)
      /\ BuildContextBlock(kept) <= r.budget
      /\ n < Len(chunks) => BuildContextBlock([i \in 1..(n + 1) |-> Corpus[chunks[i]]]) > r.budget
  BY <1>1, <1>3, TruncateKeepsBest
<1> HIDE DEF kept
<1>6. kept \in Seq(Chunk) /\ n \in Nat /\ n <= Len(chunks) /\ Len(chunks) \in Nat
  BY <1>1, <1>5, RankingType DEF Sourced
<1>7. Loaded(out, chunks, n) /\ BuildContextBlock(out) <= BuildContextBlock(kept)
  <2>1. CASE r.augment
    BY <1>1, <1>3, <1>5, <2>1, AugmentLoads DEF out
  <2>2. CASE ~r.augment
    <3>1. Loaded(kept, chunks, n)
      BY <1>1, <1>5, SourcedLoads
    <3>2. BuildContextBlock(kept) \in Nat
      BY <1>6, WeightsType
    <3> QED
      BY <2>2, <3>1, <3>2 DEF out
  <2> QED
    BY <2>1, <2>2
<1>8. BuildContextBlock(out) <= r.budget
  BY <1>3, <1>5, <1>6, <1>7, WeightsType DEF Loaded
<1>9. Len(out) = n
  BY <1>7 DEF Loaded
<1>10. /\ context'.kept = out /\ context'.of = chunks /\ context'.budget = r.budget
       /\ context'.dropped = Len(chunks) - n
  BY <1>4
<1>11. ContextIsBest'
  <2>1. Ids(out) = {chunks[i] : i \in 1..n} /\ n + (Len(chunks) - n) = Len(chunks)
    BY <1>6, <1>7 DEF Loaded
  <2>2. /\ n > 0 => out[1].id = chunks[1]
        /\ n > 1 => chunks[2] \in {out[2].id, out[n].id}
        /\ \A i \in 1..n : ChunkHours(out[i]) = ChunkHours(Corpus[out[i].id])
    BY <1>7 DEF Loaded
  <2>3. Len(chunks) - n > 0 => BuildContextBlock([i \in 1..(n + 1) |-> Corpus[chunks[i]]]) > r.budget
    BY <1>5, <1>6
  <2> QED
    BY <1>8, <1>9, <1>10, <2>1, <2>2, <2>3 DEF ContextIsBest, Ids, BuildContextBlock
<1> QED
  BY <1>1, <1>6, <1>7, <1>9, <1>10, <1>11 DEF Assembled, Loaded, Ids

\* On a context that keeps the hours of its sources, the gate adds up what the
\* corpus records; it has no anchor when that is nothing.
LEMMA AnchorIsRecorded ==
  ASSUME StagesConstantsOK, NEW cs \in Seq(Chunk),
         \A i \in 1..Len(cs) : cs[i].id \in DOMAIN Corpus /\ ChunkHours(cs[i]) = ChunkHours(Corpus[cs[i].id]),
         NEW t \in TaskItem, ToSet(t.sources) \subseteq Ids(cs)
  PROVE  /\ Recorded(t) \in Nat
         /\ \/ NumericAnchor(t, cs) = Absent /\ Recorded(t) = 0
            \/ NumericAnchor(t, cs) = Recorded(t)
<1> DEFINE n == Len(t.sources)
           found(id) == {cs[i] : i \in {j \in DOMAIN cs : cs[j].id = id}}
           hours(id) == IF found(id) = {} THEN Absent ELSE ChunkHours(CHOOSE x \in found(id) : TRUE)
           known == {j \in DOMAIN t.sources : hours(t.sources[j]) # Absent}
           a == [j \in DOMAIN t.sources |-> IF j \in known THEN hours(t.sources[j]) ELSE 0]
           b == [j \in DOMAIN t.sources |->
                   LET id == t.sources[j]
                   IN IF id \in DOMAIN Corpus /\ ChunkHours(Corpus[id]) # Absent THEN ChunkHours(Corpus[id]) ELSE 0]
<1>0. n \in Nat /\ t.sources \in Seq(ChunkIds) /\ DOMAIN t.sources = 1..n /\ DOMAIN cs = 1..Len(cs)
  BY DEF TaskItem
<1>1. NumericAnchor(t, cs) = IF known = {} THEN Absent ELSE Sum(a)
  BY DEF NumericAnchor
<1>2. Recorded(t) = Sum(b)
  BY DEF Recorded
<1>3. ASSUME NEW j \in 1..n
      PROVE  /\ t.sources[j] \in DOMAIN Corpus
             /\ hours(t.sources[j]) = ChunkHours(Corpus[t.sources[j]])
             /\ hours(t.sources[j]) \in Figure
  <2> DEFINE id == t.sources[j]
  <2>1. id \in ToSet(t.sources)
    BY <1>0 DEF ToSet
  <2>2. PICK i \in DOMAIN cs : id = cs[i].id
    BY <2>1 DEF Ids
  <2>3. found(id) # {} /\ (CHOOSE x \in found(id) : TRUE) \in found(id)
    BY <2>2
  <2>4. PICK k \in 1..Len(cs) : (CHOOSE x \in found(id) : TRUE) = cs[k] /\ cs[k].id = id
    BY <1>0, <2>3
  <2>5. hours(id) = ChunkHours(cs[k])
    BY <2>3, <2>4
  <2>6. cs[k] \in Chunk /\ id \in DOMAIN Corpus /\ ChunkHours(cs[k]) = ChunkHours(Corpus[id])
    BY <2>4
  <2> HIDE DEF hours
  <2> QED
    BY <2>5, <2>6, ChunkHoursType
<1> HIDE DEF hours
<1>4. \A j \in 1..n : a[j] = b[j] /\ a[j] \in Nat
  BY <1>0, <1>3 DEF Figure
<1>5. a = b /\ b \in Seq(Nat) /\ Len(b) = n
  <2>1. DOMAIN a = 1..n /\ DOMAIN b = 1..n /\ a = [j \in 1..n |-> a[j]] /\ b = [j \in 1..n |-> b[j]]
    BY <1>0
  <2> HIDE DEF a, b
  <2>2. a = b
    BY <1>4, <2>1
  <2>3. b \in [1..n -> Nat]
    BY <1>4, <2>1
  <2> QED
    BY <1>0, <2>2, <2>3
<1>6. Sum(b) \in Nat
  BY <1>5, SumOfPrefixes
<1>7. CASE known = {}
  <2>1. \A j \in 1..n : b[j] = 0
    <3>1. \A j \in 1..n : a[j] = 0
      BY <1>0, <1>7
    <3> HIDE DEF a, b
    <3> QED
      BY <1>4, <3>1
  <2> HIDE DEF b
  <2>2. Sum(b) = 0
    BY <1>5, <2>1, SumOfNothing
  <2> QED
    BY <1>1, <1>2, <1>6, <1>7, <2>2
<1>8. CASE known # {}
  <2> HIDE DEF a, b, known
  <2> QED
    BY <1>1, <1>2, <1>5, <1>6, <1>8
<1> QED
  BY <1>7, <1>8

\* The gate on the context its estimate was generated on.
LEMMA VerifyStep ==
  ASSUME StagesConstantsOK, StagesInv, VerifyStage
  PROVE  PassedIsSupported'
<1>1. PICK use_judge \in BOOLEAN : \E rejected \in JudgeEstimate(result.estimate, use_judge) :
        report' = [lines |-> GateEstimate(result.estimate, context.kept, rejected),
                   rejected |-> rejected, same |-> result.same]
  BY DEF VerifyStage
<1>2. PICK rejected \in JudgeEstimate(result.estimate, use_judge) :
        report' = [lines |-> GateEstimate(result.estimate, context.kept, rejected),
                   rejected |-> rejected, same |-> result.same]
  BY <1>1
<1> DEFINE e == result.estimate
           k == context.kept
<1>3. /\ report'.lines = GateEstimate(e, k, rejected) /\ report'.rejected = rejected
      /\ report'.same = result.same /\ result' = result
  BY <1>2 DEF VerifyStage
<1>4. SUFFICES ASSUME result.same, NEW i \in DOMAIN GateEstimate(e, k, rejected)
               PROVE  LET t == e.lines[i]
                          over == t.engineer_days # Absent /\ Recorded(t) > 0 /\ Exceeds(t.engineer_days, Recorded(t))
                          line == GateEstimate(e, k, rejected)[i]
                      IN /\ line = "grounded" /\ result.citations.lines[i] = "grounded" =>
                              ToSet(t.sources) \subseteq result.seen /\ ~over
                         /\ line = "degraded" /\ result.citations.lines[i] = "grounded" =>
                              over \/ t.name \in rejected
  <2>1. PassedIsSupported' =
          (report' # Absent /\ report'.same =>
            \A i \in DOMAIN report'.lines :
              LET t == result'.estimate.lines[i]
                  over == t.engineer_days # Absent /\ Recorded(t) > 0 /\ Exceeds(t.engineer_days, Recorded(t))
              IN /\ report'.lines[i] = "grounded" /\ result'.citations.lines[i] = "grounded" =>
                      /\ ToSet(t.sources) \subseteq result'.seen
                      /\ ~over
                 /\ report'.lines[i] = "degraded" /\ result'.citations.lines[i] = "grounded" =>
                      over \/ t.name \in report'.rejected)
    BY DEF PassedIsSupported, Recorded, Exceeds, ChunkHours, Sum
  <2> QED
    BY <1>3, <1>4, <2>1
<1> DEFINE t == e.lines[i]
           anchor == NumericAnchor(t, k)
           over == t.engineer_days # Absent /\ Recorded(t) > 0 /\ Exceeds(t.engineer_days, Recorded(t))
<1>5. /\ result # Absent /\ context # Absent /\ e \in StagedEstimate
      /\ result.seen = Ids(context.kept)
      /\ result.citations = VerifyCitations(e, Ids(k))
      /\ context.of \in Rankings /\ Loaded(k, context.of, Len(k)) /\ Len(k) \in Nat /\ Len(k) <= Len(context.of)
  BY <1>4 DEF StagesInv, Assembled, Checked, VerifyStage
<1>6. i \in DOMAIN e.lines /\ t \in TaskItem
  BY <1>5 DEF GateEstimate, StagedEstimate
<1>7. GateEstimate(e, k, rejected)[i] = GateLine(t, anchor, t.name \in rejected)
  BY <1>6 DEF GateEstimate
<1>8. SUFFICES ASSUME result.citations.lines[i] = "grounded"
               PROVE  /\ GateLine(t, anchor, t.name \in rejected) = "grounded" =>
                            ToSet(t.sources) \subseteq result.seen /\ ~over
                      /\ GateLine(t, anchor, t.name \in rejected) = "degraded" =>
                            over \/ t.name \in rejected
  BY <1>7
<1>9. t.sources # <<>> /\ ToSet(t.sources) \subseteq Ids(k)
  <2>1. result.citations.lines[i] =
          CASE t.sources = <<>> -> "insufficient"
            [] ~(ToSet(t.sources) \subseteq Ids(k)) -> "dangling"
            [] OTHER -> "grounded"
    BY <1>5, <1>6 DEF VerifyCitations
  <2>2. t.sources = <<>> => ToSet(t.sources) \subseteq Ids(k)
    BY DEF ToSet
  <2> HIDE DEF t, k
  <2>3. CASE t.sources = <<>>
    BY <1>8, <2>1, <2>2, <2>3
  <2>4. CASE ~(ToSet(t.sources) \subseteq Ids(k))
    BY <1>8, <2>1, <2>2, <2>4
  <2> QED
    BY <2>3, <2>4
<1>10. ToSet(t.sources) \subseteq result.seen
  BY <1>5, <1>9
<1>11. /\ Recorded(t) \in Nat
       /\ (anchor = Absent /\ Recorded(t) = 0) \/ anchor = Recorded(t)
  <2>1. k \in Seq(Chunk) /\ \A j \in 1..Len(k) : k[j].id \in DOMAIN Corpus /\ ChunkHours(k[j]) = ChunkHours(Corpus[k[j].id])
    BY <1>5 DEF Loaded
  <2> HIDE DEF t, k
  <2> QED
    BY <1>6, <1>9, <2>1, AnchorIsRecorded
<1>12. over <=> anchor \notin {Absent, 0} /\ t.engineer_days # Absent /\ Exceeds(t.engineer_days, anchor)
  <2>1. Absent \notin Nat
    BY DEF StagesConstantsOK
  <2> HIDE DEF t, anchor
  <2> QED
    BY <1>11, <2>1
<1> HIDE DEF over, t, anchor
<1> QED
  BY <1>9, <1>10, <1>12 DEF GateLine

LEMMA ReturnedStep ==
  ASSUME StagesInv, NEW kind \in {"structure", "agent", "generate"}, NEW e \in StagedEstimate,
         NEW citations, NEW coherent, Returned(kind, e, citations, coherent),
         kind = "generate" => context # Absent /\ citations = VerifyCitations(e, Ids(context.kept))
  PROVE  StagesInv'
<1>1. /\ result' = [kind |-> kind, estimate |-> e, citations |-> citations, coherent |-> coherent,
                    seen |-> IF kind = "generate" THEN Ids(context.kept) ELSE {},
                    same |-> kind = "generate"]
      /\ report' = Absent /\ chunks' = chunks /\ context' = context
  BY DEF Returned
<1>2. /\ result'.estimate = e /\ result'.citations = citations /\ result'.same = (kind = "generate")
      /\ kind = "generate" => result'.seen = Ids(context.kept)
  BY <1>1
<1>3. Assembled'
  <2>1. Assembled
    BY DEF StagesInv
  <2> QED
    BY <1>1, <2>1 DEF Assembled, ContextIsBest, Loaded, Ids, BuildContextBlock
<1>4. Checked'
  <2>1. CASE kind = "generate"
    <3>1. result'.seen = Ids(context.kept) /\ result'.citations = VerifyCitations(e, Ids(context.kept)) /\ context # Absent
      BY <1>2, <2>1
    <3>2. /\ Ids(context'.kept) = Ids(context.kept)
          /\ VerifyCitations(result'.estimate, Ids(context'.kept)) = VerifyCitations(e, Ids(context.kept))
      BY <1>1, <1>2
    <3>3. result'.estimate \in StagedEstimate /\ context' # Absent
      BY <1>1, <1>2, <3>1
    <3> QED
      BY <3>1, <3>2, <3>3 DEF Checked
  <2>2. CASE kind # "generate"
    <3>1. result'.same = FALSE
      BY <1>1, <2>2
    <3> QED
      BY <1>2, <3>1 DEF Checked
  <2> QED
    BY <2>1, <2>2
<1>5. PassedIsSupported'
  BY <1>1 DEF PassedIsSupported
<1> QED
  BY <1>1, <1>3, <1>4, <1>5 DEF StagesInv

LEMMA StructureIsEstimate ==
  ASSUME StagesConstantsOK, NEW t \in Trees
  PROVE  StructureToEstimate(t) \in StagedEstimate
<1>1. t.lines \in Seq(Names) /\ t.confidence \in {"high", "medium", "low"}
  BY DEF StagesConstantsOK, Tree
<1> DEFINE line(i) == [name |-> t.lines[i], sources |-> <<>>, engineer_days |-> Absent]
           lines == [i \in DOMAIN t.lines |-> line(i)]
<1>2. \A i \in DOMAIN t.lines : line(i) \in TaskItem
  <2> SUFFICES ASSUME NEW i \in DOMAIN t.lines
               PROVE  line(i) \in TaskItem
    OBVIOUS
  <2>1. t.lines[i] \in Names /\ <<>> \in Seq(ChunkIds) /\ Absent \in Figure
    BY <1>1 DEF Figure
  <2>2. line(i) \in [name : Names, sources : Seq(ChunkIds), engineer_days : Figure]
    BY <2>1
  <2> QED
    BY <2>2 DEF TaskItem
<1>3. lines \in Seq(TaskItem)
  <2>1. DOMAIN t.lines = 1..Len(t.lines) /\ Len(t.lines) \in Nat
    BY <1>1
  <2> HIDE DEF line
  <2> QED
    BY <1>2, <2>1
<1> HIDE DEF line
<1>4. StructureToEstimate(t) = [lines |-> lines, sources |-> {}, totals |-> FALSE, explained |-> t.lines = <<>>,
        confidence |-> IF t.lines = <<>> THEN "insufficient" ELSE t.confidence]
  BY DEF StructureToEstimate, line
<1> HIDE DEF lines
<1> QED
  BY <1>1, <1>3, <1>4 DEF StagedEstimate

LEMMA StagesStart == StagesInit => StagesInv
  BY DEF StagesInit, StagesInv, Assembled, Checked, PassedIsSupported

LEMMA StagesStep ==
  ASSUME StagesConstantsOK, StagesInv, [StagesNext]_stageVars
  PROVE  StagesInv'
<1>1. ASSUME UNCHANGED <<context, result, report>>, chunks' # Absent => chunks' \in Rankings
      PROVE  StagesInv'
  <2>1. Assembled /\ Checked /\ PassedIsSupported
    BY DEF StagesInv
  <2>2. Assembled'
    BY <1>1, <2>1 DEF Assembled, ContextIsBest, Loaded, Ids, BuildContextBlock
  <2>3. Checked'
    BY <1>1, <2>1 DEF Checked, VerifyCitations, Ids
  <2>4. PassedIsSupported'
    BY <1>1, <2>1 DEF PassedIsSupported, Recorded
  <2> QED
    BY <1>1, <2>2, <2>3, <2>4 DEF StagesInv
<1>2. CASE UNCHANGED stageVars
  BY <1>1, <1>2 DEF stageVars, StagesInv
<1>3. CASE ReformulateStage
  BY <1>1, <1>3 DEF ReformulateStage, StagesInv
<1>4. CASE RetrieveStage
  BY <1>1, <1>4 DEF RetrieveStage, StagesInv
<1>5. CASE AssembleStage
  <2>1. Assembled'
    BY <1>5, AssembleStep
  <2>2. Checked'
    <3>1. CASE result = Absent
      BY <1>5, <3>1 DEF AssembleStage, Checked
    <3>2. CASE result # Absent
      <4>1. result' = [result EXCEPT !.same = FALSE]
        BY <1>5, <3>2 DEF AssembleStage
      <4>2. result.estimate \in StagedEstimate
        BY <3>2 DEF StagesInv, Checked
      <4> QED
        BY <4>1, <4>2 DEF Checked
    <3> QED
      BY <3>1, <3>2
  <2>3. PassedIsSupported'
    BY <1>5 DEF AssembleStage, StagesInv, PassedIsSupported, Recorded
  <2> QED
    BY <1>5, <2>1, <2>2, <2>3 DEF StagesInv, AssembleStage
<1>6. CASE StructureStage
  <2>1. PICK e \in Written : Returned("structure", e, Absent, TRUE)
    BY <1>6 DEF StructureStage, GenerateStructure
  <2>2. e \in StagedEstimate
    BY DEF StagesConstantsOK
  <2> QED
    BY <2>1, <2>2, ReturnedStep
<1>7. CASE AgentStructureStage
  <2>1. PICK t \in Trees : Returned("agent", StructureToEstimate(t), Absent, TRUE)
    BY <1>7 DEF AgentStructureStage, RunStructureAgent, AgentProposeStructure
  <2>2. StructureToEstimate(t) \in StagedEstimate
    BY StructureIsEstimate
  <2> QED
    BY <2>1, <2>2, ReturnedStep
<1>8. CASE GenerateStage
  <2>1. context # Absent
    BY <1>8 DEF GenerateStage
  <2>2. PICK e \in Written : Returned("generate", e, VerifyCitations(e, Ids(context.kept)), CheckCoherence(e))
    BY <1>8 DEF GenerateStage
  <2>3. e \in StagedEstimate
    BY DEF StagesConstantsOK
  <2> QED
    BY <2>1, <2>2, <2>3, ReturnedStep
<1>9. CASE VerifyStage
  <2>1. PassedIsSupported'
    BY <1>9, VerifyStep
  <2>2. chunks' = chunks /\ context' = context /\ result' = result
    BY <1>9 DEF VerifyStage
  <2>3. Assembled /\ Checked
    BY DEF StagesInv
  <2>4. Assembled'
    BY <2>2, <2>3 DEF Assembled, ContextIsBest, Loaded, Ids, BuildContextBlock
  <2>5. Checked'
    BY <2>2, <2>3 DEF Checked, VerifyCitations, Ids
  <2> QED
    BY <2>1, <2>2, <2>4, <2>5 DEF StagesInv
<1> QED
  BY <1>2, <1>3, <1>4, <1>5, <1>6, <1>7, <1>8, <1>9 DEF StagesNext

LEMMA StagesInductive ==
  ASSUME StagesConstantsOK
  PROVE  StagesSpec => []StagesInv
<1>1. StagesInv /\ [StagesNext]_stageVars => StagesInv'
  BY StagesStep
<1> QED
  BY <1>1, StagesStart, PTL DEF StagesSpec

\* A line that passes the citation check and the gate, on the context its
\* estimate was generated on, cites only sources in the block the model was
\* shown and, where these record hours, claims no more days than the tolerance
\* over what the corpus records for its citations, each counted; for any corpus,
\* ranking and estimate, however the stages were interleaved
\* (hallucination.py:60-126).
THEOREM PassedSupported ==
  ASSUME StagesConstantsOK
  PROVE  StagesSpec => []PassedIsSupported
<1>1. StagesInv => PassedIsSupported
  BY DEF StagesInv
<1> QED
  BY <1>1, StagesInductive, PTL

\* The context of every assembly is the longest prefix of the ranking that fits
\* as it is stored, and neither compression nor reordering puts it over the
\* budget, loses a source or changes the hours of one (context_assembler.py:56,
\* augmentation.py:23-73).
THEOREM ContextBest ==
  ASSUME StagesConstantsOK
  PROVE  StagesSpec => []ContextIsBest
<1>1. StagesInv => ContextIsBest
  BY DEF StagesInv, Assembled, ContextIsBest
<1> QED
  BY <1>1, StagesInductive, PTL

-----------------------------------------------------------------------------
(* Retrieval: lists without repetitions, and their fusion.                 *)

\* A list of elements of T that repeats none.
Distinct(list, T) ==
  /\ list \in Seq(T) /\ Len(list) \in Nat /\ DOMAIN list = 1..Len(list)
  /\ \A i \in 1..Len(list) : list[i] \in T
  /\ \A i, j \in 1..Len(list) : list[i] = list[j] => i = j

LEMMA PositionOf ==
  ASSUME NEW T, NEW list, Distinct(list, T), NEW x \in Range(list)
  PROVE  /\ Position(list, x) \in 0..(Len(list) - 1) /\ list[Position(list, x) + 1] = x
         /\ \A k \in 1..Len(list) : list[k] = x => Position(list, x) = k - 1
<1>1. Len(list) \in Nat /\ DOMAIN list = 1..Len(list)
  BY DEF Distinct
<1>2. PICK k \in 1..Len(list) : list[k] = x
  BY <1>1 DEF Range
<1>3. (CHOOSE i \in DOMAIN list : list[i] = x) = k
  BY <1>1, <1>2 DEF Distinct
<1>4. Position(list, x) = k - 1
  BY <1>3 DEF Position
<1>5. \A j \in 1..Len(list) : list[j] = x => j = k
  BY <1>2 DEF Distinct
<1> QED
  BY <1>1, <1>2, <1>4, <1>5

\* The elements of S by rising key.
ByKey(list, S, key) ==
  /\ Distinct(list, S) /\ S = Range(list)
  /\ \A j, k \in 1..Len(list) : j < k => key[list[j]] < key[list[k]]

LEMMA ByKeyPositions ==
  ASSUME NEW S, NEW key \in [S -> Nat], NEW list, ByKey(list, S, key), NEW x \in S, NEW y \in S
  PROVE  key[x] < key[y] <=> Position(list, x) < Position(list, y)
<1> DEFINE p == Position(list, x)
           q == Position(list, y)
<1>1. x \in Range(list) /\ y \in Range(list) /\ Distinct(list, S) /\ Len(list) \in Nat
  BY DEF ByKey, Distinct
<1>2. p \in 0..(Len(list) - 1) /\ list[p + 1] = x
  BY <1>1, PositionOf
<1>3. q \in 0..(Len(list) - 1) /\ list[q + 1] = y
  BY <1>1, PositionOf
<1> HIDE DEF p, q
<1>4. p + 1 \in 1..Len(list) /\ q + 1 \in 1..Len(list)
  BY <1>1, <1>2, <1>3
<1>5. p < q => key[x] < key[y]
  BY <1>2, <1>3, <1>4 DEF ByKey
<1>6. q < p => key[y] < key[x]
  BY <1>2, <1>3, <1>4 DEF ByKey
<1>7. p = q => x = y
  BY <1>2, <1>3
<1>8. key[x] \in Nat /\ key[y] \in Nat /\ p \in Nat /\ q \in Nat
  BY <1>1, <1>2, <1>3
<1>9. p < q <=> key[x] < key[y]
  BY <1>5, <1>6, <1>7, <1>8
<1> QED
  BY <1>9 DEF p, q

Keyings(A, key) == {<<x, key[x]>> : x \in A}
Firsts(l) == [k \in DOMAIN l |-> l[k][1]]

\* What sorting the elements with their keys returns.
LEMMA PairsInOrder ==
  ASSUME NEW A, IsFiniteSet(A), NEW key \in [A -> Nat],
         NEW pairs, pairs = Keyings(A, key), NEW R, Sorts(R, pairs),
         NEW l, l = InOrder(pairs, R)
  PROVE  LET list == Firsts(l)
         IN /\ Distinct(list, A) /\ A = Range(list) /\ Len(list) = Cardinality(A)
            /\ \A j, k \in 1..Len(list) :
                 <<<<list[j], key[list[j]]>>, <<list[k], key[list[k]]>>>> \in R <=> j < k
<1> DEFINE list == [k \in DOMAIN l |-> l[k][1]]
           n == Cardinality(A)
           pair == [x \in A |-> <<x, key[x]>>]
<1>1. IsFiniteSet(pairs) /\ Cardinality(pairs) = n /\ n \in Nat
  <2>1. pair \in Bijection(A, pairs)
    <3>1. pair \in [A -> pairs]
      BY DEF Keyings
    <3>2. \A x, y \in A : pair[x] = pair[y] => x = y
      OBVIOUS
    <3>3. \A p \in pairs : \E x \in A : pair[x] = p
      BY DEF Keyings
    <3> HIDE DEF pair
    <3> QED
      BY <3>1, <3>2, <3>3 DEF Bijection, Injection, Surjection, IsInjective
  <2>2. ExistsBijection(A, pairs)
    BY <2>1 DEF ExistsBijection
  <2> QED
    BY <2>2, FS_Bijection, FS_CardinalityType
<1>2. /\ l \in [1..n -> pairs] /\ l \in Seq(pairs) /\ Len(l) = n
      /\ \A p \in pairs : \E k \in 1..n : l[k] = p
      /\ \A j, k \in 1..n : <<l[j], l[k]>> \in R <=> j < k
  <2>1. /\ l \in [1..Cardinality(pairs) -> pairs] /\ l \in Seq(pairs) /\ Len(l) = Cardinality(pairs)
        /\ \A p \in pairs : \E k \in 1..Len(l) : l[k] = p
        /\ \A j, k \in 1..Len(l) : <<l[j], l[k]>> \in R <=> j < k
    BY <1>1, OrderedList
  <2> QED
    BY <1>1, <2>1
<1>3. \A k \in 1..n : list[k] = l[k][1] /\ l[k] = <<list[k], key[list[k]]>> /\ list[k] \in A
  <2> SUFFICES ASSUME NEW k \in 1..n
               PROVE  list[k] = l[k][1] /\ l[k] = <<list[k], key[list[k]]>> /\ list[k] \in A
    OBVIOUS
  <2>1. l[k] \in pairs /\ k \in DOMAIN l
    BY <1>2
  <2>2. PICK x \in A : l[k] = <<x, key[x]>>
    BY <2>1 DEF Keyings
  <2>3. list[k] = l[k][1]
    BY <2>1
  <2> HIDE DEF list
  <2> QED
    BY <2>2, <2>3
<1>4. list \in Seq(A) /\ Len(list) = n /\ DOMAIN list = 1..n
  <2>1. DOMAIN l = 1..n
    BY <1>2
  <2>2. list = [k \in 1..n |-> list[k]]
    BY <2>1
  <2> HIDE DEF list, n
  <2>3. list \in [1..n -> A]
    BY <1>3, <2>2
  <2> QED
    BY <1>1, <2>3
<1> HIDE DEF list
<1>5. ASSUME NEW i \in 1..n, NEW j \in 1..n, list[i] = list[j]
      PROVE  i = j
  <2>1. l[i] = l[j]
    BY <1>3, <1>5
  <2>2. (i < j <=> <<l[i], l[j]>> \in R) /\ (j < i <=> <<l[j], l[i]>> \in R) /\ (j < j <=> <<l[j], l[j]>> \in R)
    BY <1>2
  <2>3. (i < j <=> j < j) /\ (j < i <=> j < j)
    BY <2>1, <2>2
  <2> HIDE DEF n
  <2> QED
    BY <1>1, <2>3
<1>6. \A x \in A : \E k \in 1..n : list[k] = x
  <2> SUFFICES ASSUME NEW x \in A
               PROVE  \E k \in 1..n : list[k] = x
    OBVIOUS
  <2>1. PICK k \in 1..n : l[k] = <<x, key[x]>>
    BY <1>2 DEF Keyings
  <2> QED
    BY <1>3, <2>1
<1>7. A = Range(list)
  BY <1>3, <1>4, <1>6 DEF Range
<1>8. Distinct(list, A)
  BY <1>1, <1>3, <1>4, <1>5 DEF Distinct
<1>9. \A j, k \in 1..n : <<<<list[j], key[list[j]]>>, <<list[k], key[list[k]]>>>> \in R <=> j < k
  BY <1>2, <1>3
<1> QED
  BY <1>4, <1>7, <1>8, <1>9 DEF list, Firsts

\* The least of a nonempty set of numbers.
LEMMA MinOf ==
  ASSUME NEW S \in SUBSET Nat, S # {}
  PROVE  Min(S) \in S /\ \A y \in S : Min(S) <= y
<1>1. \E x \in S : \A y \in S : x <= y
  BY LeastNumber
<1> QED
  BY <1>1 DEF Min

LEMMA MinOfTwo ==
  ASSUME NEW m \in Nat, NEW n \in Nat
  PROVE  Min({m, n}) = IF m <= n THEN m ELSE n
<1> DEFINE S == {m, n}
<1>1. S \in SUBSET Nat /\ S # {} /\ m \in S /\ n \in S /\ \A x \in S : x = m \/ x = n
  OBVIOUS
<1> HIDE DEF S
<1>2. Min(S) \in S /\ \A y \in S : Min(S) <= y
  BY <1>1, MinOf
<1>3. (Min(S) = m \/ Min(S) = n) /\ Min(S) <= m /\ Min(S) <= n
  BY <1>1, <1>2, Zenon
<1>4. Min(S) = IF m <= n THEN m ELSE n
  BY <1>3
<1> QED
  BY <1>4 DEF S

LEMMA CutOf ==
  ASSUME NEW T, NEW list \in Seq(T), NEW n \in Nat
  PROVE  /\ Cut(list, n) \in Seq(T) /\ DOMAIN Cut(list, n) = 1..Len(Cut(list, n))
         /\ Len(Cut(list, n)) = IF n <= Len(list) THEN n ELSE Len(list)
         /\ \A i \in 1..Len(Cut(list, n)) : Cut(list, n)[i] = list[i]
<1> DEFINE m == Min({n, Len(list)})
<1>1. Len(list) \in Nat /\ m = (IF n <= Len(list) THEN n ELSE Len(list))
  BY MinOfTwo
<1>2. Cut(list, n) = SubSeq(list, 1, m) /\ m \in 0..Len(list)
  BY <1>1 DEF Cut
<1> HIDE DEF m
<1>3. SubSeq(list, 1, m) \in Seq(T) /\ Len(SubSeq(list, 1, m)) = m /\ \A i \in 1..m : SubSeq(list, 1, m)[i] = list[i]
  BY <1>1, <1>2
<1> QED
  BY <1>1, <1>2, <1>3

\* Two lists of one length with the same elements.
LEMMA SameList ==
  ASSUME NEW T, NEW list \in Seq(T), NEW other \in Seq(T), Len(list) = Len(other),
         \A i \in 1..Len(list) : list[i] = other[i]
  PROVE  list = other
  OBVIOUS

LEMMA CutDistinct ==
  ASSUME NEW T, NEW list, Distinct(list, T), NEW n \in Nat
  PROVE  /\ Distinct(Cut(list, n), T)
         /\ \A x \in Range(Cut(list, n)) : x \in Range(list) /\ Position(Cut(list, n), x) = Position(list, x)
         /\ \A x \in Range(list) : x \in Range(Cut(list, n)) <=> Position(list, x) < n
<1> DEFINE cut == Cut(list, n)
<1>0. list \in Seq(T) /\ Len(list) \in Nat /\ DOMAIN list = 1..Len(list)
  BY DEF Distinct
<1>1. /\ cut \in Seq(T) /\ Len(cut) \in Nat /\ DOMAIN cut = 1..Len(cut)
      /\ Len(cut) = (IF n <= Len(list) THEN n ELSE Len(list))
      /\ \A i \in 1..Len(cut) : cut[i] = list[i]
  BY <1>0, CutOf
<1> HIDE DEF cut
<1>2. 1..Len(cut) \subseteq 1..Len(list)
  BY <1>0, <1>1
<1>3. Distinct(cut, T)
  BY <1>1, <1>2 DEF Distinct
<1>4. ASSUME NEW x \in Range(cut)
      PROVE  x \in Range(list) /\ Position(cut, x) = Position(list, x) /\ Position(list, x) < n
  <2>1. Position(cut, x) \in 0..(Len(cut) - 1) /\ cut[Position(cut, x) + 1] = x
    BY <1>3, PositionOf
  <2>2. PICK k \in 1..Len(cut) : k = Position(cut, x) + 1 /\ cut[k] = x
    BY <1>1, <2>1
  <2>3. k \in 1..Len(list) /\ list[k] = x
    BY <1>1, <1>2, <2>2
  <2>4. x \in Range(list)
    BY <1>0, <2>3 DEF Range
  <2>5. Position(list, x) = k - 1
    BY <2>3, <2>4, PositionOf
  <2> QED
    BY <1>1, <2>1, <2>2, <2>4, <2>5
<1>5. ASSUME NEW x \in Range(list), Position(list, x) < n
      PROVE  x \in Range(cut)
  <2>1. Position(list, x) \in 0..(Len(list) - 1) /\ list[Position(list, x) + 1] = x
    BY PositionOf
  <2>2. PICK k \in 1..Len(list) : k = Position(list, x) + 1 /\ list[k] = x
    BY <1>0, <2>1
  <2>3. k \in 1..Len(cut)
    BY <1>0, <1>1, <1>5, <2>1, <2>2
  <2> QED
    BY <1>1, <2>2, <2>3 DEF Range
<1> QED
  BY <1>3, <1>4, <1>5 DEF cut

LEMMA CutAgain ==
  ASSUME NEW T, NEW list \in Seq(T), NEW m \in Nat, NEW n \in Nat, m <= n
  PROVE  Cut(Cut(list, n), m) = Cut(list, m)
<1> DEFINE once == Cut(list, n)
           twice == Cut(once, m)
           direct == Cut(list, m)
<1>1. /\ once \in Seq(T) /\ Len(list) \in Nat
      /\ Len(once) = (IF n <= Len(list) THEN n ELSE Len(list))
      /\ \A i \in 1..Len(once) : once[i] = list[i]
  BY CutOf
<1> HIDE DEF once
<1>2. /\ twice \in Seq(T) /\ Len(twice) = (IF m <= Len(once) THEN m ELSE Len(once))
      /\ \A i \in 1..Len(twice) : twice[i] = once[i]
  BY <1>1, CutOf
<1>3. /\ direct \in Seq(T) /\ Len(direct) = (IF m <= Len(list) THEN m ELSE Len(list))
      /\ \A i \in 1..Len(direct) : direct[i] = list[i]
  BY CutOf
<1> HIDE DEF twice, direct
<1>4. Len(twice) = Len(direct)
  BY <1>1, <1>2, <1>3
<1>5. \A i \in 1..Len(twice) : twice[i] = direct[i]
  BY <1>1, <1>2, <1>3, <1>4
<1>6. twice = direct
  BY <1>2, <1>3, <1>4, <1>5, SameList
<1> QED
  BY <1>6 DEF once, twice, direct

\* The elements of a list without repetitions, counted.
LEMMA DistinctCount ==
  ASSUME NEW T, NEW list, Distinct(list, T)
  PROVE  IsFiniteSet(Range(list)) /\ Cardinality(Range(list)) = Len(list) /\ Range(list) \subseteq T
<1>1. list \in Seq(T) /\ Len(list) \in Nat /\ DOMAIN list = 1..Len(list)
  BY DEF Distinct
<1>2. list \in Bijection(1..Len(list), Range(list))
  <2>1. list \in [1..Len(list) -> Range(list)]
    BY <1>1 DEF Range
  <2>2. \A y \in Range(list) : \E k \in 1..Len(list) : list[k] = y
    BY <1>1 DEF Range
  <2> QED
    BY <1>1, <2>1, <2>2 DEF Distinct, Bijection, Injection, Surjection, IsInjective
<1>3. IsFiniteSet(1..Len(list)) /\ Cardinality(1..Len(list)) = Len(list)
  BY <1>1, FS_Interval
<1>4. ExistsBijection(1..Len(list), Range(list))
  BY <1>2 DEF ExistsBijection
<1>5. Range(list) \subseteq T
  BY <1>1 DEF Range, Distinct
<1> QED
  BY <1>3, <1>4, <1>5, FS_Bijection

\* Keys rise by one at least from place to place.
LEMMA KeyAtLeast ==
  ASSUME NEW S, NEW key \in [S -> Nat], NEW list, ByKey(list, S, key), \A x \in S : key[x] >= 1
  PROVE  \A k \in 1..Len(list) : k <= key[list[k]]
<1> DEFINE P == {k \in 0..Len(list) : k = 0 \/ k <= key[list[k]]}
<1>1. Len(list) \in Nat /\ \A k \in 1..Len(list) : list[k] \in S /\ key[list[k]] \in Nat
  BY DEF ByKey, Distinct
<1>2. ASSUME NEW k \in 0..(Len(list) - 1), k \in P
      PROVE  k + 1 \in P
  <2>1. k + 1 \in 1..Len(list) /\ key[list[k + 1]] >= 1 /\ key[list[k + 1]] \in Nat
    BY <1>1
  <2>2. CASE k = 0
    BY <2>1, <2>2
  <2>3. CASE k # 0
    <3>1. k \in 1..Len(list) /\ k < k + 1
      BY <1>1, <2>3
    <3>2. key[list[k]] < key[list[k + 1]]
      BY <2>1, <3>1 DEF ByKey
    <3>3. k <= key[list[k]] /\ key[list[k]] \in Nat
      BY <1>1, <1>2, <2>3, <3>1
    <3> QED
      BY <2>1, <3>2, <3>3
  <2> QED
    BY <2>2, <2>3
<1>3. 0 \in P
  BY <1>1
<1>4. \A k \in 0..Len(list) : k \in P
  <2> HIDE DEF P
  <2> QED
    BY <1>1, <1>2, <1>3, Reaches
<1> QED
  BY <1>1, <1>4

\* Two lists by rising key agree up to the m-th element, when the keys of the second
\* are no lower and those of the first m elements of the first are the same.
LEMMA SamePrefix ==
  ASSUME NEW A, IsFiniteSet(A), NEW B \in SUBSET A, NEW ta \in [A -> Nat], NEW tb \in [B -> Nat],
         NEW L, ByKey(L, A, ta), NEW M, ByKey(M, B, tb), NEW m \in Nat,
         \A x \in B : ta[x] <= tb[x],
         \A k \in 1..Len(L) : k <= m => L[k] \in B /\ tb[L[k]] = ta[L[k]]
  PROVE  Cut(L, m) = Cut(M, m)
<1>1. /\ L \in Seq(A) /\ Len(L) \in Nat /\ DOMAIN L = 1..Len(L) /\ A = Range(L)
      /\ M \in Seq(B) /\ Len(M) \in Nat /\ DOMAIN M = 1..Len(M) /\ B = Range(M)
      /\ \A k \in 1..Len(L) : L[k] \in A
      /\ \A k \in 1..Len(M) : M[k] \in B
  BY DEF ByKey, Distinct
<1>2. /\ \A j, k \in 1..Len(L) : L[j] = L[k] => j = k
      /\ \A j, k \in 1..Len(M) : M[j] = M[k] => j = k
  BY DEF ByKey, Distinct
<1> DEFINE n == IF m <= Len(L) THEN m ELSE Len(L)
           P == {k \in 0..n : \A j \in 1..k : j <= Len(M) /\ M[j] = L[j]}
<1>3. n \in Nat /\ n <= m /\ n <= Len(L)
  BY <1>1
<1>4. ASSUME NEW k \in 0..(n - 1), k \in P
      PROVE  k + 1 \in P
  <2>1. k + 1 \in 1..Len(L) /\ k + 1 <= m /\ k + 1 \in 0..n
    BY <1>1, <1>3
  <2>2. L[k + 1] \in B /\ tb[L[k + 1]] = ta[L[k + 1]]
    BY <2>1
  <2>3. PICK p \in 1..Len(M) : M[p] = L[k + 1]
    BY <1>1, <2>2 DEF Range
  <2>4. \A j \in 1..k : j \in 1..Len(M) /\ j \in 1..Len(L) /\ M[j] = L[j]
    BY <1>1, <1>4, <2>1
  <2>5. ~ (p <= k)
    <3>1. SUFFICES ASSUME p <= k PROVE FALSE
      OBVIOUS
    <3>2. p \in 1..k /\ L[p] = L[k + 1] /\ p \in 1..Len(L)
      BY <1>1, <2>3, <2>4, <3>1
    <3>3. p = k + 1
      BY <1>2, <2>1, <3>2
    <3> QED
      BY <3>1, <3>3
  <2>6. ~ (p > k + 1)
    <3>1. SUFFICES ASSUME p > k + 1 PROVE FALSE
      OBVIOUS
    <3>2. k + 1 \in 1..Len(M) /\ M[k + 1] \in B /\ M[k + 1] \in A
      BY <1>1, <2>1, <3>1
    <3>3. tb[M[k + 1]] < tb[M[p]]
      BY <3>1, <3>2 DEF ByKey
    <3>4. ta[M[k + 1]] < ta[L[k + 1]]
      <4>1. ta[M[k + 1]] <= tb[M[k + 1]] /\ ta[M[k + 1]] \in Nat /\ tb[M[k + 1]] \in Nat /\ tb[M[p]] \in Nat
        BY <1>1, <3>2
      <4> QED
        BY <2>2, <2>3, <3>3, <4>1
    <3>5. PICK j \in 1..Len(L) : L[j] = M[k + 1]
      BY <1>1, <3>2 DEF Range
    <3>6. j <= k
      <4>1. j = k + 1 => FALSE
        BY <2>1, <3>4, <3>5, <1>1
      <4>2. k + 1 < j => FALSE
        <5>1. k + 1 < j => ta[L[k + 1]] < ta[L[j]]
          BY <2>1 DEF ByKey
        <5> QED
          BY <1>1, <2>1, <3>4, <3>5, <5>1
      <4> QED
        BY <4>1, <4>2
    <3>7. M[j] = M[k + 1] /\ j \in 1..Len(M)
      BY <2>4, <3>5, <3>6
    <3>8. j = k + 1
      BY <1>2, <3>2, <3>7
    <3> QED
      BY <3>6, <3>8
  <2>7. p = k + 1
    BY <2>5, <2>6
  <2> QED
    BY <1>4, <2>1, <2>3, <2>4, <2>7
<1>5. 0 \in P
  BY <1>3
<1>6. n \in P
  <2>1. \A k \in 0..n : k \in P
    <3> HIDE DEF P, n
    <3> QED
      BY <1>3, <1>4, <1>5, Reaches
  <2> QED
    BY <1>3, <2>1
<1>7. Len(M) <= Len(L)
  <2>1. Cardinality(A) = Len(L) /\ Cardinality(B) = Len(M)
    BY <1>1, DistinctCount DEF ByKey
  <2> QED
    BY <2>1, FS_Subset
<1>8. n <= Len(M) /\ \A j \in 1..n : M[j] = L[j]
  BY <1>1, <1>3, <1>6
<1> DEFINE c == Cut(L, m)
           d == Cut(M, m)
<1>9. /\ c \in Seq(A) /\ Len(c) = n /\ \A i \in 1..Len(c) : c[i] = L[i]
  BY <1>1, CutOf
<1>10. /\ d \in Seq(A) /\ Len(d) = (IF m <= Len(M) THEN m ELSE Len(M)) /\ \A i \in 1..Len(d) : d[i] = M[i]
  <2>1. M \in Seq(A)
    BY <1>1
  <2> QED
    BY <2>1, CutOf
<1>11. Len(d) = n
  BY <1>1, <1>3, <1>7, <1>8, <1>10
<1> HIDE DEF c, d, n
<1>12. c = d
  BY <1>3, <1>8, <1>9, <1>10, <1>11, SameList
<1> QED
  BY <1>12 DEF c, d

-----------------------------------------------------------------------------
(* Round robin.                                                            *)

Lists(lists, T) ==
  /\ Len(lists) \in Nat /\ DOMAIN lists = 1..Len(lists)
  /\ \A i \in 1..Len(lists) : Distinct(lists[i], T)

LEMMA ItemsOf ==
  ASSUME NEW T, IsFiniteSet(T), NEW lists, Lists(lists, T)
  PROVE  /\ IsFiniteSet(Items(lists)) /\ Items(lists) \subseteq T
         /\ \A x \in Items(lists) :
              /\ Listing(lists, x) # {}
              /\ \A i \in Listing(lists, x) : i \in 1..Len(lists) /\ x \in Range(lists[i]) /\ Distinct(lists[i], T)
<1>1. DOMAIN lists = 1..Len(lists)
  BY DEF Lists
<1>2. \A i \in 1..Len(lists) : Distinct(lists[i], T) /\ Range(lists[i]) \subseteq T
  BY DistinctCount DEF Lists
<1>3. Items(lists) \subseteq T
  BY <1>1, <1>2 DEF Items
<1>4. IsFiniteSet(Items(lists))
  BY <1>3, FS_Subset
<1> QED
  BY <1>1, <1>2, <1>3, <1>4 DEF Items, Listing

Turns(lists, x) == {Position(lists[i], x) * Len(lists) + i : i \in Listing(lists, x)}
Turn(lists, x) == Min(Turns(lists, x))

\* The turns of the columns do not overlap.
LEMMA ColumnsApart ==
  ASSUME NEW n \in Nat, NEW p \in Nat, NEW q \in Nat, p < q
  PROVE  p * n + n <= q * n
<1>1. PICK d \in Nat : q = p + 1 + d
  <2>1. q - (p + 1) \in Nat /\ q = p + 1 + (q - (p + 1))
    OBVIOUS
  <2> QED
    BY <2>1
<1>2. q * n = p * n + n + d * n /\ d * n \in Nat /\ p * n \in Nat
  BY <1>1
<1> QED
  BY <1>2

LEMMA OnePlace ==
  ASSUME NEW n \in Nat, NEW p \in Nat, NEW q \in Nat, NEW i \in 1..n, NEW j \in 1..n,
         p * n + i = q * n + j
  PROVE  p = q /\ i = j
<1>1. p * n \in Nat /\ q * n \in Nat
  OBVIOUS
<1>2. ~ (p < q)
  <2>1. p < q => p * n + n <= q * n
    BY ColumnsApart
  <2> QED
    BY <1>1, <2>1
<1>3. ~ (q < p)
  <2>1. q < p => q * n + n <= p * n
    BY ColumnsApart
  <2> QED
    BY <1>1, <2>1
<1>4. p = q
  BY <1>2, <1>3
<1> QED
  BY <1>1, <1>4

LEMMA TurnOf ==
  ASSUME NEW T, IsFiniteSet(T), NEW lists, Lists(lists, T), NEW x \in Items(lists)
  PROVE  /\ Turn(lists, x) \in Nat /\ Turn(lists, x) >= 1
         /\ \E i \in Listing(lists, x) : Turn(lists, x) = Position(lists[i], x) * Len(lists) + i
         /\ \A i \in Listing(lists, x) : Turn(lists, x) <= Position(lists[i], x) * Len(lists) + i
<1>0. Len(lists) \in Nat
  BY DEF Lists
<1>1. \A i \in Listing(lists, x) :
        i \in 1..Len(lists) /\ Position(lists[i], x) \in Nat /\ Position(lists[i], x) * Len(lists) \in Nat
  <2> SUFFICES ASSUME NEW i \in Listing(lists, x)
               PROVE  i \in 1..Len(lists) /\ Position(lists[i], x) \in Nat /\ Position(lists[i], x) * Len(lists) \in Nat
    OBVIOUS
  <2>1. i \in 1..Len(lists) /\ x \in Range(lists[i]) /\ Distinct(lists[i], T)
    BY ItemsOf
  <2>2. Position(lists[i], x) \in 0..(Len(lists[i]) - 1)
    BY <2>1, PositionOf
  <2>3. Position(lists[i], x) \in Nat
    BY <2>2
  <2> QED
    BY <1>0, <2>1, <2>3
<1>2. \A i \in Listing(lists, x) :
        Position(lists[i], x) * Len(lists) + i \in Nat /\ Position(lists[i], x) * Len(lists) + i >= 1
  BY <1>0, <1>1
<1>3. Turns(lists, x) \in SUBSET Nat /\ Turns(lists, x) # {}
  <2>1. Listing(lists, x) # {}
    BY ItemsOf
  <2> QED
    BY <1>2, <2>1 DEF Turns
<1>4. Turn(lists, x) \in Turns(lists, x) /\ \A y \in Turns(lists, x) : Turn(lists, x) <= y
  BY <1>3, MinOf DEF Turn
<1>5. PICK i \in Listing(lists, x) : Turn(lists, x) = Position(lists[i], x) * Len(lists) + i
  BY <1>4 DEF Turns
<1>6. \A j \in Listing(lists, x) : Position(lists[j], x) * Len(lists) + j \in Turns(lists, x)
  BY DEF Turns
<1> QED
  BY <1>2, <1>4, <1>5, <1>6

LEMMA TurnsApart ==
  ASSUME NEW T, IsFiniteSet(T), NEW lists, Lists(lists, T), NEW x \in Items(lists), NEW y \in Items(lists),
         Turn(lists, x) = Turn(lists, y)
  PROVE  x = y
<1>1. PICK i \in Listing(lists, x) : Turn(lists, x) = Position(lists[i], x) * Len(lists) + i
  BY TurnOf
<1>2. PICK j \in Listing(lists, y) : Turn(lists, y) = Position(lists[j], y) * Len(lists) + j
  BY TurnOf
<1>3. i \in 1..Len(lists) /\ x \in Range(lists[i]) /\ Distinct(lists[i], T)
  BY ItemsOf
<1>4. j \in 1..Len(lists) /\ y \in Range(lists[j]) /\ Distinct(lists[j], T)
  BY ItemsOf
<1>5. Position(lists[i], x) \in 0..(Len(lists[i]) - 1) /\ lists[i][Position(lists[i], x) + 1] = x
  BY <1>3, PositionOf
<1>6. Position(lists[j], y) \in 0..(Len(lists[j]) - 1) /\ lists[j][Position(lists[j], y) + 1] = y
  BY <1>4, PositionOf
<1>7. Position(lists[i], x) \in Nat /\ Position(lists[j], y) \in Nat /\ Len(lists) \in Nat
  BY <1>5, <1>6 DEF Lists
<1>8. Position(lists[i], x) * Len(lists) + i = Position(lists[j], y) * Len(lists) + j
  BY <1>1, <1>2
<1>9. Position(lists[i], x) = Position(lists[j], y) /\ i = j
  <2>1. PICK n, p, q \in Nat : n = Len(lists) /\ p = Position(lists[i], x) /\ q = Position(lists[j], y)
    BY <1>7
  <2>2. i \in 1..n /\ j \in 1..n /\ p * n + i = q * n + j
    BY <1>3, <1>4, <1>8, <2>1
  <2>3. p = q /\ i = j
    BY <2>2, OnePlace
  <2> QED
    BY <2>1, <2>3
<1> QED
  BY <1>5, <1>6, <1>9

\* round_robin_merge gives each item once, by its turn.
LEMMA RoundRobinOrder ==
  ASSUME NEW T, IsFiniteSet(T), NEW lists, Lists(lists, T)
  PROVE  /\ [x \in Items(lists) |-> Turn(lists, x)] \in [Items(lists) -> Nat]
         /\ ByKey(RoundRobin(lists), Items(lists), [x \in Items(lists) |-> Turn(lists, x)])
<1> DEFINE A == Items(lists)
           key == [x \in A |-> Turn(lists, x)]
           pairs == Keyings(A, key)
           R == {p \in pairs \X pairs : p[1][2] < p[2][2]}
           l == InOrder(pairs, R)
           list == Firsts(l)
<1>1. IsFiniteSet(A) /\ key \in [A -> Nat]
  BY ItemsOf, TurnOf
<1>2. RoundRobin(lists) = list
  <2>1. pairs = {<<x, Turn(lists, x)>> : x \in Items(lists)}
    BY DEF Keyings
  <2> QED
    BY <2>1 DEF RoundRobin, Turn, Turns, Firsts
<1>3. \A x, y \in A : key[x] = key[y] => x = y
  BY TurnsApart
<1> HIDE DEF A, key
<1>4. \A p \in pairs : p = <<p[1], key[p[1]]>> /\ p[1] \in A /\ p[2] = key[p[1]] /\ p[2] \in Nat
  BY <1>1 DEF Keyings
<1>5. \A p, q \in pairs : <<p, q>> \in R <=> p[2] < q[2]
  OBVIOUS
<1> HIDE DEF pairs, R
<1>6. Sorts(R, pairs)
  <2>1. \A p, q \in pairs : p # q => p[2] # q[2]
    BY <1>3, <1>4
  <2> QED
    BY <1>4, <1>5, <2>1 DEF Sorts
<1> HIDE DEF l, list
<1>7. /\ Distinct(list, A) /\ A = Range(list) /\ Len(list) = Cardinality(A)
      /\ \A j, k \in 1..Len(list) : <<<<list[j], key[list[j]]>>, <<list[k], key[list[k]]>>>> \in R <=> j < k
  <2>1. pairs = Keyings(A, key) /\ l = InOrder(pairs, R) /\ list = Firsts(l)
    BY DEF pairs, l, list
  <2> QED
    BY <1>1, <1>6, <2>1, PairsInOrder
<1>8. \A j, k \in 1..Len(list) : j < k => key[list[j]] < key[list[k]]
  <2> SUFFICES ASSUME NEW j \in 1..Len(list), NEW k \in 1..Len(list), j < k
               PROVE  key[list[j]] < key[list[k]]
    OBVIOUS
  <2>1. list[j] \in A /\ list[k] \in A
    BY <1>7 DEF Distinct
  <2>2. <<list[j], key[list[j]]>> \in pairs /\ <<list[k], key[list[k]]>> \in pairs
    BY <2>1 DEF pairs, Keyings
  <2>3. <<<<list[j], key[list[j]]>>, <<list[k], key[list[k]]>>>> \in R
    BY <1>7
  <2> QED
    BY <1>5, <2>2, <2>3
<1>9. ByKey(list, A, key)
  BY <1>7, <1>8 DEF ByKey
<1> QED
  BY <1>1, <1>2, <1>9 DEF A, key

Cuts(lists, m) == [i \in DOMAIN lists |-> Cut(lists[i], m)]

LEMMA CutsAreLists ==
  ASSUME NEW T, IsFiniteSet(T), NEW lists, Lists(lists, T), lists \in Seq(Seq(T)), NEW m \in Nat
  PROVE  /\ Lists(Cuts(lists, m), T) /\ Len(Cuts(lists, m)) = Len(lists)
         /\ Cuts(lists, m) \in Seq(Seq(T))
         /\ \A i \in 1..Len(lists) : Cuts(lists, m)[i] = Cut(lists[i], m)
<1>1. Len(lists) \in Nat /\ DOMAIN lists = 1..Len(lists)
  BY DEF Lists
<1>2. \A i \in 1..Len(lists) : Distinct(Cut(lists[i], m), T) /\ Cut(lists[i], m) \in Seq(T)
  <2>1. \A i \in 1..Len(lists) : Distinct(Cut(lists[i], m), T)
    BY CutDistinct DEF Lists
  <2> QED
    BY <2>1 DEF Distinct
<1>3. Cuts(lists, m) \in [1..Len(lists) -> Seq(T)] /\ \A i \in 1..Len(lists) : Cuts(lists, m)[i] = Cut(lists[i], m)
  BY <1>1, <1>2 DEF Cuts
<1>4. Cuts(lists, m) \in Seq(Seq(T)) /\ Len(Cuts(lists, m)) = Len(lists) /\ DOMAIN Cuts(lists, m) = 1..Len(lists)
  <2> DEFINE S == Seq(T)
             c == Cuts(lists, m)
             n == Len(lists)
  <2>1. n \in Nat /\ c \in [1..n -> S]
    BY <1>1, <1>3
  <2> HIDE DEF S, c, n
  <2>2. c \in Seq(S) /\ Len(c) = n /\ DOMAIN c = 1..n
    BY <2>1
  <2> QED
    BY <2>2 DEF S, c, n
<1> QED
  BY <1>1, <1>2, <1>3, <1>4 DEF Lists

\* The first m of a merge come from the first m of each list.
LEMMA FirstOfEach ==
  ASSUME NEW T, IsFiniteSet(T), NEW lists, Lists(lists, T), NEW m \in Nat,
         NEW k \in 1..Len(RoundRobin(lists)), k <= m,
         NEW i \in Listing(lists, RoundRobin(lists)[k]),
         Turn(lists, RoundRobin(lists)[k]) = Position(lists[i], RoundRobin(lists)[k]) * Len(lists) + i
  PROVE  Position(lists[i], RoundRobin(lists)[k]) < m
<1> DEFINE L == RoundRobin(lists)
           A == Items(lists)
           key == [y \in A |-> Turn(lists, y)]
           x == L[k]
           p == Position(lists[i], x)
           ahead == Cut(lists[i], p + 1)
           first == Cut(L, k)
<1>1. key \in [A -> Nat] /\ ByKey(L, A, key)
  BY RoundRobinOrder
<1>2. x \in A /\ Distinct(L, A) /\ Len(L) \in Nat /\ A = Range(L)
  BY <1>1 DEF ByKey, Distinct
<1>3. i \in 1..Len(lists) /\ x \in Range(lists[i]) /\ Distinct(lists[i], T) /\ Len(lists) \in Nat
  BY <1>2, ItemsOf DEF Lists
<1>4. p \in 0..(Len(lists[i]) - 1) /\ lists[i][p + 1] = x /\ Len(lists[i]) \in Nat
  BY <1>3, PositionOf DEF Distinct
<1>5. /\ Distinct(ahead, T) /\ Len(ahead) = p + 1 /\ p + 1 \in Nat
      /\ \A y \in Range(ahead) : y \in Range(lists[i]) /\ Position(lists[i], y) <= p /\ Position(lists[i], y) \in Nat
  <2>1. p + 1 \in Nat /\ lists[i] \in Seq(T) /\ p + 1 <= Len(lists[i])
    BY <1>3, <1>4 DEF Distinct
  <2>2. Len(ahead) = p + 1
    <3> HIDE DEF p
    <3> QED
      BY <2>1, CutOf
  <2> HIDE DEF p
  <2>3. /\ Distinct(ahead, T)
        /\ \A y \in Range(ahead) : y \in Range(lists[i]) /\ Position(ahead, y) = Position(lists[i], y)
    BY <1>3, <2>1, CutDistinct
  <2> HIDE DEF ahead
  <2>4. \A y \in Range(ahead) : Position(ahead, y) \in 0..(Len(ahead) - 1)
    BY <2>3, PositionOf
  <2>5. ASSUME NEW y \in Range(ahead)
        PROVE  y \in Range(lists[i]) /\ Position(lists[i], y) <= p /\ Position(lists[i], y) \in Nat
    <3>1. p \in Nat /\ Position(ahead, y) \in 0..((p + 1) - 1)
      BY <1>4, <2>2, <2>4
    <3> QED
      BY <2>3, <3>1
  <2> QED
    BY <2>1, <2>2, <2>3, <2>5
<1>6. Range(ahead) \subseteq Range(first)
  <2> SUFFICES ASSUME NEW y \in Range(ahead)
               PROVE  y \in Range(first)
    OBVIOUS
  <2>1. y \in Range(lists[i]) /\ Position(lists[i], y) <= p /\ Position(lists[i], y) \in Nat
    BY <1>5
  <2>2. y \in A /\ i \in Listing(lists, y)
    BY <1>3, <2>1 DEF Items, Listing, Lists
  <2>3. Turn(lists, y) <= Position(lists[i], y) * Len(lists) + i /\ Turn(lists, y) \in Nat
    BY <2>2, TurnOf
  <2>4. Position(lists[i], y) * Len(lists) <= p * Len(lists)
    <3>1. PICK n, q, r \in Nat : n = Len(lists) /\ q = Position(lists[i], y) /\ r = p
      BY <1>3, <1>4, <2>1
    <3>2. q = r \/ q * n + n <= r * n
      <4>1. q = r \/ q < r
        BY <2>1, <3>1
      <4> QED
        BY <4>1, ColumnsApart
    <3>3. q * n \in Nat /\ r * n \in Nat
      OBVIOUS
    <3>4. q * n <= r * n
      BY <3>2, <3>3
    <3> QED
      BY <3>1, <3>4
  <2>5. Turn(lists, y) <= Turn(lists, x)
    <3>1. Position(lists[i], y) * Len(lists) \in Nat /\ p * Len(lists) \in Nat /\ i \in Nat
      BY <1>3, <1>4, <2>1
    <3>2. Turn(lists, x) = p * Len(lists) + i
      OBVIOUS
    <3> HIDE DEF p, x
    <3> QED
      BY <2>3, <2>4, <3>1, <3>2
  <2>6. PICK j \in 1..Len(L) : L[j] = y
    BY <1>2, <2>2 DEF Range, Distinct
  <2>7. j <= k
    <3>1. k < j => key[x] < key[y]
      BY <1>1, <2>6 DEF ByKey
    <3>2. key[x] = Turn(lists, x) /\ key[y] = Turn(lists, y) /\ Turn(lists, x) \in Nat
      BY <1>2, <2>2, TurnOf
    <3> HIDE DEF key, x
    <3> QED
      BY <1>2, <2>3, <2>5, <3>1, <3>2
  <2>8. Position(L, y) = j - 1 /\ y \in Range(L)
    BY <1>2, <2>2, <2>6, PositionOf
  <2>9. Position(L, y) < k
    BY <1>2, <2>7, <2>8
  <2>10. k \in Nat
    BY <1>2
  <2> HIDE DEF L
  <2> QED
    BY <1>2, <2>8, <2>9, <2>10, CutDistinct
<1>7. Distinct(first, A) /\ Len(first) = k
  <2>1. k \in Nat /\ k <= Len(L) /\ L \in Seq(A)
    BY <1>2 DEF Distinct
  <2> HIDE DEF L, A
  <2> QED
    BY <1>2, <2>1, CutDistinct, CutOf
<1>8. p + 1 <= k
  <2>1. IsFiniteSet(Range(first)) /\ Cardinality(Range(first)) = k
    BY <1>7, DistinctCount
  <2>2. Cardinality(Range(ahead)) = p + 1
    BY <1>5, DistinctCount
  <2> HIDE DEF ahead, first, p
  <2> QED
    BY <1>6, <2>1, <2>2, FS_Subset
<1> QED
  BY <1>2, <1>4, <1>8

LEMMA RoundRobinCut ==
  ASSUME NEW T, IsFiniteSet(T), NEW lists, Lists(lists, T), lists \in Seq(Seq(T)), NEW m \in Nat
  PROVE  Cut(RoundRobin(lists), m) = Cut(RoundRobin(Cuts(lists, m)), m)
<1> DEFINE cuts == Cuts(lists, m)
           L == RoundRobin(lists)
           M == RoundRobin(cuts)
           A == Items(lists)
           B == Items(cuts)
           ta == [x \in A |-> Turn(lists, x)]
           tb == [x \in B |-> Turn(cuts, x)]
           n == Len(lists)
<1>1. Lists(cuts, T) /\ Len(cuts) = n /\ \A i \in 1..n : cuts[i] = Cut(lists[i], m)
  BY CutsAreLists
<1>2. n \in Nat /\ DOMAIN lists = 1..n /\ DOMAIN cuts = 1..n /\ \A i \in 1..n : Distinct(lists[i], T)
  BY <1>1 DEF Lists
<1> HIDE DEF cuts
<1>3. /\ IsFiniteSet(A) /\ ta \in [A -> Nat] /\ ByKey(L, A, ta)
      /\ tb \in [B -> Nat] /\ ByKey(M, B, tb)
  BY <1>1, RoundRobinOrder, ItemsOf
<1>5. ASSUME NEW x \in B, NEW i \in Listing(cuts, x)
      PROVE  x \in A /\ i \in Listing(lists, x) /\ Position(cuts[i], x) = Position(lists[i], x)
  <2>1. i \in 1..n /\ x \in Range(Cut(lists[i], m))
    BY <1>1, <1>2, <1>5 DEF Listing
  <2>2. x \in Range(lists[i]) /\ Position(Cut(lists[i], m), x) = Position(lists[i], x)
    BY <1>2, <2>1, CutDistinct
  <2> QED
    BY <1>1, <1>2, <2>1, <2>2 DEF Items, Listing
<1>6. B \subseteq A
  BY <1>1, <1>5, ItemsOf
<1>7. \A x \in B : ta[x] <= tb[x]
  <2> SUFFICES ASSUME NEW x \in B
               PROVE  Turn(lists, x) <= Turn(cuts, x)
    BY <1>6
  <2>1. PICK i \in Listing(cuts, x) : Turn(cuts, x) = Position(cuts[i], x) * Len(cuts) + i
    BY <1>1, TurnOf
  <2>2. x \in A /\ i \in Listing(lists, x) /\ Position(cuts[i], x) = Position(lists[i], x)
    BY <1>5
  <2>3. Turn(lists, x) <= Position(lists[i], x) * Len(lists) + i
    BY <2>2, TurnOf
  <2> QED
    BY <1>1, <2>1, <2>2, <2>3
<1>8. ASSUME NEW k \in 1..Len(L), k <= m
      PROVE  L[k] \in B /\ tb[L[k]] = ta[L[k]]
  <2> DEFINE x == L[k]
  <2>1. x \in A
    BY <1>3 DEF ByKey, Distinct
  <2>2. PICK i \in Listing(lists, x) : Turn(lists, x) = Position(lists[i], x) * Len(lists) + i
    BY <2>1, TurnOf
  <2>3. Position(lists[i], x) < m
    BY <1>8, <2>2, FirstOfEach
  <2>4. i \in 1..n /\ x \in Range(lists[i])
    BY <2>1, ItemsOf
  <2>5. x \in Range(Cut(lists[i], m)) /\ Position(Cut(lists[i], m), x) = Position(lists[i], x)
    BY <1>2, <2>3, <2>4, CutDistinct
  <2>6. x \in B /\ i \in Listing(cuts, x)
    BY <1>1, <1>2, <2>4, <2>5 DEF Items, Listing
  <2>7. Turn(cuts, x) <= Position(cuts[i], x) * Len(cuts) + i
    BY <1>1, <2>6, TurnOf
  <2>8. tb[x] <= ta[x] /\ ta[x] <= tb[x] /\ tb[x] \in Nat /\ ta[x] \in Nat
    <3>1. tb[x] = Turn(cuts, x) /\ ta[x] = Turn(lists, x)
      BY <2>1, <2>6
    <3>2. tb[x] <= ta[x]
      BY <1>1, <2>2, <2>4, <2>5, <2>7, <3>1
    <3> QED
      BY <1>3, <1>7, <2>1, <2>6, <3>2
  <2> HIDE DEF x, ta, tb
  <2>9. tb[x] = ta[x]
    BY <2>8
  <2> QED
    BY <2>6, <2>9 DEF x
<1> HIDE DEF A, B, ta, tb, L, M
<1>9. Cut(L, m) = Cut(M, m)
  BY <1>3, <1>6, <1>7, <1>8, SamePrefix
<1> QED
  BY <1>9 DEF L, M, cuts

-----------------------------------------------------------------------------
(* Reciprocal rank.                                                        *)

LEMMA DivisionExact ==
  ASSUME NEW u \in Nat, NEW a \in Nat \ {0}, u % a = 0
  PROVE  u \div a \in Nat /\ u = a * (u \div a)
<1>1. u \div a \in Int /\ u = a * (u \div a) + (u % a)
  OBVIOUS
<1>2. u \div a >= 0
  OBVIOUS
<1> QED
  BY <1>1, <1>2

LEMMA ShareFalls ==
  ASSUME RetrievalConstantsOK, NEW p \in Nat, NEW q \in Nat, p < q, q < MaxChunks
  PROVE  Unit \div (RRF_K + q) < Unit \div (RRF_K + p)
<1>1. /\ Unit \in Nat /\ Unit # 0 /\ RRF_K \in Nat /\ RRF_K # 0 /\ MaxChunks \in Nat
      /\ \A position \in 0..(MaxChunks - 1) : Unit % (RRF_K + position) = 0
  BY DEF RetrievalConstantsOK
<1>2. PICK a, b \in Nat : a = RRF_K + p /\ b = RRF_K + q
  BY <1>1
<1>3. a # 0 /\ b # 0 /\ a < b /\ Unit % a = 0 /\ Unit % b = 0
  <2>1. p \in 0..(MaxChunks - 1) /\ q \in 0..(MaxChunks - 1)
    BY <1>1
  <2> QED
    BY <1>1, <1>2, <2>1
<1>4. PICK s \in Nat : s = Unit \div a /\ Unit = a * s
  BY <1>1, <1>3, DivisionExact
<1>5. PICK t \in Nat : t = Unit \div b /\ Unit = b * t
  BY <1>1, <1>3, DivisionExact
<1>6. t < s
  <2>1. SUFFICES ASSUME s <= t PROVE FALSE
    OBVIOUS
  <2>2. PICK d \in Nat : t = s + d
    <3>1. t - s \in Nat /\ t = s + (t - s)
      BY <2>1
    <3> QED
      BY <3>1
  <2>3. PICK e \in Nat : b = a + e /\ e # 0
    <3>1. b - a \in Nat /\ b = a + (b - a) /\ b - a # 0
      BY <1>3
    <3> QED
      BY <3>1
  <2>4. b * t = a * s + a * d + e * s + e * d /\ a * d \in Nat /\ e * s \in Nat /\ e * d \in Nat /\ a * s \in Nat
    BY <2>2, <2>3
  <2>5. e * s = 0
    <3>1. PICK w, x, y, z \in Nat : w = a * s /\ x = a * d /\ y = e * s /\ z = e * d
      BY <2>4
    <3>2. w + x + y + z = w
      BY <1>4, <1>5, <2>4, <3>1
    <3>3. y = 0
      BY <3>2
    <3> QED
      BY <3>1, <3>3
  <2>6. s # 0
    <3>1. s = 0 => a * s = 0
      OBVIOUS
    <3> QED
      BY <1>1, <1>4, <3>1
  <2> QED
    BY <2>3, <2>5, <2>6
<1> QED
  BY <1>2, <1>4, <1>5, <1>6

\* What one order gives a chunk.
Share(list, x) == IF x \in Range(list) THEN Unit \div (RRF_K + Position(list, x)) ELSE 0

LEMMA PositionBelow ==
  ASSUME RetrievalConstantsOK, NEW list, Distinct(list, 1..MaxChunks), NEW x \in Range(list)
  PROVE  Position(list, x) \in Nat /\ Position(list, x) < MaxChunks
<1>1. MaxChunks \in Nat
  BY DEF RetrievalConstantsOK
<1>2. Len(list) <= MaxChunks /\ Len(list) \in Nat
  <2>1. IsFiniteSet(1..MaxChunks) /\ Cardinality(1..MaxChunks) = MaxChunks
    BY <1>1, FS_Interval
  <2>2. Cardinality(Range(list)) = Len(list) /\ Range(list) \subseteq 1..MaxChunks
    BY DistinctCount
  <2>3. Cardinality(Range(list)) <= Cardinality(1..MaxChunks)
    BY <2>1, <2>2, FS_Subset
  <2>4. Len(list) \in Nat
    BY DEF Distinct
  <2> QED
    BY <2>1, <2>2, <2>3, <2>4
<1>3. Position(list, x) \in 0..(Len(list) - 1)
  BY PositionOf
<1> QED
  BY <1>1, <1>2, <1>3

LEMMA ShareType ==
  ASSUME RetrievalConstantsOK, NEW list, Distinct(list, 1..MaxChunks), NEW x
  PROVE  Share(list, x) \in Nat /\ (x \in Range(list) => 0 < Share(list, x))
<1>1. CASE x \notin Range(list)
  BY <1>1 DEF Share
<1>2. CASE x \in Range(list)
  <2>1. Position(list, x) \in Nat /\ Position(list, x) < MaxChunks
    BY <1>2, PositionBelow
  <2>2. /\ Unit \in Nat /\ Unit # 0 /\ RRF_K \in Nat /\ RRF_K # 0 /\ MaxChunks \in Nat
        /\ Unit % (RRF_K + Position(list, x)) = 0
    <3>1. MaxChunks \in Nat /\ \A position \in 0..(MaxChunks - 1) : Unit % (RRF_K + position) = 0
      BY DEF RetrievalConstantsOK
    <3>2. Position(list, x) \in 0..(MaxChunks - 1)
      BY <2>1, <3>1
    <3>3. Unit % (RRF_K + Position(list, x)) = 0
      BY <3>1, <3>2, Zenon
    <3> QED
      BY <3>1, <3>3 DEF RetrievalConstantsOK
  <2>3. PICK a \in Nat \ {0} : a = RRF_K + Position(list, x)
    BY <2>1, <2>2
  <2>4. Unit \div a \in Nat /\ Unit = a * (Unit \div a)
    BY <2>2, <2>3, DivisionExact
  <2>5. Unit \div a # 0
    BY <2>2, <2>4
  <2> QED
    BY <1>2, <2>3, <2>4, <2>5 DEF Share
<1> QED
  BY <1>1, <1>2

Shares(lists, x) == [i \in DOMAIN lists |-> Share(lists[i], x)]

LEMMA SharesOf ==
  ASSUME RetrievalConstantsOK, NEW lists, Lists(lists, 1..MaxChunks), NEW x
  PROVE  /\ Shares(lists, x) \in Seq(Nat) /\ Len(Shares(lists, x)) = Len(lists)
         /\ \A i \in 1..Len(lists) : Shares(lists, x)[i] = Share(lists[i], x)
         /\ Points(lists, x) = Sum(Shares(lists, x)) /\ Points(lists, x) \in Nat
<1> DEFINE n == Len(lists)
           s == Shares(lists, x)
<1>1. n \in Nat /\ DOMAIN lists = 1..n
  BY DEF Lists
<1>2. \A i \in 1..n : Share(lists[i], x) \in Nat
  BY ShareType DEF Lists
<1>3. s \in [1..n -> Nat] /\ \A i \in 1..n : s[i] = Share(lists[i], x)
  BY <1>1, <1>2 DEF Shares
<1>4. Points(lists, x) = Sum(s)
  BY DEF Points, Shares, Share
<1> HIDE DEF n, s
<1>5. s \in Seq(Nat) /\ Len(s) = n
  BY <1>1, <1>3
<1>6. Sum(s) \in Nat
  BY <1>5, SumOfPrefixes
<1> QED
  BY <1>3, <1>4, <1>5, <1>6 DEF n, s

\* Ahead in every order that has the other, ahead in points.
LEMMA PointsAhead ==
  ASSUME RetrievalConstantsOK, NEW lists, Lists(lists, 1..MaxChunks),
         NEW x \in Items(lists), NEW y \in Items(lists), x # y,
         \A q \in Listing(lists, y) : Before(lists[q], x, y)
  PROVE  Points(lists, y) < Points(lists, x)
<1> DEFINE n == Len(lists)
           s == Shares(lists, y)
           t == Shares(lists, x)
<1>1. n \in Nat /\ DOMAIN lists = 1..n /\ \A i \in 1..n : Distinct(lists[i], 1..MaxChunks)
  BY DEF Lists
<1>2. /\ s \in Seq(Nat) /\ Len(s) = n /\ \A i \in 1..n : s[i] = Share(lists[i], y)
      /\ t \in Seq(Nat) /\ Len(t) = n /\ \A i \in 1..n : t[i] = Share(lists[i], x)
      /\ Points(lists, y) = Sum(s) /\ Points(lists, x) = Sum(t)
  BY SharesOf
<1>3. ASSUME NEW i \in 1..n, y \in Range(lists[i])
      PROVE  Share(lists[i], y) < Share(lists[i], x)
  <2>1. i \in Listing(lists, y)
    BY <1>1, <1>3 DEF Listing
  <2>2. x \in Range(lists[i]) /\ Position(lists[i], x) < Position(lists[i], y)
    BY <1>3, <2>1 DEF Before
  <2>3. /\ Position(lists[i], x) \in Nat /\ Position(lists[i], y) \in Nat
        /\ Position(lists[i], y) < MaxChunks
    BY <1>1, <1>3, <2>2, PositionBelow
  <2>4. Unit \div (RRF_K + Position(lists[i], y)) < Unit \div (RRF_K + Position(lists[i], x))
    BY <2>2, <2>3, ShareFalls
  <2> QED
    BY <1>3, <2>2, <2>4 DEF Share
<1>4. ASSUME NEW i \in 1..n
      PROVE  s[i] <= t[i]
  <2>1. s[i] = Share(lists[i], y) /\ t[i] = Share(lists[i], x) /\ s[i] \in Nat /\ t[i] \in Nat
    BY <1>2
  <2>2. CASE y \in Range(lists[i])
    BY <1>3, <2>1, <2>2
  <2>3. CASE y \notin Range(lists[i])
    <3>1. Share(lists[i], y) = 0
      BY <2>3 DEF Share
    <3> QED
      BY <2>1, <3>1
  <2> QED
    BY <2>2, <2>3
<1>5. \E i \in 1..n : s[i] < t[i]
  <2>1. PICK i \in 1..n : y \in Range(lists[i])
    BY <1>1 DEF Items
  <2> QED
    BY <1>2, <1>3, <2>1
<1> HIDE DEF s, t, n
<1>6. Sum(s) < Sum(t)
  BY <1>2, <1>4, <1>5, SumMonotone
<1> QED
  BY <1>2, <1>6

\* reciprocal_rank_fusion gives each chunk once, by its points.
LEMMA ReciprocalRankOrder ==
  ASSUME RetrievalConstantsOK, NEW lists, Lists(lists, 1..MaxChunks)
  PROVE  LET L == ReciprocalRank(lists)
         IN /\ Distinct(L, Items(lists)) /\ Items(lists) = Range(L)
            /\ \A x, y \in Items(lists) :
                 Points(lists, y) < Points(lists, x) => Position(L, x) < Position(L, y)
<1> DEFINE A == Items(lists)
           key == [x \in A |-> Points(lists, x)]
           pairs == Keyings(A, key)
           R == {p \in pairs \X pairs : p[1][2] > p[2][2] \/ (p[1][2] = p[2][2] /\ p[1][1] < p[2][1])}
           l == InOrder(pairs, R)
           list == Firsts(l)
<1>0. MaxChunks \in Nat /\ IsFiniteSet(1..MaxChunks)
  BY FS_Interval DEF RetrievalConstantsOK
<1>1. IsFiniteSet(A) /\ A \subseteq 1..MaxChunks /\ key \in [A -> Nat]
  BY <1>0, ItemsOf, SharesOf
<1>2. ReciprocalRank(lists) = list
  <2>1. pairs = {<<x, Points(lists, x)>> : x \in Items(lists)}
    BY DEF Keyings
  <2> QED
    BY <2>1 DEF ReciprocalRank, Firsts
<1>3. \A x \in A : key[x] = Points(lists, x)
  OBVIOUS
<1> HIDE DEF A, key
<1>4. \A p \in pairs : p = <<p[1], p[2]>> /\ p[1] \in A /\ p[1] \in Nat /\ p[2] = key[p[1]] /\ p[2] \in Nat
  BY <1>0, <1>1 DEF Keyings
<1>5. \A p, q \in pairs : <<p, q>> \in R <=> q[2] < p[2] \/ (p[2] = q[2] /\ p[1] < q[1])
  BY <1>4
<1> HIDE DEF pairs, R
<1>6. Sorts(R, pairs)
  <2>1. \A p \in pairs : <<p, p>> \notin R
    BY <1>4, <1>5
  <2>2. \A p, q, r \in pairs : <<p, q>> \in R /\ <<q, r>> \in R => <<p, r>> \in R
    BY <1>4, <1>5
  <2>3. \A p, q \in pairs : p # q => <<p, q>> \in R \/ <<q, p>> \in R
    <3> SUFFICES ASSUME NEW p \in pairs, NEW q \in pairs, p # q
                 PROVE  <<p, q>> \in R \/ <<q, p>> \in R
      OBVIOUS
    <3>1. p[1] # q[1]
      BY <1>4
    <3>2. p[1] \in Nat /\ q[1] \in Nat /\ p[2] \in Nat /\ q[2] \in Nat
      BY <1>4
    <3> QED
      BY <1>5, <3>1, <3>2
  <2> QED
    BY <2>1, <2>2, <2>3 DEF Sorts
<1> HIDE DEF l, list
<1>7. /\ Distinct(list, A) /\ A = Range(list) /\ Len(list) = Cardinality(A)
      /\ \A j, k \in 1..Len(list) : <<<<list[j], key[list[j]]>>, <<list[k], key[list[k]]>>>> \in R <=> j < k
  <2>1. pairs = Keyings(A, key) /\ l = InOrder(pairs, R) /\ list = Firsts(l)
    BY DEF pairs, l, list
  <2>2. IsFiniteSet(A) /\ key \in [A -> Nat]
    BY <1>1
  <2> QED
    BY <1>6, <2>1, <2>2, PairsInOrder
<1>8. ASSUME NEW x \in A, NEW y \in A, key[y] < key[x]
      PROVE  Position(list, x) < Position(list, y)
  <2> DEFINE p == Position(list, x)
             q == Position(list, y)
  <2>1. p \in 0..(Len(list) - 1) /\ list[p + 1] = x
    BY <1>7, PositionOf
  <2>2. q \in 0..(Len(list) - 1) /\ list[q + 1] = y
    BY <1>7, PositionOf
  <2> HIDE DEF p, q
  <2>3. <<x, key[x]>> \in pairs /\ <<y, key[y]>> \in pairs
    BY DEF pairs, Keyings
  <2>4. <<<<x, key[x]>>, <<y, key[y]>>>> \in R
    BY <1>5, <1>8, <2>3
  <2>5. p + 1 \in 1..Len(list) /\ q + 1 \in 1..Len(list)
    BY <1>7, <2>1, <2>2 DEF Distinct
  <2>6. p + 1 < q + 1
    BY <1>7, <2>1, <2>2, <2>4, <2>5
  <2> QED
    BY <2>1, <2>2, <2>6 DEF p, q
<1> QED
  BY <1>2, <1>3, <1>7, <1>8 DEF A

LEMMA CutWhole ==
  ASSUME NEW T, NEW list \in Seq(T), NEW n \in Nat, Len(list) <= n
  PROVE  Cut(list, n) = list
<1> DEFINE c == Cut(list, n)
<1>1. Len(list) \in Nat
  OBVIOUS
<1>2. c \in Seq(T) /\ Len(c) = Len(list) /\ \A i \in 1..Len(c) : c[i] = list[i]
  BY <1>1, CutOf
<1> HIDE DEF c
<1>3. c = list
  BY <1>2, SameList
<1> QED
  BY <1>3 DEF c

LEMMA PlaceOf ==
  ASSUME NEW T, NEW list, Distinct(list, T), NEW k \in 1..Len(list)
  PROVE  list[k] \in Range(list) /\ Position(list, list[k]) = k - 1
<1>1. list[k] \in Range(list)
  BY DEF Range, Distinct
<1> QED
  BY <1>1, PositionOf

\* The fusion of one order is that order.
LEMMA RankOfOne ==
  ASSUME RetrievalConstantsOK, NEW v, Distinct(v, 1..MaxChunks)
  PROVE  ReciprocalRank(<<v>>) = v
<1> DEFINE lists == <<v>>
           A == Range(v)
           L == ReciprocalRank(lists)
           key == [x \in A |-> Position(v, x)]
<1>1. Lists(lists, 1..MaxChunks) /\ Items(lists) = A /\ \A x \in A : Listing(lists, x) = {1}
  <2>1. Len(lists) = 1 /\ DOMAIN lists = 1..1 /\ lists[1] = v /\ 1..1 = {1}
    OBVIOUS
  <2> HIDE DEF lists
  <2>2. \A i \in 1..Len(lists) : lists[i] = v
    BY <2>1
  <2> QED
    BY <2>1, <2>2 DEF Lists, Items, Listing
<1>2. Distinct(L, A) /\ A = Range(L)
  BY <1>1, ReciprocalRankOrder
<1>3. \A x \in A : Position(v, x) \in Nat
  <2> SUFFICES ASSUME NEW x \in A
               PROVE  Position(v, x) \in Nat
    OBVIOUS
  <2>1. Position(v, x) \in 0..(Len(v) - 1)
    BY PositionOf
  <2> QED
    BY <2>1
<1>4. ASSUME NEW x \in A, NEW y \in A, Position(v, x) < Position(v, y)
      PROVE  Position(L, x) < Position(L, y)
  <2>1. x # y /\ lists[1] = v
    BY <1>3, <1>4
  <2>2. \A q \in Listing(lists, y) : Before(lists[q], x, y)
    BY <1>1, <1>4, <2>1 DEF Before
  <2>3. Points(lists, y) < Points(lists, x)
    <3> HIDE DEF lists
    <3> QED
      BY <1>1, <2>1, <2>2, PointsAhead
  <2> QED
    BY <1>1, <2>3, ReciprocalRankOrder
<1> HIDE DEF L, lists
<1>5. Distinct(v, A)
  BY DistinctCount DEF Distinct, Range
<1>6. ByKey(v, A, key)
  <2>1. \A k \in 1..Len(v) : v[k] \in A /\ key[v[k]] = k - 1 /\ k \in Nat
    BY PlaceOf DEF Distinct
  <2>2. \A j, k \in 1..Len(v) : j < k => key[v[j]] < key[v[k]]
    <3> HIDE DEF key
    <3> QED
      BY <2>1
  <2> QED
    BY <1>5, <2>2 DEF ByKey
<1>7. ByKey(L, A, key)
  <2>1. \A k \in 1..Len(L) : L[k] \in A /\ Position(L, L[k]) = k - 1 /\ k \in Nat
    <3>1. \A k \in 1..Len(L) : L[k] \in Range(L) /\ Position(L, L[k]) = k - 1
      BY <1>2, PlaceOf
    <3>2. Len(L) \in Nat
      BY <1>2 DEF Distinct
    <3> HIDE DEF A
    <3> QED
      BY <1>2, <3>1, <3>2
  <2>2. ASSUME NEW j \in 1..Len(L), NEW k \in 1..Len(L), j < k
        PROVE  key[L[j]] < key[L[k]]
    <3>1. ~ (Position(v, L[k]) < Position(v, L[j]))
      BY <1>4, <2>1, <2>2
    <3>2. Position(v, L[k]) # Position(v, L[j])
      <4>1. L[k] # L[j]
        BY <1>2, <2>2, <2>1 DEF Distinct
      <4>2. v[Position(v, L[k]) + 1] = L[k] /\ v[Position(v, L[j]) + 1] = L[j]
        BY <2>1, PositionOf
      <4> QED
        BY <4>1, <4>2
    <3>3. Position(v, L[j]) < Position(v, L[k])
      BY <1>3, <2>1, <3>1, <3>2
    <3> QED
      BY <2>1, <3>3
  <2> QED
    BY <1>2, <2>2 DEF ByKey
<1>8. IsFiniteSet(A) /\ key \in [A -> Nat] /\ Len(v) \in Nat /\ Len(L) = Len(v) /\ v \in Seq(1..MaxChunks) /\ L \in Seq(A)
  <2>1. Len(v) \in Nat /\ v \in Seq(1..MaxChunks) /\ L \in Seq(A)
    BY <1>2 DEF Distinct
  <2>2. IsFiniteSet(A) /\ Cardinality(A) = Len(v) /\ Cardinality(A) = Len(L)
    BY <1>2, DistinctCount
  <2> QED
    BY <1>3, <2>1, <2>2
<1>9. Cut(v, Len(v)) = Cut(L, Len(v))
  <2>1. \A k \in 1..Len(v) : k <= Len(v) => v[k] \in A
    BY PlaceOf
  <2>2. \A x \in A : key[x] <= key[x]
    BY <1>3
  <2> HIDE DEF A, key
  <2> QED
    BY <1>6, <1>7, <1>8, <2>1, <2>2, SamePrefix
<1>10. Cut(v, Len(v)) = v /\ Cut(L, Len(v)) = L
  <2>1. Len(v) <= Len(v) /\ Len(L) <= Len(v)
    BY <1>8
  <2> HIDE DEF A
  <2> QED
    BY <1>8, <2>1, CutWhole
<1> QED
  BY <1>9, <1>10 DEF L, lists

-----------------------------------------------------------------------------
(* What the searches of a request found, and its orders.                   *)

IdRange == 1..MaxChunks
Chunks == Collections \X IdRange

\* Lists without repetitions, of chunks that meet the filters.
HitOK(c, h) ==
  /\ Distinct(h.vector, IdRange) /\ Distinct(h.lexical, IdRange)
  /\ \A x \in Range(h.vector) \cup Range(h.lexical) : Passes(c, x)

Planned ==
  /\ targets \in Seq(Collections) /\ Len(targets) \in Nat /\ DOMAIN targets = 1..Len(targets)
  /\ Distinct(targets, Collections) /\ Len(targets) # 0
  /\ subqueries \in Nat /\ subqueries # 0

Found(n) == \A t \in 1..n, q \in 1..subqueries : HitOK(targets[t], hits[t][q])

SearchesDone == Planned /\ Found(Len(targets))

LEMMA ChunksFinite ==
  ASSUME RetrievalConstantsOK
  PROVE  IsFiniteSet(IdRange) /\ IsFiniteSet(Chunks) /\ IsFiniteSet(Collections) /\ MaxChunks \in Nat
<1>1. MaxChunks \in Nat /\ IsFiniteSet(IdRange)
  BY FS_Interval DEF RetrievalConstantsOK, IdRange
<1>2. Distinct(Registry, Collections)
  BY DEF RetrievalConstantsOK, Distinct, IsInjective
<1>3. IsFiniteSet(Collections)
  <2>1. IsFiniteSet(Range(Registry))
    BY <1>2, DistinctCount
  <2> QED
    BY <2>1 DEF Collections
<1> QED
  BY <1>1, <1>3, FS_Product DEF Chunks

LEMMA FusedOf ==
  ASSUME RetrievalConstantsOK, NEW c, NEW h, HitOK(c, h), NEW limit \in Nat
  PROVE  /\ Distinct(FusedOrder(h, limit), IdRange)
         /\ \A x \in Range(FusedOrder(h, limit)) : Passes(c, x)
<1> DEFINE v == Cut(h.vector, limit)
           lists == <<v, h.lexical>>
           L == ReciprocalRank(lists)
<1>1. Distinct(v, IdRange) /\ Range(v) \subseteq Range(h.vector)
  BY CutDistinct DEF HitOK
<1>2. CASE ~ stages.hybrid
  BY <1>1, <1>2 DEF FusedOrder, HitOK
<1>3. CASE stages.hybrid
  <2>1. Lists(lists, IdRange) /\ Items(lists) = Range(v) \cup Range(h.lexical)
    <3>1. Len(lists) = 2 /\ DOMAIN lists = 1..2 /\ lists[1] = v /\ lists[2] = h.lexical /\ 1..2 = {1, 2}
      OBVIOUS
    <3> HIDE DEF lists, v
    <3> QED
      BY <1>1, <3>1 DEF Lists, Items, HitOK
  <2> HIDE DEF lists, v
  <2>2. Distinct(L, Items(lists)) /\ Items(lists) = Range(L)
    BY <2>1, ReciprocalRankOrder DEF IdRange
  <2>3. Items(lists) \subseteq IdRange
    BY <2>1, ChunksFinite, ItemsOf
  <2> HIDE DEF L
  <2>4. Distinct(L, IdRange)
    BY <2>2, <2>3 DEF Distinct
  <2>5. \A x \in Range(L) : Passes(c, x)
    BY <1>1, <2>1, <2>2 DEF HitOK
  <2>6. FusedOrder(h, limit) = L
    BY <1>3 DEF FusedOrder, L, lists, v
  <2> QED
    BY <2>4, <2>5, <2>6
<1> QED
  BY <1>2, <1>3

LEMMA OrdersOf ==
  ASSUME RetrievalConstantsOK, SearchesDone, NEW t \in 1..Len(targets), NEW limit \in Nat
  PROVE  LET orders == Orders(t, limit)
         IN /\ Lists(orders, IdRange) /\ Len(orders) = subqueries /\ orders \in Seq(Seq(IdRange))
            /\ \A q \in 1..subqueries : orders[q] = FusedOrder(hits[t][q], limit)
            /\ \A x \in Items(orders) : Passes(targets[t], x)
            /\ Items(orders) \subseteq IdRange /\ IsFiniteSet(Items(orders))
<1> DEFINE orders == Orders(t, limit)
           S == Seq(IdRange)
<1>1. subqueries \in Nat
  BY DEF SearchesDone, Planned
<1>2. \A q \in 1..subqueries :
        /\ Distinct(FusedOrder(hits[t][q], limit), IdRange)
        /\ \A x \in Range(FusedOrder(hits[t][q], limit)) : Passes(targets[t], x)
  <2> SUFFICES ASSUME NEW q \in 1..subqueries
               PROVE  /\ Distinct(FusedOrder(hits[t][q], limit), IdRange)
                      /\ \A x \in Range(FusedOrder(hits[t][q], limit)) : Passes(targets[t], x)
    OBVIOUS
  <2>1. HitOK(targets[t], hits[t][q])
    BY DEF SearchesDone, Found
  <2> QED
    BY <2>1, FusedOf
<1>3. \A q \in 1..subqueries : FusedOrder(hits[t][q], limit) \in S
  BY <1>2 DEF Distinct
<1>4. orders \in [1..subqueries -> S] /\ \A q \in 1..subqueries : orders[q] = FusedOrder(hits[t][q], limit)
  BY <1>3 DEF Orders
<1> HIDE DEF orders, S
<1>5. orders \in Seq(S) /\ Len(orders) = subqueries /\ DOMAIN orders = 1..subqueries
  BY <1>1, <1>4
<1>6. Lists(orders, IdRange)
  BY <1>1, <1>2, <1>4, <1>5 DEF Lists
<1>7. \A x \in Items(orders) : Passes(targets[t], x)
  BY <1>2, <1>4, <1>5 DEF Items
<1>8. Items(orders) \subseteq IdRange /\ IsFiniteSet(Items(orders))
  BY <1>6, ItemsOf, ChunksFinite
<1> QED
  BY <1>4, <1>5, <1>6, <1>7, <1>8 DEF orders, S

LEMMA FuseOf ==
  ASSUME RetrievalConstantsOK, SearchesDone, NEW t \in 1..Len(targets), NEW limit \in Nat
  PROVE  /\ Distinct(FuseCollection(t, limit), IdRange)
         /\ Range(FuseCollection(t, limit)) = Items(Orders(t, limit))
<1> DEFINE orders == Orders(t, limit)
           F == FuseCollection(t, limit)
<1>1. Lists(orders, IdRange) /\ Items(orders) \subseteq IdRange
  BY OrdersOf
<1> HIDE DEF orders
<1>2. CASE technique = "decompose"
  <2>1. F = RoundRobin(orders)
    BY <1>2 DEF FuseCollection, orders
  <2> HIDE DEF F
  <2>2. Distinct(F, Items(orders)) /\ Items(orders) = Range(F)
    BY <1>1, <2>1, ChunksFinite, RoundRobinOrder DEF ByKey
  <2> QED
    BY <1>1, <2>2 DEF Distinct, F, orders
<1>3. CASE technique # "decompose"
  <2>1. F = ReciprocalRank(orders)
    BY <1>3 DEF FuseCollection, orders
  <2> HIDE DEF F
  <2>2. Distinct(F, Items(orders)) /\ Items(orders) = Range(F)
    BY <1>1, <2>1, ReciprocalRankOrder DEF IdRange
  <2> QED
    BY <1>1, <2>2 DEF Distinct, F, orders
<1> QED
  BY <1>2, <1>3

CollectionOrders(limit) == [t \in DOMAIN targets |-> CollectionOrder(t, limit)]

LEMMA CollectionOrderOf ==
  ASSUME RetrievalConstantsOK, SearchesDone, NEW t \in 1..Len(targets), NEW limit \in Nat
  PROVE  LET O == CollectionOrder(t, limit)
             F == FuseCollection(t, limit)
         IN /\ Distinct(O, Chunks) /\ Len(O) = Len(F) /\ DOMAIN O = DOMAIN F
            /\ \A i \in 1..Len(F) : O[i] = <<targets[t], F[i]>>
            /\ Range(O) = {<<targets[t], x>> : x \in Items(Orders(t, limit))}
<1> DEFINE O == CollectionOrder(t, limit)
           F == FuseCollection(t, limit)
           c == targets[t]
<1>1. Distinct(F, IdRange) /\ Range(F) = Items(Orders(t, limit))
  BY FuseOf
<1>2. c \in Collections
  BY DEF SearchesDone, Planned
<1>3. O = [i \in DOMAIN F |-> <<c, F[i]>>]
  BY DEF CollectionOrder, Keyed
<1> HIDE DEF O, F, c
<1>4. Len(F) \in Nat /\ DOMAIN F = 1..Len(F) /\ \A i \in 1..Len(F) : F[i] \in IdRange
  BY <1>1 DEF Distinct
<1>5. O \in [1..Len(F) -> Chunks] /\ \A i \in 1..Len(F) : O[i] = <<c, F[i]>>
  BY <1>2, <1>3, <1>4 DEF Chunks
<1>6. O \in Seq(Chunks) /\ Len(O) = Len(F) /\ DOMAIN O = 1..Len(F)
  BY <1>4, <1>5
<1>7. Distinct(O, Chunks)
  <2>1. \A i, j \in 1..Len(F) : O[i] = O[j] => i = j
    BY <1>1, <1>5 DEF Distinct
  <2> QED
    BY <1>4, <1>5, <1>6, <2>1 DEF Distinct
<1>8. Range(O) = {<<c, x>> : x \in Items(Orders(t, limit))}
  <2>1. Range(O) = {<<c, x>> : x \in Range(F)}
    BY <1>4, <1>5, <1>6 DEF Range
  <2> QED
    BY <1>1, <2>1
<1> QED
  BY <1>4, <1>5, <1>6, <1>7, <1>8 DEF O, F, c

LEMMA CollectionOrdersOf ==
  ASSUME RetrievalConstantsOK, SearchesDone, NEW limit \in Nat
  PROVE  LET outer == CollectionOrders(limit)
         IN /\ Lists(outer, Chunks) /\ outer \in Seq(Seq(Chunks)) /\ Len(outer) = Len(targets)
            /\ \A t \in 1..Len(targets) : outer[t] = CollectionOrder(t, limit)
            /\ Merged(limit) = RoundRobin(outer)
<1> DEFINE outer == CollectionOrders(limit)
           S == Seq(Chunks)
           n == Len(targets)
<1>1. n \in Nat /\ DOMAIN targets = 1..n
  BY DEF SearchesDone, Planned
<1>2. \A t \in 1..n : Distinct(CollectionOrder(t, limit), Chunks)
  BY CollectionOrderOf
<1>3. \A t \in 1..n : CollectionOrder(t, limit) \in S
  BY <1>2 DEF Distinct
<1>4. outer \in [1..n -> S] /\ \A t \in 1..n : outer[t] = CollectionOrder(t, limit)
  BY <1>1, <1>3 DEF CollectionOrders
<1>5. Merged(limit) = RoundRobin(outer)
  BY DEF Merged, CollectionOrders
<1> HIDE DEF outer, S, n
<1>6. outer \in Seq(S) /\ Len(outer) = n /\ DOMAIN outer = 1..n
  BY <1>1, <1>4
<1>7. Lists(outer, Chunks)
  BY <1>1, <1>2, <1>4, <1>6 DEF Lists
<1> QED
  BY <1>4, <1>5, <1>6, <1>7 DEF outer, S, n

-----------------------------------------------------------------------------
(* What fusion keeps.                                                      *)

LEMMA ConsensusHolds ==
  ASSUME RetrievalConstantsOK, SearchesDone, Limit \in Nat
  PROVE  ConsensusKept
<1> SUFFICES ASSUME technique = "expand", NEW t \in 1..Len(targets),
                    NEW x \in Items(Orders(t, Limit)), NEW y \in Items(Orders(t, Limit)), x # y,
                    \A q \in Listing(Orders(t, Limit), y) : Before(Orders(t, Limit)[q], x, y)
             PROVE  Before(FuseCollection(t, Limit), x, y)
  <2>1. DOMAIN targets = 1..Len(targets)
    BY DEF SearchesDone, Planned
  <2> QED
    BY <2>1 DEF ConsensusKept
<1> DEFINE orders == Orders(t, Limit)
<1>1. Lists(orders, IdRange)
  BY OrdersOf
<1>2. FuseCollection(t, Limit) = ReciprocalRank(orders)
  BY DEF FuseCollection
<1> HIDE DEF orders
<1>3. Points(orders, y) < Points(orders, x)
  BY <1>1, PointsAhead DEF IdRange, orders
<1>4. /\ Items(orders) = Range(ReciprocalRank(orders))
      /\ Position(ReciprocalRank(orders), x) < Position(ReciprocalRank(orders), y)
  BY <1>1, <1>3, ReciprocalRankOrder DEF IdRange, orders
<1> QED
  BY <1>2, <1>4 DEF Before, orders

\* The first of an order is merged within one turn of all the orders.
LEMMA FirstInTurn ==
  ASSUME NEW T, IsFiniteSet(T), NEW lists, Lists(lists, T), NEW i \in 1..Len(lists),
         NEW x \in Range(lists[i])
  PROVE  /\ x \in Range(RoundRobin(lists)) /\ Position(RoundRobin(lists), x) \in Nat
         /\ Position(RoundRobin(lists), x) + 1 <= Position(lists[i], x) * Len(lists) + i
<1> DEFINE L == RoundRobin(lists)
           A == Items(lists)
           key == [y \in A |-> Turn(lists, y)]
           p == Position(L, x)
<1>1. DOMAIN lists = 1..Len(lists) /\ Distinct(lists[i], T)
  BY DEF Lists
<1>2. x \in A /\ i \in Listing(lists, x)
  BY <1>1 DEF Items, Listing
<1>3. key \in [A -> Nat] /\ ByKey(L, A, key)
  BY RoundRobinOrder
<1>4. \A y \in A : key[y] >= 1
  BY TurnOf
<1>5. x \in Range(L) /\ Distinct(L, A) /\ Len(L) \in Nat
  BY <1>2, <1>3 DEF ByKey, Distinct
<1>6. p \in 0..(Len(L) - 1) /\ L[p + 1] = x
  BY <1>5, PositionOf
<1>7. key[x] = Turn(lists, x) /\ Turn(lists, x) <= Position(lists[i], x) * Len(lists) + i /\ Turn(lists, x) \in Nat
  BY <1>2, TurnOf
<1> HIDE DEF L, A, key, p
<1>8. p + 1 <= key[x]
  <2>1. p + 1 \in 1..Len(L)
    BY <1>5, <1>6
  <2> QED
    BY <1>3, <1>4, <1>6, <2>1, KeyAtLeast
<1>9. Position(lists[i], x) * Len(lists) \in Nat /\ i \in Nat
  <2>1. Position(lists[i], x) \in 0..(Len(lists[i]) - 1) /\ Len(lists) \in Nat
    BY <1>1, PositionOf DEF Lists
  <2>2. PICK n, q \in Nat : n = Len(lists) /\ q = Position(lists[i], x)
    BY <2>1
  <2>3. q * n \in Nat
    OBVIOUS
  <2> QED
    BY <2>1, <2>2, <2>3
<1>10. p \in Nat /\ p + 1 <= Position(lists[i], x) * Len(lists) + i
  BY <1>5, <1>6, <1>7, <1>8, <1>9
<1> QED
  BY <1>5, <1>10 DEF L, p

LEMMA CoverageHolds ==
  ASSUME RetrievalConstantsOK, SearchesDone, Limit \in Nat
  PROVE  CoverageKept
<1> SUFFICES ASSUME technique = "decompose", NEW t \in 1..Len(targets), NEW q \in 1..subqueries,
                    FusedOrder(hits[t][q], Limit) # <<>>
             PROVE  Keyed(t, FusedOrder(hits[t][q], Limit)[1]) \in
                      Range(Cut(Merged(Limit), Len(targets) * subqueries))
  <2>1. DOMAIN targets = 1..Len(targets)
    BY DEF SearchesDone, Planned
  <2> QED
    BY <2>1 DEF CoverageKept
<1> DEFINE orders == Orders(t, Limit)
           order == FusedOrder(hits[t][q], Limit)
           x == order[1]
           F == RoundRobin(orders)
           outer == CollectionOrders(Limit)
           chunk == <<targets[t], x>>
           M == Merged(Limit)
           n == Len(targets)
           m == subqueries
<1>0. n \in Nat /\ m \in Nat /\ t \in 1..n /\ q \in 1..m
  BY DEF SearchesDone, Planned
<1>1. Lists(orders, IdRange) /\ Len(orders) = m /\ orders[q] = order
  BY OrdersOf
<1>2. Distinct(order, IdRange)
  BY <1>0, <1>1 DEF Lists
<1>3. x \in Range(order) /\ Position(order, x) = 0
  <2>1. order \in Seq(IdRange) /\ order # <<>> /\ Len(order) \in Nat
    BY <1>2 DEF Distinct
  <2> HIDE DEF order
  <2>2. 1 \in 1..Len(order)
    BY <2>1
  <2>3. order[1] \in Range(order) /\ Position(order, order[1]) = 1 - 1
    BY <1>2, <2>2, PlaceOf
  <2> QED
    BY <2>3
<1>4. x \in Range(F) /\ Position(F, x) \in Nat /\ Position(F, x) + 1 <= m
  <2> HIDE DEF orders, order, x, m, F
  <2>1. /\ x \in Range(F) /\ Position(F, x) \in Nat
        /\ Position(F, x) + 1 <= Position(order, x) * m + q
    BY <1>0, <1>1, <1>3, ChunksFinite, FirstInTurn DEF F
  <2>2. 0 * m = 0
    BY <1>0
  <2> QED
    BY <1>0, <1>3, <2>1, <2>2
<1>5. FuseCollection(t, Limit) = F
  BY DEF FuseCollection
<1>6. /\ Distinct(F, IdRange)
      /\ Distinct(CollectionOrder(t, Limit), Chunks) /\ Len(CollectionOrder(t, Limit)) = Len(F)
      /\ \A i \in 1..Len(F) : CollectionOrder(t, Limit)[i] = <<targets[t], F[i]>>
  BY <1>5, FuseOf, CollectionOrderOf
<1>7. /\ chunk \in Range(CollectionOrder(t, Limit))
      /\ Position(CollectionOrder(t, Limit), chunk) = Position(F, x)
  <2> DEFINE O == CollectionOrder(t, Limit)
             p == Position(F, x)
  <2> HIDE DEF F, O, x
  <2>1. p \in 0..(Len(F) - 1) /\ F[p + 1] = x /\ Len(F) \in Nat
    BY <1>4, <1>6, PositionOf DEF Distinct
  <2> HIDE DEF p
  <2>2. p + 1 \in 1..Len(F)
    BY <2>1
  <2>3. O[p + 1] = chunk /\ p + 1 \in 1..Len(O)
    BY <1>6, <2>1, <2>2 DEF O
  <2>4. O[p + 1] \in Range(O) /\ Position(O, O[p + 1]) = (p + 1) - 1
    <3> HIDE DEF chunk
    <3> QED
      BY <1>6, <2>3, PlaceOf DEF O
  <2>5. chunk \in Range(O) /\ Position(O, chunk) = p
    BY <2>1, <2>3, <2>4
  <2> QED
    BY <2>5 DEF O, p
<1>8. /\ Lists(outer, Chunks) /\ Len(outer) = n /\ outer[t] = CollectionOrder(t, Limit)
      /\ M = RoundRobin(outer)
  BY CollectionOrdersOf
<1> HIDE DEF F, x, outer, M, chunk, order, orders
<1>9. /\ chunk \in Range(M) /\ Position(M, chunk) \in Nat
      /\ Position(M, chunk) + 1 <= Position(F, x) * n + t
  BY <1>0, <1>7, <1>8, ChunksFinite, FirstInTurn
<1>10. Position(M, chunk) < n * m
  <2>1. PICK p, r \in Nat : p = Position(F, x) /\ r = Position(M, chunk)
    BY <1>4, <1>9
  <2> HIDE DEF n, m
  <2>2. p < m /\ r + 1 <= p * n + t
    BY <1>0, <1>4, <1>9, <2>1
  <2>3. p * n + n <= m * n /\ m * n = n * m /\ p * n \in Nat /\ m * n \in Nat
    BY <1>0, <2>2, ColumnsApart
  <2>4. r < n * m
    BY <1>0, <2>2, <2>3
  <2> QED
    BY <2>1, <2>4
<1>11. Distinct(M, Items(outer))
  BY <1>8, ChunksFinite, RoundRobinOrder DEF ByKey
<1>12. chunk \in Range(Cut(M, n * m))
  <2>1. n * m \in Nat
    BY <1>0
  <2> HIDE DEF n, m
  <2> QED
    BY <1>9, <1>10, <1>11, <2>1, CutDistinct
<1> QED
  BY <1>12 DEF M, chunk, x, order, Keyed

\* The elements of sets that share none, counted.
LEMMA DisjointUnion ==
  ASSUME NEW n \in Nat, NEW S, DOMAIN S = 1..n, \A i \in 1..n : IsFiniteSet(S[i]),
         \A i, j \in 1..n : i # j => S[i] \cap S[j] = {},
         NEW s \in Seq(Nat), Len(s) = n, \A i \in 1..n : s[i] = Cardinality(S[i])
  PROVE  Cardinality(UNION {S[i] : i \in 1..n}) = Sum(s)
<1> DEFINE U(k) == UNION {S[i] : i \in 1..k}
           f == SumTo(s)
           P == {k \in 0..n : IsFiniteSet(U(k)) /\ Cardinality(U(k)) = f[k]}
<1>1. Adds(f, s, n) /\ Sum(s) = f[n]
  BY SumOfPrefixes
<1> HIDE DEF f
<1>2. 0 \in P
  <2>1. U(0) = {}
    OBVIOUS
  <2>2. f[0] = 0
    BY <1>1 DEF Adds
  <2>3. IsFiniteSet(U(0)) /\ Cardinality(U(0)) = 0
    <3> HIDE DEF U
    <3> QED
      BY <2>1, FS_EmptySet
  <2> HIDE DEF U
  <2> QED
    BY <2>2, <2>3
<1>3. ASSUME NEW k \in 0..(n - 1), k \in P
      PROVE  k + 1 \in P
  <2>1. k + 1 \in 1..n /\ k + 1 \in 0..n /\ 1..(k + 1) = (1..k) \cup {k + 1} /\ 1..k \subseteq 1..n
    OBVIOUS
  <2>2. U(k + 1) = U(k) \cup S[k + 1]
    BY <2>1
  <2>3. U(k) \cap S[k + 1] = {}
    <3> SUFFICES ASSUME NEW i \in 1..k
                 PROVE  S[i] \cap S[k + 1] = {}
      OBVIOUS
    <3>1. i \in 1..n /\ i # k + 1
      BY <2>1
    <3> QED
      BY <2>1, <3>1
  <2>4. IsFiniteSet(U(k)) /\ Cardinality(U(k)) = f[k]
    BY <1>3
  <2>5. IsFiniteSet(S[k + 1]) /\ s[k + 1] = Cardinality(S[k + 1]) /\ s[k + 1] \in Nat
    BY <2>1
  <2>6. f[k + 1] = f[k] + s[k + 1]
    <3>1. (k + 1) - 1 = k
      OBVIOUS
    <3> QED
      BY <1>1, <2>1, <3>1 DEF Adds
  <2> DEFINE V == U(k)
             W == U(k + 1)
  <2>7. IsFiniteSet(W) /\ Cardinality(W) = f[k] + s[k + 1]
    <3>1. V \cap S[k + 1] = {} /\ W = V \cup S[k + 1] /\ IsFiniteSet(V) /\ Cardinality(V) = f[k]
      BY <2>2, <2>3, <2>4
    <3> HIDE DEF V, W, U
    <3>2. /\ IsFiniteSet(W)
          /\ Cardinality(W) = Cardinality(V) + Cardinality(S[k + 1]) - Cardinality(V \cap S[k + 1])
      BY <2>5, <3>1, FS_Union
    <3>3. Cardinality(V \cap S[k + 1]) = 0 /\ Cardinality(V) \in Nat
      BY <3>1, FS_EmptySet, FS_CardinalityType
    <3> QED
      BY <2>5, <3>1, <3>2, <3>3
  <2> HIDE DEF U
  <2> QED
    BY <2>1, <2>6, <2>7
<1>4. \A k \in 0..n : k \in P
  <2> HIDE DEF P
  <2> QED
    BY <1>2, <1>3, Reaches
<1>5. Cardinality(U(n)) = f[n]
  <2>1. n \in P
    <3> HIDE DEF P
    <3> QED
      BY <1>4
  <2> HIDE DEF U
  <2> QED
    BY <2>1
<1> QED
  BY <1>1, <1>5

LEMMA NothingLost ==
  ASSUME RetrievalConstantsOK, SearchesDone, NEW limit \in Nat
  PROVE  Len(Merged(limit)) = Sum([t \in DOMAIN targets |-> Cardinality(Items(Orders(t, limit)))])
<1> DEFINE outer == CollectionOrders(limit)
           n == Len(targets)
           I(t) == Items(Orders(t, limit))
           S == [t \in 1..n |-> Range(outer[t])]
           s == [t \in DOMAIN targets |-> Cardinality(I(t))]
           M == Merged(limit)
<1>0. n \in Nat /\ DOMAIN targets = 1..n /\ Distinct(targets, Collections)
  BY DEF SearchesDone, Planned
<1>1. /\ Lists(outer, Chunks) /\ Len(outer) = n /\ M = RoundRobin(outer)
      /\ \A t \in 1..n : outer[t] = CollectionOrder(t, limit)
  BY CollectionOrdersOf
<1> HIDE DEF outer, M
<1>2. Distinct(M, Items(outer)) /\ Items(outer) = Range(M)
  BY <1>1, ChunksFinite, RoundRobinOrder DEF ByKey
<1>3. Len(M) = Cardinality(Items(outer))
  BY <1>2, DistinctCount
<1>4. DOMAIN outer = 1..n /\ \A t \in 1..n : Distinct(outer[t], Chunks)
  BY <1>1 DEF Lists
<1>5. Items(outer) = UNION {S[t] : t \in 1..n}
  BY <1>4 DEF Items
<1>6. ASSUME NEW t \in 1..n
      PROVE  /\ S[t] = {<<targets[t], x>> : x \in I(t)} /\ IsFiniteSet(S[t])
             /\ Cardinality(S[t]) = Cardinality(I(t)) /\ Cardinality(I(t)) \in Nat
  <2>1. Range(outer[t]) = {<<targets[t], x>> : x \in I(t)} /\ Len(outer[t]) = Len(FuseCollection(t, limit))
    BY <1>1, CollectionOrderOf
  <2>2. Cardinality(Range(outer[t])) = Len(outer[t]) /\ IsFiniteSet(Range(outer[t]))
    BY <1>4, DistinctCount
  <2>3. Cardinality(I(t)) = Len(FuseCollection(t, limit)) /\ Len(FuseCollection(t, limit)) \in Nat
    <3>1. Distinct(FuseCollection(t, limit), IdRange) /\ Range(FuseCollection(t, limit)) = I(t)
      BY FuseOf
    <3> HIDE DEF I
    <3> QED
      BY <3>1, DistinctCount DEF Distinct
  <2> HIDE DEF I
  <2> QED
    BY <2>1, <2>2, <2>3
<1>7. \A i, j \in 1..n : i # j => S[i] \cap S[j] = {}
  <2> SUFFICES ASSUME NEW i \in 1..n, NEW j \in 1..n, i # j
               PROVE  S[i] \cap S[j] = {}
    OBVIOUS
  <2>1. targets[i] # targets[j]
    BY <1>0 DEF Distinct
  <2>2. S[i] = {<<targets[i], x>> : x \in I(i)} /\ S[j] = {<<targets[j], x>> : x \in I(j)}
    BY <1>6
  <2> HIDE DEF S, I
  <2> QED
    BY <2>1, <2>2
<1>8. s \in Seq(Nat) /\ Len(s) = n /\ \A t \in 1..n : s[t] = Cardinality(S[t])
  <2>1. s \in [1..n -> Nat] /\ \A t \in 1..n : s[t] = Cardinality(S[t])
    BY <1>0, <1>6
  <2> HIDE DEF s, n, S
  <2> QED
    BY <1>0, <2>1
<1>9. Cardinality(UNION {S[t] : t \in 1..n}) = Sum(s)
  <2>1. DOMAIN S = 1..n /\ \A t \in 1..n : IsFiniteSet(S[t])
    BY <1>6
  <2> HIDE DEF S, s, n
  <2> QED
    BY <1>0, <1>7, <1>8, <2>1, DisjointUnion
<1> QED
  BY <1>3, <1>5, <1>9 DEF M

LEMMA FiltersMet ==
  ASSUME RetrievalConstantsOK, SearchesDone, NEW limit \in Nat, filters \in SUBSET Axes,
         NEW chunk \in Range(Merged(limit))
  PROVE  filters \cap (IF endpoint = "advanced" THEN Understood[chunk[1]] ELSE Axes) \subseteq Fits[chunk]
<1> DEFINE outer == CollectionOrders(limit)
           M == Merged(limit)
<1>1. /\ Lists(outer, Chunks) /\ Len(outer) = Len(targets) /\ M = RoundRobin(outer)
      /\ \A t \in 1..Len(targets) : outer[t] = CollectionOrder(t, limit)
  BY CollectionOrdersOf
<1> HIDE DEF outer, M
<1>2. Items(outer) = Range(M)
  BY <1>1, ChunksFinite, RoundRobinOrder DEF ByKey
<1>3. PICK t \in 1..Len(targets) : chunk \in Range(CollectionOrder(t, limit))
  BY <1>1, <1>2 DEF M, Items, Lists
<1>4. PICK x \in Items(Orders(t, limit)) : chunk = <<targets[t], x>>
  BY CollectionOrderOf, <1>3
<1>5. Passes(targets[t], x)
  BY OrdersOf
<1> QED
  BY <1>4, <1>5 DEF Passes, HardFilterClauses, StructuralFilters

LEMMA FusionHolds ==
  ASSUME RetrievalConstantsOK, phase = "searched" => SearchesDone, Limit \in Nat, filters \in SUBSET Axes
  PROVE  FusionSound
<1> SUFFICES ASSUME phase = "searched"
             PROVE  FusionSound
  BY DEF FusionSound
<1>1. ConsensusKept /\ CoverageKept
  BY ConsensusHolds, CoverageHolds
<1>2. Len(Merged(Limit)) = Sum([t \in DOMAIN targets |-> Cardinality(Items(Orders(t, Limit)))])
  BY NothingLost
<1>3. \A chunk \in Range(Merged(Limit)) :
        filters \cap (IF endpoint = "advanced" THEN Understood[chunk[1]] ELSE Axes) \subseteq Fits[chunk]
  BY FiltersMet
<1> QED
  BY <1>1, <1>2, <1>3 DEF FusionSound

-----------------------------------------------------------------------------
(* How many rows a search has to recall.                                   *)

LEMMA CutTwice ==
  ASSUME NEW T, NEW list \in Seq(T), NEW m \in Nat, NEW n \in Nat
  PROVE  Cut(Cut(list, n), m) = Cut(list, IF m <= n THEN m ELSE n)
<1>1. CASE m <= n
  BY <1>1, CutAgain
<1>2. CASE ~ (m <= n)
  <2> DEFINE c == Cut(list, n)
  <2>1. c \in Seq(T) /\ Len(c) = (IF n <= Len(list) THEN n ELSE Len(list)) /\ Len(list) \in Nat
    BY CutOf
  <2> HIDE DEF c
  <2>2. Len(c) <= m
    BY <1>2, <2>1
  <2>3. Cut(c, m) = c
    BY <2>1, <2>2, CutWhole
  <2> QED
    BY <1>2, <2>3 DEF c
<1> QED
  BY <1>1, <1>2

\* What a plan may ask, where no later stage orders the rows again.
OrderFinal == ~ stages.hybrid /\ (technique # "decompose" => subqueries = 1)

LEMMA FuseCollectionCut ==
  ASSUME RetrievalConstantsOK, SearchesDone, OrderFinal, NEW t \in 1..Len(targets),
         NEW l \in Nat, NEW m \in Nat, m <= l
  PROVE  Cut(FuseCollection(t, l), m) = Cut(FuseCollection(t, m), m)
<1> DEFINE wide == Orders(t, l)
           narrow == Orders(t, m)
           v(q) == hits[t][q].vector
<1>1. /\ Lists(wide, IdRange) /\ Len(wide) = subqueries /\ wide \in Seq(Seq(IdRange))
      /\ \A q \in 1..subqueries : wide[q] = FusedOrder(hits[t][q], l)
  BY OrdersOf
<1>2. /\ Lists(narrow, IdRange) /\ Len(narrow) = subqueries /\ narrow \in Seq(Seq(IdRange))
      /\ \A q \in 1..subqueries : narrow[q] = FusedOrder(hits[t][q], m)
  BY OrdersOf
<1> HIDE DEF wide, narrow
<1>3. \A q \in 1..subqueries : v(q) \in Seq(IdRange) /\ wide[q] = Cut(v(q), l) /\ narrow[q] = Cut(v(q), m)
  <2>1. \A q \in 1..subqueries : HitOK(targets[t], hits[t][q])
    BY DEF SearchesDone, Found
  <2>2. \A q \in 1..subqueries : v(q) \in Seq(IdRange)
    BY <2>1 DEF HitOK, Distinct
  <2> QED
    BY <1>1, <1>2, <2>2 DEF OrderFinal, FusedOrder
<1>4. \A q \in 1..subqueries : Cut(wide[q], m) = narrow[q] /\ Cut(narrow[q], m) = narrow[q]
  <2> SUFFICES ASSUME NEW q \in 1..subqueries
               PROVE  Cut(wide[q], m) = narrow[q] /\ Cut(narrow[q], m) = narrow[q]
    OBVIOUS
  <2>1. v(q) \in Seq(IdRange) /\ wide[q] = Cut(v(q), l) /\ narrow[q] = Cut(v(q), m)
    BY <1>3
  <2>2. Cut(Cut(v(q), l), m) = Cut(v(q), m)
    <3> HIDE DEF v
    <3> QED
      BY <2>1, CutAgain
  <2>3. m <= m
    OBVIOUS
  <2>4. Cut(Cut(v(q), m), m) = Cut(v(q), m)
    <3> HIDE DEF v
    <3> QED
      BY <2>1, <2>3, CutAgain
  <2> QED
    BY <2>1, <2>2, <2>4
<1> HIDE DEF v
<1>5. CASE technique = "decompose"
  <2>1. FuseCollection(t, l) = RoundRobin(wide) /\ FuseCollection(t, m) = RoundRobin(narrow)
    BY <1>5 DEF FuseCollection, wide, narrow
  <2>2. Cuts(wide, m) = narrow
    <3> DEFINE c == Cuts(wide, m)
               S == Seq(IdRange)
    <3>1. c \in Seq(S) /\ Len(c) = subqueries /\ \A q \in 1..subqueries : c[q] = Cut(wide[q], m)
      BY <1>1, ChunksFinite, CutsAreLists
    <3>2. narrow \in Seq(S)
      BY <1>2
    <3> HIDE DEF c, S
    <3>3. c = narrow
      BY <1>2, <1>4, <3>1, <3>2, SameList
    <3> QED
      BY <3>3 DEF c
  <2>3. Cut(RoundRobin(wide), m) = Cut(RoundRobin(Cuts(wide, m)), m)
    BY <1>1, ChunksFinite, RoundRobinCut
  <2> QED
    BY <2>1, <2>2, <2>3
<1>6. CASE technique # "decompose"
  <2>1. FuseCollection(t, l) = ReciprocalRank(wide) /\ FuseCollection(t, m) = ReciprocalRank(narrow)
    BY <1>6 DEF FuseCollection, wide, narrow
  <2>2. subqueries = 1
    BY <1>6 DEF OrderFinal
  <2>3. wide = <<wide[1]>> /\ narrow = <<narrow[1]>>
    <3> DEFINE S == Seq(IdRange)
    <3>1. wide \in Seq(S) /\ Len(wide) = 1 /\ narrow \in Seq(S) /\ Len(narrow) = 1
      BY <1>1, <1>2, <2>2
    <3> HIDE DEF S
    <3> QED
      BY <3>1
  <2>4. Distinct(wide[1], IdRange) /\ Distinct(narrow[1], IdRange)
    BY <1>1, <1>2, <2>2 DEF Lists
  <2>5. ReciprocalRank(<<wide[1]>>) = wide[1] /\ ReciprocalRank(<<narrow[1]>>) = narrow[1]
    BY <2>4, RankOfOne DEF IdRange
  <2>6. Cut(wide[1], m) = narrow[1] /\ Cut(narrow[1], m) = narrow[1]
    BY <1>4, <2>2
  <2> QED
    BY <2>1, <2>3, <2>5, <2>6
<1> QED
  BY <1>5, <1>6

LEMMA CollectionOrderCut ==
  ASSUME RetrievalConstantsOK, SearchesDone, OrderFinal, NEW t \in 1..Len(targets),
         NEW l \in Nat, NEW m \in Nat, m <= l
  PROVE  Cut(CollectionOrder(t, l), m) = Cut(CollectionOrder(t, m), m)
<1> DEFINE F == FuseCollection(t, l)
           G == FuseCollection(t, m)
           O == CollectionOrder(t, l)
           Q == CollectionOrder(t, m)
           c == targets[t]
<1>1. Cut(F, m) = Cut(G, m)
  BY FuseCollectionCut
<1>2. /\ Distinct(F, IdRange) /\ Distinct(O, Chunks) /\ Len(O) = Len(F)
      /\ \A i \in 1..Len(F) : O[i] = <<c, F[i]>>
  BY FuseOf, CollectionOrderOf
<1>3. /\ Distinct(G, IdRange) /\ Distinct(Q, Chunks) /\ Len(Q) = Len(G)
      /\ \A i \in 1..Len(G) : Q[i] = <<c, G[i]>>
  BY FuseOf, CollectionOrderOf
<1> HIDE DEF F, G, O, Q, c
<1>4. /\ F \in Seq(IdRange) /\ G \in Seq(IdRange) /\ O \in Seq(Chunks) /\ Q \in Seq(Chunks)
      /\ Len(F) \in Nat /\ Len(G) \in Nat
  BY <1>2, <1>3 DEF Distinct
<1>5. /\ Len(Cut(F, m)) = (IF m <= Len(F) THEN m ELSE Len(F))
      /\ \A i \in 1..Len(Cut(F, m)) : Cut(F, m)[i] = F[i]
  BY <1>4, CutOf
<1>6. /\ Len(Cut(G, m)) = (IF m <= Len(G) THEN m ELSE Len(G))
      /\ \A i \in 1..Len(Cut(G, m)) : Cut(G, m)[i] = G[i]
  BY <1>4, CutOf
<1>7. /\ Cut(O, m) \in Seq(Chunks) /\ Len(Cut(O, m)) = (IF m <= Len(O) THEN m ELSE Len(O))
      /\ \A i \in 1..Len(Cut(O, m)) : Cut(O, m)[i] = O[i]
  BY <1>4, CutOf
<1>8. /\ Cut(Q, m) \in Seq(Chunks) /\ Len(Cut(Q, m)) = (IF m <= Len(Q) THEN m ELSE Len(Q))
      /\ \A i \in 1..Len(Cut(Q, m)) : Cut(Q, m)[i] = Q[i]
  BY <1>4, CutOf
<1>9. Len(Cut(O, m)) = Len(Cut(Q, m)) /\ Len(Cut(O, m)) = Len(Cut(F, m)) /\ Len(Cut(Q, m)) = Len(Cut(G, m))
  BY <1>1, <1>2, <1>3, <1>5, <1>6, <1>7, <1>8
<1>10. ASSUME NEW i \in 1..Len(Cut(O, m))
       PROVE  Cut(O, m)[i] = Cut(Q, m)[i]
  <2>1. i \in 1..Len(F) /\ i \in 1..Len(G)
    <3>1. Len(Cut(F, m)) \in 0..Len(F) /\ Len(Cut(G, m)) \in 0..Len(G)
      <4>1. Len(Cut(F, m)) \in 0..Len(F)
        BY <1>4, <1>5
      <4>2. Len(Cut(G, m)) \in 0..Len(G)
        BY <1>4, <1>6
      <4> QED
        BY <4>1, <4>2
    <3>2. i \in 1..Len(Cut(F, m)) /\ i \in 1..Len(Cut(G, m))
      BY <1>9
    <3> QED
      BY <1>4, <3>1, <3>2
  <2>2. F[i] = G[i]
    BY <1>1, <1>5, <1>6, <1>9
  <2> QED
    BY <1>2, <1>3, <1>7, <1>8, <1>9, <2>1, <2>2
<1>11. Cut(O, m) = Cut(Q, m)
  BY <1>7, <1>8, <1>9, <1>10, SameList
<1> QED
  BY <1>11 DEF O, Q

\* The first m of the pool need the first m rows of each search.
LEMMA MergedCut ==
  ASSUME RetrievalConstantsOK, SearchesDone, OrderFinal, NEW l \in Nat, NEW m \in Nat, m <= l
  PROVE  Cut(Merged(l), m) = Cut(Merged(m), m)
<1> DEFINE wide == CollectionOrders(l)
           narrow == CollectionOrders(m)
           n == Len(targets)
<1>1. /\ Lists(wide, Chunks) /\ wide \in Seq(Seq(Chunks)) /\ Len(wide) = n
      /\ \A t \in 1..n : wide[t] = CollectionOrder(t, l)
      /\ Merged(l) = RoundRobin(wide)
  BY CollectionOrdersOf
<1>2. /\ Lists(narrow, Chunks) /\ narrow \in Seq(Seq(Chunks)) /\ Len(narrow) = n
      /\ \A t \in 1..n : narrow[t] = CollectionOrder(t, m)
      /\ Merged(m) = RoundRobin(narrow)
  BY CollectionOrdersOf
<1> HIDE DEF wide, narrow
<1>3. Cuts(wide, m) = Cuts(narrow, m)
  <2> DEFINE c == Cuts(wide, m)
             d == Cuts(narrow, m)
             S == Seq(Chunks)
  <2>1. c \in Seq(S) /\ Len(c) = n /\ \A t \in 1..n : c[t] = Cut(wide[t], m)
    BY <1>1, ChunksFinite, CutsAreLists
  <2>2. d \in Seq(S) /\ Len(d) = n /\ \A t \in 1..n : d[t] = Cut(narrow[t], m)
    BY <1>2, ChunksFinite, CutsAreLists
  <2>3. \A t \in 1..n : Cut(wide[t], m) = Cut(narrow[t], m)
    BY <1>1, <1>2, CollectionOrderCut
  <2> HIDE DEF c, d, S
  <2>4. c = d
    BY <2>1, <2>2, <2>3, SameList
  <2> QED
    BY <2>4 DEF c, d
<1>4. Cut(RoundRobin(wide), m) = Cut(RoundRobin(Cuts(wide, m)), m)
  BY <1>1, ChunksFinite, RoundRobinCut
<1>5. Cut(RoundRobin(narrow), m) = Cut(RoundRobin(Cuts(narrow, m)), m)
  BY <1>2, ChunksFinite, RoundRobinCut
<1> QED
  BY <1>1, <1>2, <1>3, <1>4, <1>5

LEMMA MergedType ==
  ASSUME RetrievalConstantsOK, SearchesDone, NEW l \in Nat
  PROVE  Merged(l) \in Seq(Chunks) /\ Pool(l) \in Seq(Chunks)
<1> DEFINE outer == CollectionOrders(l)
           M == Merged(l)
<1>1. Lists(outer, Chunks) /\ M = RoundRobin(outer)
  BY CollectionOrdersOf
<1> HIDE DEF outer, M
<1>2. Distinct(M, Items(outer)) /\ Items(outer) \subseteq Chunks
  BY <1>1, ChunksFinite, RoundRobinOrder, ItemsOf DEF ByKey
<1>3. M \in Seq(Chunks)
  BY <1>2 DEF Distinct
<1>4. RecallTopK \in Nat
  BY DEF RetrievalConstantsOK
<1> QED
  BY <1>3, <1>4, CutOf DEF Pool, M

\* Without reranker or decay the answer is the first top_k of the pool.
LEMMA FinalistsOf ==
  ASSUME ~ stages.rerank, ~ stages.decay, topK \in Nat, NEW pool \in Seq(Chunks)
  PROVE  Finalists(Positional(pool)) = Cut(pool, topK)
<1> DEFINE list == Positional(pool)
           T == {list[i] : i \in DOMAIN list}
           final == Cut(list, topK)
           c == Cut(pool, topK)
           f == [i \in DOMAIN final |-> final[i].chunk]
<1>1. /\ Len(pool) \in Nat /\ DOMAIN list = 1..Len(pool) /\ \A i \in 1..Len(pool) : list[i] \in T /\ list[i].chunk = pool[i]
      /\ list \in [1..Len(pool) -> T]
  BY DEF Positional
<1>2. Finalists(list) = f
  BY DEF Finalists, Aged, Retrieved
<1> HIDE DEF list, T
<1>3. list \in Seq(T) /\ Len(list) = Len(pool)
  BY <1>1
<1>4. /\ final \in Seq(T) /\ DOMAIN final = 1..Len(final) /\ Len(final) = (IF topK <= Len(list) THEN topK ELSE Len(list))
      /\ \A i \in 1..Len(final) : final[i] = list[i]
  BY <1>3, CutOf
<1>5. /\ c \in Seq(Chunks) /\ Len(c) = (IF topK <= Len(pool) THEN topK ELSE Len(pool))
      /\ \A i \in 1..Len(c) : c[i] = pool[i]
  BY CutOf
<1> HIDE DEF final, c
<1>6. Len(final) = Len(c) /\ Len(c) \in Nat /\ 1..Len(c) \subseteq 1..Len(pool)
  BY <1>1, <1>3, <1>4, <1>5
<1>7. f \in [1..Len(c) -> Chunks] /\ \A i \in 1..Len(c) : f[i] = c[i]
  BY <1>1, <1>4, <1>5, <1>6
<1> HIDE DEF f
<1>8. f \in Seq(Chunks) /\ Len(f) = Len(c)
  BY <1>6, <1>7
<1>9. f = c
  BY <1>5, <1>7, <1>8, SameList
<1> QED
  BY <1>2, <1>9 DEF list, c

LEMMA RecallHolds ==
  ASSUME RetrievalConstantsOK, SearchesDone, topK \in Nat, ~ stages.rerank,
         technique \in {"direct", "expand", "decompose"}, technique = "direct" => subqueries = 1,
         answer = Finalists(Positional(Pool(Limit)))
  PROVE  \/ answer = Finalists(Positional(Pool(RecallTopK)))
         \/ ~ stages.hybrid /\ (stages.decay \/ (technique = "expand" /\ subqueries > 1))
<1>0. RecallTopK \in Nat /\ subqueries \in Nat /\ subqueries # 0
  BY DEF RetrievalConstantsOK, SearchesDone, Planned
<1>1. CASE stages.hybrid
  BY <1>1 DEF Limit
<1>2. CASE ~ stages.hybrid /\ (stages.decay \/ (technique = "expand" /\ subqueries > 1))
  BY <1>2
<1>3. CASE ~ stages.hybrid /\ ~ stages.decay /\ ~ (technique = "expand" /\ subqueries > 1)
  <2>1. OrderFinal
    BY <1>0, <1>3 DEF OrderFinal
  <2>2. Limit = topK
    BY <1>3 DEF Limit
  <2> DEFINE m == IF topK <= RecallTopK THEN topK ELSE RecallTopK
  <2>3. m \in Nat /\ m <= topK /\ m <= RecallTopK
    BY <1>0
  <2>4. Pool(topK) \in Seq(Chunks) /\ Pool(RecallTopK) \in Seq(Chunks)
        /\ Merged(topK) \in Seq(Chunks) /\ Merged(RecallTopK) \in Seq(Chunks)
    BY <1>0, MergedType
  <2>5. Cut(Pool(topK), topK) = Cut(Merged(topK), m) /\ Cut(Pool(RecallTopK), topK) = Cut(Merged(RecallTopK), m)
    BY <1>0, <2>4, CutTwice DEF Pool
  <2> HIDE DEF m
  <2>6. Cut(Merged(topK), m) = Cut(Merged(m), m) /\ Cut(Merged(RecallTopK), m) = Cut(Merged(m), m)
    BY <1>0, <2>1, <2>3, MergedCut
  <2>7. Cut(Pool(topK), topK) = Cut(Pool(RecallTopK), topK)
    BY <2>5, <2>6
  <2>8. /\ Finalists(Positional(Pool(topK))) = Cut(Pool(topK), topK)
        /\ Finalists(Positional(Pool(RecallTopK))) = Cut(Pool(RecallTopK), topK)
    BY <1>3, <2>4, FinalistsOf
  <2> QED
    BY <2>2, <2>7, <2>8
<1> QED
  BY <1>1, <1>2, <1>3

-----------------------------------------------------------------------------
(* The request, step by step.                                              *)

Hit == [vector : Seq(IdRange), lexical : Seq(IdRange)]

Searching == phase \in {"planned", "searched", "scored", "answered"}

\* Inductive: what the plan fixed, what the searches found so far and what was
\* made of it.
RetrievalInv ==
  /\ topK \in Nat /\ filters \in SUBSET Axes /\ (endpoint = "semantic" => filters = {})
  /\ technique \in {"direct", "expand", "decompose"} /\ (technique = "direct" => subqueries = 1)
  /\ subqueries \in Nat /\ subqueries # 0
  /\ hits \in Seq([1..subqueries -> Hit])
  /\ phase = "received" => hits = <<>>
  /\ Searching => Planned /\ Found(Len(hits))
  /\ phase = "planned" => Len(hits) < Len(targets)
  /\ phase \in {"searched", "scored", "answered"} => Len(hits) = Len(targets)
  /\ phase \in {"scored", "answered"} /\ ~ stages.rerank => scored = Positional(Pool(Limit))
  /\ phase = "answered" => answer = Finalists(scored)

LEMMA NothingListed ==
  ASSUME NEW T
  PROVE  Distinct(<<>>, T) /\ Range(<<>>) = {}
  BY DEF Distinct, Range

LEMMA InjectiveIsDistinct ==
  ASSUME NEW T, NEW s \in Seq(T), IsInjective(s)
  PROVE  Distinct(s, T)
<1>1. Len(s) \in Nat /\ DOMAIN s = 1..Len(s) /\ \A i \in 1..Len(s) : s[i] \in T
  OBVIOUS
<1>2. \A i, j \in 1..Len(s) : s[i] = s[j] => i = j
  BY <1>1 DEF IsInjective
<1> QED
  BY <1>1, <1>2 DEF Distinct

LEMMA FilteredOf ==
  ASSUME NEW c, NEW order, Distinct(order, IdRange)
  PROVE  /\ Distinct(Filtered(c, order), IdRange)
         /\ \A x \in Range(Filtered(c, order)) : Passes(c, x)
<1> DEFINE P == {i \in DOMAIN order : Passes(c, order[i])}
           n == Cardinality(P)
           F == Filtered(c, order)
<1>1. order \in Seq(IdRange) /\ Len(order) \in Nat /\ DOMAIN order = 1..Len(order)
  BY DEF Distinct
<1>2. P \in SUBSET (1..Len(order)) /\ F = Those(order, P) /\ \A i \in P : Passes(c, order[i])
  BY <1>1 DEF Filtered
<1> HIDE DEF F, P
<1>3. PICK l \in [1..n -> P] :
        /\ n \in 0..Len(order) /\ \A k \in 1..n : F[k] = order[l[k]]
        /\ F \in Seq(IdRange) /\ Len(F) = n
        /\ \A j, k \in 1..n : l[j] < l[k] <=> j < k
  BY <1>1, <1>2, ThoseProps
<1> HIDE DEF n
<1>4. n \in Nat /\ DOMAIN F = 1..n /\ \A k \in 1..n : l[k] \in P /\ l[k] \in 1..Len(order)
  <2>1. n \in Nat /\ DOMAIN F = 1..n
    BY <1>1, <1>3
  <2>2. \A k \in 1..n : l[k] \in P
    OBVIOUS
  <2> QED
    BY <1>2, <2>1, <2>2
<1>5. \A j, k \in 1..n : F[j] = F[k] => j = k
  <2> SUFFICES ASSUME NEW j \in 1..n, NEW k \in 1..n, F[j] = F[k]
               PROVE  j = k
    OBVIOUS
  <2>1. order[l[j]] = order[l[k]] /\ l[j] \in 1..Len(order) /\ l[k] \in 1..Len(order)
    BY <1>3, <1>4
  <2>2. l[j] = l[k]
    BY <2>1 DEF Distinct
  <2>3. ~ (l[j] < l[k]) /\ ~ (l[k] < l[j])
    BY <2>1, <2>2
  <2>4. ~ (j < k) /\ ~ (k < j)
    BY <1>3, <2>3
  <2> QED
    BY <1>4, <2>4
<1>6. \A k \in 1..n : F[k] \in IdRange /\ Passes(c, F[k])
  <2> SUFFICES ASSUME NEW k \in 1..n
               PROVE  F[k] \in IdRange /\ Passes(c, F[k])
    OBVIOUS
  <2>1. F[k] = order[l[k]] /\ l[k] \in P /\ l[k] \in 1..Len(order)
    BY <1>3, <1>4
  <2>2. Passes(c, order[l[k]])
    BY <1>2, <2>1
  <2> QED
    BY <2>1, <2>2 DEF Distinct
<1>7. Distinct(F, IdRange)
  BY <1>3, <1>4, <1>5, <1>6 DEF Distinct
<1>8. \A x \in Range(F) : Passes(c, x)
  BY <1>4, <1>6 DEF Range
<1> QED
  BY <1>7, <1>8 DEF F

LEMMA HitsOf ==
  ASSUME RetrievalConstantsOK, endpoint = "semantic" => filters = {}, NEW c \in Collections,
         NEW h \in CollectionHits(c)
  PROVE  HitOK(c, h) /\ h \in Hit
<1>1. \A order \in Nearest[c] \cup Matched[c] : Distinct(order, IdRange)
  <2>1. \A order \in Nearest[c] \cup Matched[c] : order \in Seq(1..MaxChunks) /\ IsInjective(order)
    BY DEF RetrievalConstantsOK
  <2> QED
    BY <2>1, InjectiveIsDistinct DEF IdRange
<1>2. \A n \in Within[c] : n \in Nat
  BY DEF RetrievalConstantsOK
<1>3. RecallTopK \in Nat
  BY DEF RetrievalConstantsOK
<1>4. /\ h = [vector |-> h.vector, lexical |-> h.lexical]
      /\ h.vector \in (IF endpoint = "semantic" THEN SearchAll(c) ELSE SearchFiltered(c))
      /\ h.lexical \in SearchLexical(c)
  BY DEF CollectionHits
<1>5. ASSUME NEW order \in Nearest[c] \cup Matched[c], NEW n \in Nat
      PROVE  /\ Distinct(Cut(Filtered(c, order), n), IdRange)
             /\ \A x \in Range(Cut(Filtered(c, order), n)) : Passes(c, x)
  <2>1. /\ Distinct(Filtered(c, order), IdRange)
        /\ \A x \in Range(Filtered(c, order)) : Passes(c, x)
    BY <1>1, FilteredOf
  <2> QED
    BY <2>1, CutDistinct
<1>6. Distinct(h.vector, IdRange) /\ \A x \in Range(h.vector) : Passes(c, x)
  <2>1. CASE endpoint = "semantic"
    <3>1. h.vector \in Nearest[c] /\ filters = {}
      BY <1>4, <2>1 DEF SearchAll
    <3>2. \A x \in Range(h.vector) : Passes(c, x)
      BY <2>1, <3>1 DEF Passes, StructuralFilters
    <3> QED
      BY <1>1, <3>1, <3>2
  <2>2. CASE endpoint # "semantic"
    <3>1. PICK order \in Nearest[c], n \in Within[c] : h.vector = Cut(Filtered(c, order), n)
      BY <1>4, <2>2 DEF SearchFiltered
    <3> QED
      BY <1>2, <1>5, <3>1
  <2> QED
    BY <2>1, <2>2
<1>7. Distinct(h.lexical, IdRange) /\ \A x \in Range(h.lexical) : Passes(c, x)
  <2>1. CASE stages.hybrid
    <3>1. PICK order \in Matched[c] : h.lexical = Cut(Filtered(c, order), RecallTopK)
      BY <1>4, <2>1 DEF SearchLexical
    <3> QED
      BY <1>3, <1>5, <3>1
  <2>2. CASE ~ stages.hybrid
    <3>1. h.lexical = <<>>
      BY <1>4, <2>2 DEF SearchLexical
    <3> QED
      BY <3>1, NothingListed
  <2> QED
    BY <2>1, <2>2
<1>8. h.vector \in Seq(IdRange) /\ h.lexical \in Seq(IdRange)
  BY <1>6, <1>7 DEF Distinct
<1>9. h \in Hit
  BY <1>4, <1>8 DEF Hit
<1> QED
  BY <1>6, <1>7, <1>9 DEF HitOK

\* A list of collections, none twice.
LEMMA RoutesOf ==
  ASSUME RetrievalConstantsOK
  PROVE  /\ \A r \in Routes : Distinct(r, Collections) /\ Len(r) # 0
         /\ Distinct(<<Registry[1]>>, Collections) /\ Len(<<Registry[1]>>) # 0
<1>1. /\ Registry \in Seq(Collections) /\ Registry # <<>> /\ IsInjective(Registry)
      /\ MaxTargets \in Nat /\ MaxTargets # 0
  BY DEF RetrievalConstantsOK
<1>2. Distinct(Registry, Collections) /\ Len(Registry) # 0
  BY <1>1 DEF Distinct, IsInjective
<1>3. ASSUME NEW r \in BoundedSeq(Collections, MaxTargets), r # <<>>, IsInjective(r)
      PROVE  Distinct(r, Collections) /\ Len(r) # 0
  <2>1. PICK n \in 0..MaxTargets : r \in [1..n -> Collections]
    BY DEF BoundedSeq, SeqOf
  <2>2. r \in Seq(Collections) /\ Len(r) = n /\ n \in Nat
    BY <1>1, <2>1
  <2>3. n # 0
    BY <1>3, <2>2
  <2> QED
    BY <1>3, <2>1, <2>2, <2>3 DEF Distinct, IsInjective
<1>4. ASSUME NEW places \in (SUBSET (DOMAIN Registry)) \ {{}}
      PROVE  Distinct(Cut(Those(Registry, places), MaxTargets), Collections)
             /\ Len(Cut(Those(Registry, places), MaxTargets)) # 0
  <2> DEFINE F == Those(Registry, places)
             n == Cardinality(places)
  <2>1. places \in SUBSET (1..Len(Registry)) /\ places # {} /\ Len(Registry) \in Nat
    <3>1. Len(Registry) \in Nat /\ DOMAIN Registry = 1..Len(Registry)
      BY <1>2 DEF Distinct
    <3> QED
      BY <3>1
  <2>0. F = Those(Registry, places) /\ Registry \in Seq(Collections)
    BY <1>1
  <2> HIDE DEF F
  <2>2. PICK l \in [1..n -> places] :
          /\ n \in 0..Len(Registry) /\ \A k \in 1..n : F[k] = Registry[l[k]]
          /\ F \in Seq(Collections) /\ Len(F) = n
          /\ \A j, k \in 1..n : l[j] < l[k] <=> j < k
    BY <2>0, <2>1, ThoseProps
  <2>9. n # 0
    <3>1. IsFiniteSet(1..Len(Registry))
      BY <2>1, FS_Interval
    <3>2. IsFiniteSet(places)
      BY <2>1, <3>1, FS_Subset
    <3> QED
      BY <2>1, <3>2, FS_EmptySet
  <2> HIDE DEF n
  <2>3. n \in Nat /\ n # 0 /\ DOMAIN F = 1..n /\ \A k \in 1..n : l[k] \in 1..Len(Registry)
    BY <2>1, <2>2, <2>9
  <2>4. ASSUME NEW j \in 1..n, NEW k \in 1..n, F[j] = F[k]
        PROVE  j = k
    <3>1. Registry[l[j]] = Registry[l[k]] /\ l[j] \in 1..Len(Registry) /\ l[k] \in 1..Len(Registry)
      BY <2>2, <2>3, <2>4
    <3>2. l[j] = l[k]
      BY <1>2, <3>1 DEF Distinct
    <3>3. ~ (l[j] < l[k]) /\ ~ (l[k] < l[j])
      BY <3>1, <3>2
    <3>4. ~ (j < k) /\ ~ (k < j)
      BY <2>2, <3>3
    <3> QED
      BY <2>3, <3>4
  <2>5. \A k \in 1..n : F[k] \in Collections
    BY <1>2, <2>2, <2>3 DEF Distinct
  <2>6. Distinct(F, Collections)
    BY <2>2, <2>3, <2>4, <2>5 DEF Distinct
  <2>7. Distinct(Cut(F, MaxTargets), Collections)
    BY <1>1, <2>6, CutDistinct
  <2>8. Len(Cut(F, MaxTargets)) # 0
    <3>1. Len(Cut(F, MaxTargets)) = IF MaxTargets <= Len(F) THEN MaxTargets ELSE Len(F)
      BY <1>1, <2>2, CutOf
    <3> QED
      BY <1>1, <2>2, <2>3, <3>1
  <2> QED
    BY <2>7, <2>8 DEF F
<1>5. \A r \in Routes : Distinct(r, Collections) /\ Len(r) # 0
  BY <1>2, <1>3, <1>4 DEF Routes
<1>6. Distinct(<<Registry[1]>>, Collections) /\ Len(<<Registry[1]>>) # 0
  <2>1. Registry[1] \in Collections
    BY <1>1, <1>2 DEF Distinct
  <2>2. PICK c \in Collections : c = Registry[1]
    BY <2>1
  <2>3. Distinct(<<c>>, Collections) /\ Len(<<c>>) # 0
    BY DEF Distinct
  <2> QED
    BY <2>2, <2>3
<1> QED
  BY <1>5, <1>6

LEMMA RetrievalStart ==
  ASSUME RetrievalConstantsOK
  PROVE  RetrievalInit => RetrievalInv
<1> SUFFICES ASSUME RetrievalInit PROVE RetrievalInv
  OBVIOUS
<1>1. topK \in Nat
  BY DEF RetrievalInit, RetrievalConstantsOK
<1>2. hits = <<>> /\ phase = "received" /\ technique = "direct" /\ subqueries = 1 /\ filters \in SUBSET Axes
      /\ (endpoint = "semantic" => filters = {})
  BY DEF RetrievalInit
<1>3. hits \in Seq([1..subqueries -> Hit])
  <2> DEFINE S == [1..subqueries -> Hit]
  <2>1. <<>> \in Seq(S)
    OBVIOUS
  <2> QED
    BY <1>2, <2>1
<1> QED
  BY <1>1, <1>2, <1>3 DEF RetrievalInv, Searching

\* The limit and the pool go by what the plan fixed and the searches found.
LEMMA SamePool ==
  ASSUME UNCHANGED <<stages, topK, technique, targets, subqueries, hits>>
  PROVE  Pool(Limit)' = Pool(Limit)
<1>1. Limit' = Limit
  BY DEF Limit
<1>2. \A t, q : FusedOrder(hits[t][q], Limit)' = FusedOrder(hits[t][q], Limit)
  BY <1>1 DEF FusedOrder
<1>3. \A t : Orders(t, Limit)' = Orders(t, Limit)
  BY <1>2 DEF Orders
<1>4. \A t : FuseCollection(t, Limit)' = FuseCollection(t, Limit)
  BY <1>3 DEF FuseCollection
<1>5. \A t : CollectionOrder(t, Limit)' = CollectionOrder(t, Limit)
  BY <1>4 DEF CollectionOrder, Keyed
<1>6. Merged(Limit)' = Merged(Limit)
  BY <1>5 DEF Merged
<1> QED
  BY <1>6 DEF Pool

LEMMA SameFinalists ==
  ASSUME UNCHANGED <<endpoint, stages, topK, scored>>
  PROVE  Finalists(scored)' = Finalists(scored)
  BY DEF Finalists, Aged, Retrieved

LEMMA SameHits ==
  ASSUME UNCHANGED <<endpoint, filters, targets, subqueries>>, NEW n,
         \A t \in 1..n, q \in 1..subqueries : HitOK(targets[t], hits'[t][q])
  PROVE  \A t \in 1..n, q \in 1..subqueries' : HitOK(targets[t], hits[t][q])'
<1>1. \A c, x : Passes(c, x)' <=> Passes(c, x)
  BY DEF Passes, HardFilterClauses, StructuralFilters
<1> QED
  BY <1>1 DEF HitOK

LEMMA PlanStep ==
  ASSUME RetrievalInv, phase = "received", phase' = "planned",
         Distinct(targets', Collections), Len(targets') # 0,
         technique' \in {"direct", "expand", "decompose"}, technique' = "direct" => subqueries' = 1,
         subqueries' \in Nat, subqueries' # 0,
         UNCHANGED <<endpoint, filters, stages, topK, hits, scored, answer>>
  PROVE  RetrievalInv'
<1>1. hits' = <<>>
  BY DEF RetrievalInv
<1>2. Planned'
  BY DEF Planned, Distinct
<1>3. hits' \in Seq([1..subqueries' -> Hit])
  <2> DEFINE S == [1..subqueries' -> Hit]
  <2>1. <<>> \in Seq(S)
    OBVIOUS
  <2> QED
    BY <1>1, <2>1
<1>4. Len(hits') = 0 /\ Len(hits') < Len(targets')
  <2>1. Len(hits') = 0
    BY <1>1
  <2>2. Len(targets') \in Nat
    BY <1>2 DEF Planned
  <2> QED
    BY <2>1, <2>2
<1>5. Found(Len(hits))'
  BY <1>4 DEF Found
<1> QED
  BY <1>1, <1>2, <1>3, <1>4, <1>5 DEF RetrievalInv, Searching

LEMMA SearchStep ==
  ASSUME RetrievalConstantsOK, RetrievalInv, Search
  PROVE  RetrievalInv'
<1> DEFINE n == Len(hits)
           c == targets[n + 1]
           S == [1..subqueries -> Hit]
<1>1. /\ phase = "planned" /\ Planned /\ Found(n) /\ n < Len(targets)
      /\ hits \in Seq(S) /\ (endpoint = "semantic" => filters = {})
  BY DEF Search, RetrievalInv, Searching
<1>2. UNCHANGED <<endpoint, filters, stages, topK, technique, targets, subqueries, scored, answer, fault>>
  BY DEF Search
<1>3. PICK h \in [1..subqueries -> CollectionHits(c)] : hits' = Append(hits, h)
  BY DEF Search
<1>4. phase' = IF Len(hits') = Len(targets) THEN "searched" ELSE "planned"
  BY DEF Search
<1>5. n \in Nat /\ n + 1 \in 1..Len(targets) /\ c \in Collections /\ Len(targets) \in Nat
  <2>1. n \in Nat /\ Len(targets) \in Nat
    BY <1>1 DEF Planned
  <2>2. n + 1 \in 1..Len(targets)
    BY <1>1, <2>1
  <2> QED
    BY <1>1, <2>1, <2>2 DEF Planned, Distinct
<1>6. \A q \in 1..subqueries : HitOK(c, h[q]) /\ h[q] \in Hit
  <2> HIDE DEF c
  <2> QED
    BY <1>1, <1>3, <1>5, HitsOf
<1>7. h \in S
  BY <1>3, <1>6
<1> HIDE DEF S, c
<1>8. /\ hits' \in Seq(S) /\ Len(hits') = n + 1 /\ hits'[n + 1] = h
      /\ \A t \in 1..n : hits'[t] = hits[t]
  BY <1>1, <1>3, <1>7
<1>9. \A t \in 1..(n + 1), q \in 1..subqueries : HitOK(targets[t], hits'[t][q])
  <2> SUFFICES ASSUME NEW t \in 1..(n + 1), NEW q \in 1..subqueries
               PROVE  HitOK(targets[t], hits'[t][q])
    OBVIOUS
  <2>1. CASE t = n + 1
    BY <1>6, <1>8, <2>1 DEF c
  <2>2. CASE t # n + 1
    <3>1. t \in 1..n
      BY <1>5, <2>2
    <3> QED
      BY <1>1, <1>8, <3>1 DEF Found
  <2> QED
    BY <2>1, <2>2
<1> DEFINE k == n + 1
<1>10. \A t \in 1..k, q \in 1..subqueries' : HitOK(targets[t], hits[t][q])'
  <2> HIDE DEF k, n
  <2> QED
    BY <1>2, <1>9, SameHits DEF k
<1>11. Found(Len(hits))'
  <2>1. Len(hits)' = k
    BY <1>8
  <2> HIDE DEF k, n
  <2> QED
    BY <1>10, <2>1 DEF Found
<1>12. Planned'
  BY <1>1, <1>2 DEF Planned
<1>13. hits' \in Seq([1..subqueries' -> Hit])
  BY <1>2, <1>8 DEF S
<1>14. phase' \in {"planned", "searched"} /\ (phase' = "planned" => Len(hits') < Len(targets'))
       /\ (phase' = "searched" => Len(hits') = Len(targets'))
  BY <1>1, <1>2, <1>4, <1>5, <1>8
<1> QED
  BY <1>2, <1>11, <1>12, <1>13, <1>14 DEF RetrievalInv, Searching

\* A step that changes neither the plan nor what was found.
LEMMA LaterStep ==
  ASSUME RetrievalInv,
         UNCHANGED <<endpoint, filters, stages, topK, technique, targets, subqueries, hits>>
  PROVE  /\ topK' \in Nat /\ filters' \in SUBSET Axes /\ (endpoint' = "semantic" => filters' = {})
         /\ technique' \in {"direct", "expand", "decompose"} /\ (technique' = "direct" => subqueries' = 1)
         /\ subqueries' \in Nat /\ subqueries' # 0
         /\ hits' \in Seq([1..subqueries' -> Hit])
         /\ Searching => Planned' /\ Found(Len(hits))'
<1>1. Planned => Planned'
  BY DEF Planned
<1>2. Found(Len(hits)) => Found(Len(hits))'
  <2> SUFFICES ASSUME Found(Len(hits)) PROVE Found(Len(hits))'
    OBVIOUS
  <2> DEFINE n == Len(hits)
  <2>1. \A t \in 1..n, q \in 1..subqueries : HitOK(targets[t], hits'[t][q])
    BY DEF Found
  <2>2. Len(hits)' = n
    OBVIOUS
  <2> HIDE DEF n
  <2>3. \A t \in 1..n, q \in 1..subqueries' : HitOK(targets[t], hits[t][q])'
    BY <2>1, SameHits
  <2> QED
    BY <2>2, <2>3 DEF Found
<1> QED
  BY <1>1, <1>2 DEF RetrievalInv

LEMMA FailStep ==
  ASSUME RetrievalInv, NEW s, Failed(s)
  PROVE  RetrievalInv'
<1>1. UNCHANGED <<endpoint, filters, stages, topK, technique, targets, subqueries, hits>> /\ phase' = "failed"
  BY DEF Failed
<1> QED
  BY <1>1, LaterStep DEF RetrievalInv, Searching

LEMMA ScoreStep ==
  ASSUME RetrievalInv, Score
  PROVE  RetrievalInv'
<1>1. /\ UNCHANGED <<endpoint, filters, stages, topK, technique, targets, subqueries, hits>>
      /\ phase = "searched" /\ phase' = "scored"
  BY DEF Score
<1>2. ~ stages.rerank => scored' = Positional(Pool(Limit))
  BY DEF Score
<1>3. Pool(Limit)' = Pool(Limit)
  BY <1>1, SamePool
<1>4. ~ stages'.rerank => scored' = Positional(Pool(Limit)')
  BY <1>1, <1>2, <1>3
<1>5. Len(hits') = Len(targets')
  BY <1>1 DEF RetrievalInv
<1> QED
  BY <1>1, <1>4, <1>5, LaterStep DEF RetrievalInv, Searching, Positional

LEMMA AnswerStep ==
  ASSUME RetrievalInv, Answer
  PROVE  RetrievalInv'
<1>1. /\ UNCHANGED <<endpoint, filters, stages, topK, technique, targets, subqueries, hits, scored>>
      /\ phase = "scored" /\ phase' = "answered" /\ answer' = Finalists(scored)
  BY DEF Answer
<1>2. Pool(Limit)' = Pool(Limit) /\ Finalists(scored)' = Finalists(scored)
  BY <1>1, SamePool, SameFinalists
<1>3. ~ stages'.rerank => scored' = Positional(Pool(Limit)')
  BY <1>1, <1>2 DEF RetrievalInv
<1>4. Len(hits') = Len(targets') /\ answer' = Finalists(scored)'
  BY <1>1, <1>2 DEF RetrievalInv
<1> QED
  BY <1>1, <1>3, <1>4, LaterStep DEF RetrievalInv, Searching, Positional

LEMMA RetrievalStep ==
  ASSUME RetrievalConstantsOK, RetrievalInv, [RetrievalNext]_retrievalVars
  PROVE  RetrievalInv'
<1>1. CASE Plan
  <2>1. PICK plan \in Plans : technique' = plan[1] /\ subqueries' = plan[2]
    BY <1>1 DEF Plan
  <2>2. /\ technique' \in {"direct", "expand", "decompose"} /\ (technique' = "direct" => subqueries' = 1)
        /\ subqueries' \in Nat /\ subqueries' # 0
    <3>1. MaxSubqueries \in Nat
      BY DEF RetrievalConstantsOK
    <3> QED
      BY <2>1, <3>1 DEF Plans
  <2>3. Distinct(targets', Collections) /\ Len(targets') # 0
    BY <1>1, RoutesOf DEF Plan
  <2> QED
    BY <1>1, <2>2, <2>3, PlanStep DEF Plan
<1>2. ASSUME NEW e, Direct(e)
      PROVE  RetrievalInv'
  <2>1. Distinct(targets', Collections) /\ Len(targets') # 0
    BY <1>2, RoutesOf DEF Direct
  <2>2. /\ technique' \in {"direct", "expand", "decompose"} /\ (technique' = "direct" => subqueries' = 1)
        /\ subqueries' \in Nat /\ subqueries' # 0
    BY <1>2 DEF Direct, RetrievalInv
  <2> QED
    BY <1>2, <2>1, <2>2, PlanStep DEF Direct
<1>3. CASE Search
  BY <1>3, SearchStep
<1>4. CASE SearchFails \/ RerankerFails
  BY <1>4, FailStep DEF SearchFails, RerankerFails
<1>5. CASE Score
  BY <1>5, ScoreStep
<1>6. CASE Answer
  BY <1>6, AnswerStep
<1>7. CASE UNCHANGED retrievalVars
  <2>1. UNCHANGED <<endpoint, filters, stages, topK, technique, targets, subqueries, hits, scored, phase, answer>>
    BY <1>7 DEF retrievalVars
  <2>2. Pool(Limit)' = Pool(Limit) /\ Finalists(scored)' = Finalists(scored)
    BY <2>1, SamePool, SameFinalists
  <2> QED
    BY <2>1, <2>2, LaterStep DEF RetrievalInv, Searching, Positional
<1> QED
  BY <1>1, <1>2, <1>3, <1>4, <1>5, <1>6, <1>7
  DEF RetrievalNext, PlanSearch, SearchBudgets, SearchChunks, SemanticSearch

LEMMA RetrievalInductive ==
  ASSUME RetrievalConstantsOK
  PROVE  RetrievalSpec => []RetrievalInv
<1>1. RetrievalInv /\ [RetrievalNext]_retrievalVars => RetrievalInv'
  BY RetrievalStep
<1> QED
  BY <1>1, RetrievalStart, PTL DEF RetrievalSpec

\* For any registry, rankings, filters, plan and route: fusion keeps the consensus of
\* reformulations; of t collections and s sub-questions it has the best chunk of each
\* pair among the first t * s; it loses no chunk and confuses no two collections, and
\* no branch brings one past the filters (fusion.py:25-89, advanced_pipeline.py:123-261).
THEOREM FusionIsSound ==
  ASSUME RetrievalConstantsOK
  PROVE  RetrievalSpec => []FusionSound
<1>1. RetrievalInv => FusionSound
  <2> SUFFICES ASSUME RetrievalInv PROVE FusionSound
    OBVIOUS
  <2>1. Limit \in Nat /\ filters \in SUBSET Axes
    BY DEF RetrievalInv, Limit, RetrievalConstantsOK
  <2>2. phase = "searched" => SearchesDone
    BY DEF RetrievalInv, Searching, SearchesDone
  <2> QED
    BY <2>1, <2>2, FusionHolds
<1> QED
  BY <1>1, RetrievalInductive, PTL

\* For any top_k and recall: the rows a search does not recall change no answer,
\* except where decay or the fusion of reformulations orders them again
\* (pipeline.py:90-97).
THEOREM RecallIsEnough ==
  ASSUME RetrievalConstantsOK
  PROVE  RetrievalSpec => []RecallSuffices
<1>1. RetrievalInv => RecallSuffices
  <2> SUFFICES ASSUME RetrievalInv, phase = "answered", ~ stages.rerank PROVE RecallSuffices
    BY DEF RecallSuffices
  <2>1. /\ SearchesDone /\ topK \in Nat
        /\ technique \in {"direct", "expand", "decompose"} /\ (technique = "direct" => subqueries = 1)
        /\ answer = Finalists(Positional(Pool(Limit)))
    BY DEF RetrievalInv, Searching, SearchesDone
  <2> QED
    BY <2>1, RecallHolds DEF RecallSuffices
<1> QED
  BY <1>1, RetrievalInductive, PTL
=============================================================================
