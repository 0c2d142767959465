--------------------------- MODULE TaskHoursProofs ---------------------------
(***************************************************************************)
(* For every structure, every repertoire of calls and every bound on them: *)
(* the dictionary of derivations is, at every point of the loop, the last  *)
(* successful derivation of each name in the trace; hence what the merge   *)
(* makes of the rows, and the wizard of the merge, is what the trace says. *)
(* And of the Streamlit page, a conversation beside it: for every number   *)
(* of sessions and turns, what a session remembers is what its turns left, *)
(* and what the page shows is what its session recorded.                   *)
(***************************************************************************)
EXTENDS TaskHours, StreamlitSessions, SequenceTheorems, WellFoundedInduction, TLAPS

\* Where the request stands in the loop, and what it has run of what was asked.
Progress ==
  /\ pc \in {"idle", "search"} => iterations = 0 /\ trace = <<>> /\ turn = <<>> /\ asked = 0
  /\ pc \in {"ask", "tools"} => iterations < MaxIterations
  /\ pc = "tools" => turn # <<>>
  /\ pc \in {"ask", "answered", "seeded"} => turn = <<>>
  /\ pc \in {"ask", "tools"} => asked = Len(trace) + Len(turn)
  /\ Answered => asked = Len(trace) \/ iterations = MaxIterations
  /\ Len(trace) + Len(turn) <= iterations * MaxCalls

RowsOK ==
  /\ pc \in {"ask", "tools", "answered", "seeded"} => \A i \in Slots : rows[i] # Nothing
  /\ \A i \in Slots : rows[i] # Nothing => (rows[i].has_match <=> rows[i].hours)

LastDerivation(k) ==
  \/ derivations[k] = 0 /\ Derivations(k) = {}
  \/ /\ derivations[k] \in Derivations(k)
     /\ \A m \in Derivations(k) : m <= derivations[k]

AnswerOK == Answered => answer = Merged

BreakdownOK == pc = "seeded" => breakdown = [i \in Slots |-> Lookup(modules[i])]

IInv ==
  /\ TypeOK
  /\ Progress
  /\ RowsOK
  /\ \A k \in Keys : LastDerivation(k)
  /\ AnswerOK
  /\ BreakdownOK

-----------------------------------------------------------------------------
(* Facts about numbers, sequences and the operators of the model.          *)

LEMMA TimesMonotone ==
  ASSUME NEW a \in Nat, NEW b \in Nat, NEW c \in Nat, a <= b
  PROVE  a * c <= b * c /\ (a + 1) * c = a * c + c /\ a * c \in Nat
BY SMT

\* A nonempty set of positions of a sequence has a last one.
LEMMA LastPosition ==
  ASSUME NEW n \in Nat, NEW S \in SUBSET (1..n), S # {}
  PROVE  \E j \in S : \A i \in S : i <= j
<1> DEFINE T == {n - j : j \in S}
<1>0. \A j \in S : j \in Nat /\ n - j \in Nat
  OBVIOUS
<1>1. T \subseteq Nat /\ T # {}
  BY <1>0
<1>2. PICK x \in T : \A y \in T : ~ (<<y, x>> \in OpToRel(<, Nat))
  BY <1>1, NatLessThanWellFounded, WFMin
<1>3. \A y \in T : ~ (y < x)
  BY <1>1, <1>2 DEF OpToRel
<1>4. PICK j \in S : x = n - j
  OBVIOUS
<1>5. ASSUME NEW i \in S PROVE i <= j
  <2>1. n - i \in T
    OBVIOUS
  <2>2. ~ (n - i < n - j)
    BY <1>3, <1>4, <2>1
  <2> HIDE DEF T
  <2> QED
    BY <1>0, <2>2
<1> QED
  BY <1>5

LEMMA FunctionIsSeq ==
  ASSUME NEW S, NEW n \in Nat, NEW f \in [1..n -> S]
  PROVE  f \in Seq(S) /\ DOMAIN f = 1..n
BY SeqDef

LEMMA SlotsAre ==
  ASSUME TypeOK
  PROVE  Len(modules) \in Nat /\ Slots = 1..Len(modules) /\ \A i \in Slots : modules[i] \in Keys
BY DEF TypeOK, Slots

\* Merging keeps a row's kind, and its match together with its hours.
LEMMA MergedRows ==
  ASSUME TypeOK, RowsOK, \A k \in Keys : LastDerivation(k), \A i \in Slots : rows[i] # Nothing
  PROVE  /\ Merged \in [Slots -> Estimate] /\ Merged \in Seq(Estimate)
         /\ \A i \in Slots : Merged[i].has_match <=> Merged[i].hours
<1>1. \A i \in Slots : rows[i] \in Estimate /\ modules[i] \in Keys
  BY SlotsAre DEF TypeOK
<1>2. \A n \in DOMAIN trace : n \in Nat /\ trace[n] \in Step
  BY DEF TypeOK
<1>3. \A k \in Keys : derivations[k] \in Nat /\ (derivations[k] > 0 => derivations[k] \in DOMAIN trace)
  <2> SUFFICES ASSUME NEW k \in Keys
               PROVE  derivations[k] \in Nat /\ (derivations[k] > 0 => derivations[k] \in DOMAIN trace)
    OBVIOUS
  <2>1. derivations[k] \in 0..Len(trace) /\ DOMAIN trace = 1..Len(trace) /\ Len(trace) \in Nat
    BY DEF TypeOK
  <2> QED
    BY <2>1
<1>4. ASSUME NEW i \in Slots
      PROVE  Merged[i] \in Estimate /\ (Merged[i].has_match <=> Merged[i].hours)
  <2>1. CASE derivations[modules[i]] > 0 /\ trace[derivations[modules[i]]].call.grade # "none"
    <3> DEFINE n == derivations[modules[i]]
    <3>1. trace[n] \in Step /\ n \in Nat
      BY <1>1, <1>2, <1>3, <1>4, <2>1
    <3>2. trace[n].call.grade \in Grades
      BY <3>1 DEF Step, Call
    <3>3. Merged[i] = [rows[i] EXCEPT !.has_match = TRUE, !.hours = TRUE,
                           !.reliability = trace[n].call.grade, !.range = FALSE, !.by = n]
      BY <1>4, <2>1 DEF Merged
    <3> HIDE DEF n
    <3>4. rows[i] \in Estimate
      BY <1>1, <1>4
    <3> QED
      BY <3>1, <3>2, <3>3, <3>4 DEF Estimate
  <2>2. CASE ~(derivations[modules[i]] > 0 /\ trace[derivations[modules[i]]].call.grade # "none")
    <3>1. Merged[i] = rows[i]
      BY <1>4, <2>2 DEF Merged
    <3> QED
      BY <1>1, <1>4, <3>1 DEF RowsOK
  <2> QED
    BY <2>1, <2>2
<1>5. DOMAIN Merged = Slots /\ Merged = [i \in Slots |-> Merged[i]]
  BY DEF Merged
<1>6. Merged \in [Slots -> Estimate]
  BY <1>4, <1>5
<1> QED
  BY <1>4, <1>6, SlotsAre, FunctionIsSeq

\* The wizard finds, for a task, the answer to a task of the same name.
LEMMA LookupFinds ==
  ASSUME TypeOK, NEW i \in Slots
  PROVE  \E j \in Slots : modules[j] = modules[i] /\ Lookup(modules[i]) = answer[j]
<1> DEFINE k == modules[i]
<1>1. Named(k) \in SUBSET (1..Len(modules)) /\ Named(k) # {} /\ Len(modules) \in Nat
  BY SlotsAre DEF Named
<1>2. \E j \in Named(k) : \A m \in Named(k) : m <= j
  BY <1>1, LastPosition
<1> DEFINE l == CHOOSE j \in Named(k) : \A m \in Named(k) : m <= j
<1>3. l \in Named(k)
  BY <1>2
<1>4. Lookup(k) = answer[l]
  BY DEF Lookup
<1> QED
  BY <1>3, <1>4 DEF Named

-----------------------------------------------------------------------------
(* One lemma per kind of step.                                             *)

LEMMA InitIInv == Init => IInv
<1> SUFFICES ASSUME Init PROVE IInv
  OBVIOUS
<1>1. Slots = {} /\ Len(trace) = 0 /\ Len(turn) = 0 /\ DOMAIN trace = {}
  BY DEF Init, Slots
<1>2. MaxIterations - 1 \in Nat /\ MaxCalls \in Nat /\ 0 \in 0..MaxIterations
  BY TaskHoursConstantsOK
<1>3. 0 <= (MaxIterations - 1) * MaxCalls
  BY <1>2, TimesMonotone
<1>4. TypeOK
  <2>1. rows \in [Slots -> Estimate \cup {Nothing}]
    BY <1>1 DEF Init
  <2>2. modules \in Seq(Keys) /\ turn \in Seq(Calls) /\ trace \in Seq(Step)
          /\ answer \in Seq(Estimate) /\ breakdown \in Seq(Estimate)
    BY EmptySeq DEF Init
  <2>3. derivations \in [Keys -> 0..Len(trace)]
    BY <1>1 DEF Init
  <2> QED
    <3>1. iterations \in 0..MaxIterations /\ Len(turn) <= MaxCalls
            /\ Len(trace) + Len(turn) <= (MaxIterations - 1) * MaxCalls
      BY <1>1, <1>2, <1>3 DEF Init
    <3> QED
      BY <2>1, <2>2, <2>3, <3>1 DEF Init, TypeOK, Places
<1>5. Progress
  BY <1>1, <1>2 DEF Init, Progress, Answered
<1>6. \A k \in Keys : LastDerivation(k)
  BY <1>1 DEF Init, LastDerivation, Derivations
<1> QED
  BY <1>1, <1>4, <1>5, <1>6
  DEF Init, IInv, RowsOK, AnswerOK, BreakdownOK, Answered

LEMMA SubmitKeeps ==
  ASSUME IInv, NEW s \in Submissions, NEW b \in BOOLEAN, Submit(s, b)
  PROVE  IInv'
<1>1. s \in Seq(Keys) /\ Slots' = DOMAIN s
  BY TaskHoursConstantsOK DEF Submit, Slots
<1>2. Len(trace') = 0 /\ Len(turn') = 0 /\ DOMAIN trace' = {}
  BY DEF Submit
<1>3. MaxIterations - 1 \in Nat /\ MaxCalls \in Nat /\ 0 \in 0..MaxIterations
  BY TaskHoursConstantsOK
<1>4. 0 <= (MaxIterations - 1) * MaxCalls
  BY <1>3, TimesMonotone
<1>5. TypeOK'
  BY <1>1, <1>2, <1>3, <1>4 DEF Submit, TypeOK, Places
<1>6. Progress'
  BY <1>2, <1>3 DEF Submit, Progress, Answered
<1>7. \A k \in Keys : LastDerivation(k)'
  BY <1>2 DEF Submit, LastDerivation, Derivations
<1>8. RowsOK'
  BY <1>1 DEF Submit, RowsOK
<1> QED
  BY <1>5, <1>6, <1>7, <1>8
  DEF Submit, IInv, AnswerOK, BreakdownOK, Answered

\* What the history of the loop says does not change while the trace does not.
LEMMA TraceKept ==
  ASSUME \A k \in Keys : LastDerivation(k), UNCHANGED <<trace, derivations>>
  PROVE  \A k \in Keys : LastDerivation(k)'
BY DEF LastDerivation, Derivations

LEMMA EstimateOneKeeps ==
  ASSUME IInv, NEW i \in Slots, EstimateOne(i)
  PROVE  IInv'
<1>1. PICK e \in Found \cup {NoMatch} : rows' = [rows EXCEPT ![i] = e]
  BY DEF EstimateOne
<1>2. e \in Estimate /\ (e.has_match <=> e.hours)
  <2>1. CASE e \in Found
    <3>1. PICK g \in {"low", "fair"}, b \in BOOLEAN :
            e = [has_match |-> TRUE, hours |-> TRUE, reliability |-> g, range |-> b, by |-> 0]
      BY <2>1 DEF Found
    <3>2. g \in Grades
      BY DEF Grades
    <3> QED
      BY <3>1, <3>2 DEF Estimate
  <2>2. CASE e = NoMatch
    BY <2>2 DEF NoMatch, Estimate, Grades
  <2> QED
    BY <1>1, <2>1, <2>2
<1>3. rows' \in [Slots -> Estimate \cup {Nothing}]
  BY <1>1, <1>2 DEF IInv, TypeOK
<1>4. UNCHANGED <<pc, modules, agent, iterations, turn, trace, derivations, answer,
                  breakdown, asked>> /\ Slots' = Slots /\ pc = "search"
  BY DEF EstimateOne, Slots
<1>5. TypeOK'
  BY <1>3, <1>4 DEF IInv, TypeOK
<1>6. RowsOK'
  BY <1>1, <1>2, <1>4 DEF IInv, TypeOK, RowsOK
<1>7. Progress'
  BY <1>4 DEF IInv, Progress, Answered
<1> QED
  BY <1>4, <1>5, <1>6, <1>7, TraceKept
  DEF IInv, AnswerOK, BreakdownOK, Answered

\* Every failure leaves all as it is.
LEMMA FailingKeeps ==
  ASSUME IInv, pc' = "failed",
         UNCHANGED <<modules, agent, rows, iterations, turn, trace, derivations, answer,
                     breakdown, asked>>
  PROVE  IInv'
<1>1. Slots' = Slots
  BY DEF Slots
<1>2. TypeOK'
  BY <1>1 DEF IInv, TypeOK, Places
<1>3. Progress' /\ RowsOK'
  BY <1>1 DEF IInv, Progress, RowsOK, Answered
<1> QED
  BY <1>2, <1>3, TraceKept DEF IInv, AnswerOK, BreakdownOK, Answered

LEMMA SearchesDoneKeeps ==
  ASSUME IInv, SearchesDone
  PROVE  IInv'
<1>1. UNCHANGED <<modules, agent, rows, iterations, turn, trace, derivations, breakdown,
                  asked>> /\ Slots' = Slots /\ pc = "search"
  BY DEF SearchesDone, Slots
<1>2. \A i \in Slots : rows[i] # Nothing
  BY DEF SearchesDone
<1>3. (pc' = "ask" /\ answer' = answer) \/ (pc' = "answered" /\ answer' = rows)
  BY DEF SearchesDone
<1>4. \A k \in Keys : derivations[k] = 0
  BY <1>1 DEF IInv, Progress, TypeOK
<1>5. Merged = rows
  <2>1. \A i \in Slots : Merged[i] = rows[i]
    BY <1>4, SlotsAre DEF Merged, IInv
  <2> QED
    BY <2>1 DEF Merged, IInv, TypeOK
<1>6. rows \in Seq(Estimate)
  BY <1>2, <1>5, MergedRows DEF IInv
<1>7. TypeOK'
  BY <1>1, <1>3, <1>6 DEF IInv, TypeOK, Places
<1>8. 0 < MaxIterations /\ Len(<<>>) = 0
  BY TaskHoursConstantsOK
<1>9. Progress'
  BY <1>1, <1>3, <1>8 DEF IInv, Progress, Answered
<1>10. RowsOK'
  BY <1>1, <1>2 DEF IInv, RowsOK
<1>11. Merged' = Merged
  BY <1>1 DEF Merged
<1> QED
  BY <1>1, <1>3, <1>5, <1>7, <1>9, <1>10, <1>11, TraceKept
  DEF IInv, AnswerOK, BreakdownOK, Answered

LEMMA ModelTurnKeeps ==
  ASSUME IInv, NEW calls \in Turns, ModelTurn(calls)
  PROVE  IInv'
<1>1. UNCHANGED <<modules, agent, rows, trace, derivations, breakdown>>
        /\ Slots' = Slots /\ pc = "ask"
  BY DEF ModelTurn, Slots
<1>2. calls \in Seq(Calls) /\ Len(calls) \in 0..MaxCalls
  <2>1. PICK n \in 0..MaxCalls : calls \in [1..n -> Calls]
    BY DEF Turns
  <2>2. n \in Nat
    BY TaskHoursConstantsOK
  <2> QED
    BY <2>1, <2>2, FunctionIsSeq, LenProperties
<1>3. /\ iterations \in Nat /\ iterations + 1 \in 0..MaxIterations
      /\ Len(trace) \in Nat /\ Len(turn) = 0 /\ asked = Len(trace)
      /\ Len(trace) <= iterations * MaxCalls
      /\ Len(trace) <= (MaxIterations - 1) * MaxCalls
  BY <1>1, TaskHoursConstantsOK DEF IInv, TypeOK, Progress
<1>4. /\ iterations * MaxCalls \in Nat
      /\ (iterations + 1) * MaxCalls = iterations * MaxCalls + MaxCalls
  BY <1>3, TimesMonotone, TaskHoursConstantsOK
<1>5. iterations' = iterations + 1 /\ asked' = asked + Len(calls)
  BY DEF ModelTurn
<1>6. Merged' = Merged /\ Merged \in Seq(Estimate)
  <2>1. Merged' = Merged
    BY <1>1 DEF Merged
  <2> QED
    BY <1>1, <2>1, MergedRows DEF IInv, RowsOK
<1>7. CASE Stops(calls, iterations + 1)
  <2>1. pc' = "answered" /\ answer' = Merged /\ turn' = <<>> /\ Len(turn') = 0
    BY <1>7 DEF ModelTurn
  <2>2. asked' = Len(trace') \/ iterations' = MaxIterations
    BY <1>1, <1>2, <1>3, <1>5, <1>7, TaskHoursConstantsOK DEF Stops
  <2>3. TypeOK'
    BY <1>1, <1>2, <1>3, <1>5, <1>6, <2>1, TaskHoursConstantsOK DEF IInv, TypeOK, Places
  <2>4. Progress'
    BY <1>1, <1>3, <1>4, <1>5, <2>1, <2>2, TaskHoursConstantsOK DEF Progress, Answered
  <2>5. RowsOK'
    BY <1>1, <2>1 DEF IInv, RowsOK
  <2> QED
    BY <1>1, <1>6, <2>1, <2>3, <2>4, <2>5, TraceKept
    DEF IInv, AnswerOK, BreakdownOK, Answered
<1>8. CASE ~Stops(calls, iterations + 1)
  <2>1. pc' = "tools" /\ answer' = answer /\ turn' = calls
    BY <1>8 DEF ModelTurn
  <2>2. calls # <<>> /\ iterations + 1 < MaxIterations
    BY <1>3, <1>8, TaskHoursConstantsOK DEF Stops
  <2>3. (iterations + 1) * MaxCalls <= (MaxIterations - 1) * MaxCalls
    <3>1. iterations + 1 \in Nat /\ MaxIterations - 1 \in Nat /\ iterations + 1 <= MaxIterations - 1
      BY <1>3, <2>2, TaskHoursConstantsOK
    <3> QED
      BY <3>1, TimesMonotone, TaskHoursConstantsOK
  <2>4. Len(trace) + Len(calls) <= iterations * MaxCalls + MaxCalls
    BY <1>2, <1>3, <1>4, TaskHoursConstantsOK
  <2>5. (MaxIterations - 1) * MaxCalls \in Nat
    <3>1. MaxIterations - 1 \in Nat
      BY TaskHoursConstantsOK
    <3> QED
      BY <3>1, TimesMonotone, TaskHoursConstantsOK
  <2>6. Len(trace') + Len(turn') <= iterations' * MaxCalls
    BY <1>1, <1>4, <1>5, <2>1, <2>4
  <2>7. Len(trace') + Len(turn') <= (MaxIterations - 1) * MaxCalls
    BY <1>1, <1>2, <1>3, <1>4, <2>1, <2>3, <2>4, <2>5, TaskHoursConstantsOK
  <2>8. TypeOK'
    BY <1>1, <1>2, <1>3, <1>5, <2>1, <2>7, TaskHoursConstantsOK DEF IInv, TypeOK, Places
  <2>9. Progress'
    BY <1>1, <1>2, <1>3, <1>5, <2>1, <2>2, <2>6 DEF Progress, Answered
  <2>10. RowsOK'
    BY <1>1, <2>1 DEF IInv, RowsOK
  <2> QED
    BY <1>1, <2>1, <2>8, <2>9, <2>10, TraceKept
    DEF IInv, AnswerOK, BreakdownOK, Answered
<1> QED
  BY <1>7, <1>8

\* Appending a step moves the last derivation of at most one name, to that step.
LEMMA AppendKeeps ==
  ASSUME TypeOK, \A k \in Keys : LastDerivation(k),
         NEW c \in Calls, NEW ok \in BOOLEAN,
         derivations' = Derived(c, ok), trace' = Append(trace, [call |-> c, ok |-> ok])
  PROVE  /\ trace' \in Seq(Step) /\ Len(trace') = Len(trace) + 1
         /\ derivations' \in [Keys -> 0..Len(trace')]
         /\ \A k \in Keys : LastDerivation(k)'
<1> DEFINE new == [call |-> c, ok |-> ok]
<1>1. c \in Call /\ c.key \in Keys /\ new \in Step
  BY TaskHoursConstantsOK DEF Step, Call
<1>2. /\ trace' \in Seq(Step) /\ Len(trace') = Len(trace) + 1 /\ Len(trace) \in Nat
      /\ \A n \in 1..Len(trace) : trace'[n] = trace[n]
      /\ trace'[Len(trace) + 1] = new
  BY <1>1, AppendProperties DEF TypeOK
<1>3. DOMAIN trace = 1..Len(trace) /\ DOMAIN trace' = 1..(Len(trace) + 1)
  BY <1>2, LenProperties DEF TypeOK
<1>4. derivations \in [Keys -> 0..Len(trace)]
  BY DEF TypeOK
<1>5. derivations' \in [Keys -> 0..Len(trace')]
  BY <1>1, <1>2, <1>4 DEF Derived
<1>6. new.call = c /\ new.ok = ok
  OBVIOUS
<1> HIDE DEF new
<1>7. ASSUME NEW k \in Keys PROVE LastDerivation(k)'
  <2> DEFINE hit == ok /\ c.tool = "derive_task_hours" /\ c.key = k
  <2>1. Derivations(k)' = Derivations(k) \cup (IF hit THEN {Len(trace) + 1} ELSE {})
    BY <1>2, <1>3, <1>6 DEF Derivations
  <2>2. derivations'[k] = IF hit THEN Len(trace) + 1 ELSE derivations[k]
    BY <1>1, <1>4 DEF Derived
  <2>3. \A m \in Derivations(k) : m \in Nat /\ m <= Len(trace)
    BY <1>2, <1>3 DEF Derivations
  <2>4. LastDerivation(k)
    OBVIOUS
  <2> HIDE DEF hit
  <2>5. CASE hit
    <3>1. derivations'[k] = Len(trace) + 1
      BY <2>2, <2>5
    <3>2. Derivations(k)' = Derivations(k) \cup {Len(trace) + 1}
      BY <2>1, <2>5
    <3>3. \A m \in Derivations(k)' : m <= derivations'[k]
      BY <1>2, <2>3, <3>1, <3>2
    <3> QED
      BY <3>1, <3>2, <3>3 DEF LastDerivation
  <2>6. CASE ~hit
    <3>1. derivations'[k] = derivations[k] /\ Derivations(k)' = Derivations(k)
      BY <2>1, <2>2, <2>6
    <3> QED
      BY <2>4, <3>1 DEF LastDerivation
  <2> QED
    BY <2>5, <2>6
<1> QED
  BY <1>2, <1>5, <1>7

LEMMA RunCallKeeps ==
  ASSUME IInv, RunCall
  PROVE  IInv'
<1> DEFINE c == Head(turn)
<1>1. UNCHANGED <<modules, agent, rows, iterations, answer, breakdown, asked>>
        /\ Slots' = Slots /\ pc = "tools"
  BY DEF RunCall, Slots
<1>2. turn \in Seq(Calls) /\ turn # <<>>
  BY <1>1 DEF IInv, TypeOK, Progress
<1>3. /\ c \in Calls /\ Len(turn) \in Nat \ {0}
      /\ turn' \in Seq(Calls) /\ Len(turn') = Len(turn) - 1
  <2>1. turn' = Tail(turn)
    BY DEF RunCall
  <2> QED
    BY <1>2, <2>1, HeadTailProperties, EmptySeq
<1>4. pc' = IF Len(turn) = 1 THEN "ask" ELSE "tools"
  BY DEF RunCall
<1>5. Len(turn) = 1 => turn' = <<>>
  BY <1>3, EmptySeq
<1>6. Len(turn) # 1 => turn' # <<>>
  BY <1>3
<1>7. PICK up \in BOOLEAN :
        /\ derivations' = Derived(c, Returns(c, up))
        /\ trace' = Append(trace, [call |-> c, ok |-> Returns(c, up)])
  BY DEF RunCall
<1>8. /\ trace' \in Seq(Step) /\ Len(trace') = Len(trace) + 1
      /\ derivations' \in [Keys -> 0..Len(trace')]
      /\ \A k \in Keys : LastDerivation(k)'
  <2>1. Returns(c, up) \in BOOLEAN
    BY DEF Returns
  <2> QED
    BY <1>3, <1>7, <2>1, AppendKeeps DEF IInv
<1>9. Len(trace) \in Nat /\ Len(trace') + Len(turn') = Len(trace) + Len(turn)
  BY <1>3, <1>8 DEF IInv, TypeOK
<1>10. TypeOK'
  <2>1. Len(turn') <= MaxCalls /\ pc' \in Places
    BY <1>3, <1>4, TaskHoursConstantsOK DEF IInv, TypeOK, Places
  <2> QED
    BY <1>1, <1>3, <1>8, <1>9, <2>1 DEF IInv, TypeOK
<1>11. Progress'
  BY <1>1, <1>4, <1>5, <1>6, <1>9 DEF IInv, Progress, Answered
<1>12. RowsOK'
  BY <1>1, <1>4 DEF IInv, RowsOK
<1> QED
  BY <1>1, <1>4, <1>8, <1>10, <1>11, <1>12
  DEF IInv, AnswerOK, BreakdownOK, Answered

LEMMA SeedKeeps ==
  ASSUME IInv, Seed
  PROVE  IInv'
<1>1. UNCHANGED <<modules, agent, rows, iterations, turn, trace, derivations, answer,
                  asked>> /\ Slots' = Slots /\ pc = "answered" /\ pc' = "seeded"
  BY DEF Seed, Slots
<1>2. breakdown' = [i \in Slots |-> Lookup(modules[i])]
  BY DEF Seed
<1>3. answer = Merged /\ Merged \in [Slots -> Estimate]
  BY <1>1, MergedRows DEF IInv, AnswerOK, Answered, RowsOK
<1>4. \A i \in Slots : Lookup(modules[i]) \in Estimate
  BY <1>3, LookupFinds DEF IInv
<1>5. breakdown' \in Seq(Estimate)
  <2>1. breakdown' \in [Slots -> Estimate]
    BY <1>2, <1>4
  <2> QED
    BY <2>1, SlotsAre, FunctionIsSeq DEF IInv
<1>6. TypeOK'
  BY <1>1, <1>5 DEF IInv, TypeOK, Places
<1>7. Progress' /\ RowsOK'
  BY <1>1 DEF IInv, Progress, RowsOK, Answered
<1>8. Merged' = Merged
  BY <1>1 DEF Merged
<1>9. breakdown' = [i \in Slots |-> Lookup(modules[i])]'
  BY <1>1, <1>2 DEF Lookup, Named
<1> QED
  BY <1>1, <1>3, <1>6, <1>7, <1>8, <1>9, TraceKept
  DEF IInv, AnswerOK, BreakdownOK, Answered

LEMMA StutterKeeps ==
  ASSUME IInv, UNCHANGED vars
  PROVE  IInv'
<1>1. Slots' = Slots /\ Merged' = Merged
  BY DEF vars, Slots, Merged
<1>2. TypeOK' /\ Progress' /\ RowsOK'
  BY <1>1 DEF vars, IInv, TypeOK, Progress, RowsOK, Answered
<1>3. AnswerOK'
  BY <1>1 DEF vars, IInv, AnswerOK, Answered
<1>4. BreakdownOK'
  <2>1. [i \in Slots |-> Lookup(modules[i])]' = [i \in Slots |-> Lookup(modules[i])]
    BY <1>1 DEF vars, Lookup, Named
  <2> QED
    BY <2>1 DEF vars, IInv, BreakdownOK
<1> QED
  BY <1>2, <1>3, <1>4, TraceKept DEF IInv, vars

LEMMA NextKeeps ==
  ASSUME IInv, [Next]_vars
  PROVE  IInv'
<1>1. CASE \E s \in Submissions, b \in BOOLEAN : Submit(s, b)
  BY <1>1, SubmitKeeps
<1>2. CASE \E i \in Slots : EstimateOne(i)
  BY <1>2, EstimateOneKeeps
<1>3. CASE SearchFails \/ ModelFails \/ RunCallRaises
  <2>1. /\ pc' = "failed"
        /\ UNCHANGED <<modules, agent, rows, iterations, turn, trace, derivations,
                       answer, breakdown, asked>>
    BY <1>3 DEF SearchFails, ModelFails, RunCallRaises
  <2> QED
    BY <2>1, FailingKeeps
<1>4. CASE SearchesDone
  BY <1>4, SearchesDoneKeeps
<1>5. CASE \E calls \in Turns : ModelTurn(calls)
  BY <1>5, ModelTurnKeeps
<1>6. CASE RunCall
  BY <1>6, RunCallKeeps
<1>7. CASE Seed
  BY <1>7, SeedKeeps
<1>8. CASE UNCHANGED vars
  BY <1>8, StutterKeeps
<1> QED
  BY <1>1, <1>2, <1>3, <1>4, <1>5, <1>6, <1>7, <1>8 DEF Next

LEMMA Invariant == Spec => []IInv
BY InitIInv, NextKeeps, PTL DEF Spec

-----------------------------------------------------------------------------
(* The theorems.                                                           *)

\* Type correctness; in particular the agent never takes more turns, nor runs
\* more calls, than the bound of the request allows.
THEOREM TypeCorrect == Spec => []TypeOK
<1>1. IInv => TypeOK
  BY DEF IInv
<1> QED
  BY <1>1, Invariant, PTL

\* The hours of every row are what its own search found, or those of the last
\* derivation of its name in the trace, whatever the model calls.
THEOREM TracedAnswers == Spec => []AnswerTraced
<1>1. IInv => AnswerTraced
  <2> SUFFICES ASSUME IInv, Answered PROVE AnswerTraced
    BY DEF AnswerTraced
  <2>1. answer = Merged /\ DOMAIN answer = Slots
    BY DEF IInv, AnswerOK, Merged
  <2> SUFFICES ASSUME NEW i \in Slots
               PROVE  LET D == Derivations(modules[i]) IN
                      \/ /\ answer[i] = rows[i]
                         /\ \A n \in D : trace[n].call.grade # "none" =>
                              \E m \in D : m > n /\ trace[m].call.grade = "none"
                      \/ \E n \in D :
                           /\ \A m \in D : m <= n
                           /\ trace[n].call.grade # "none"
                           /\ answer[i].by = n /\ answer[i].reliability = trace[n].call.grade
                           /\ answer[i].has_match /\ answer[i].hours /\ ~answer[i].range
    BY <2>1 DEF AnswerTraced
  <2> DEFINE k == modules[i]  n == derivations[k]
  <2>2. k \in Keys /\ LastDerivation(k)
    BY SlotsAre DEF IInv
  <2>3. \A m \in Derivations(k) : m \in 1..Len(trace)
    BY DEF IInv, TypeOK, Derivations
  <2>4. CASE n \in Derivations(k) /\ trace[n].call.grade # "none"
    <3>1. n > 0 /\ \A m \in Derivations(k) : m <= n
      BY <2>2, <2>3, <2>4 DEF LastDerivation
    <3>2. answer[i] = [rows[i] EXCEPT !.has_match = TRUE, !.hours = TRUE,
                           !.reliability = trace[n].call.grade, !.range = FALSE, !.by = n]
      BY <2>1, <2>4, <3>1 DEF Merged
    <3>3. rows[i] \in Estimate
      BY DEF IInv, TypeOK, RowsOK, Answered
    <3>4. /\ answer[i].by = n /\ answer[i].reliability = trace[n].call.grade
          /\ answer[i].has_match /\ answer[i].hours /\ ~answer[i].range
      BY <3>2, <3>3 DEF Estimate
    <3> QED
      BY <2>4, <3>1, <3>4
  <2>5. CASE n \in Derivations(k) /\ trace[n].call.grade = "none"
    <3>1. answer[i] = rows[i]
      BY <2>1, <2>5 DEF Merged
    <3>2. ASSUME NEW m \in Derivations(k), trace[m].call.grade # "none"
          PROVE  n > m
      <4>1. m <= n /\ m # n /\ m \in Nat /\ n \in Nat
        BY <2>2, <2>3, <2>5, <3>2 DEF LastDerivation
      <4> QED
        BY <4>1
    <3> QED
      BY <2>5, <3>1, <3>2
  <2>6. CASE n = 0 /\ Derivations(k) = {}
    <3>1. ~(n > 0)
      BY <2>6
    <3>2. answer[i] = rows[i]
      BY <2>1, <3>1 DEF Merged
    <3> QED
      BY <2>6, <3>2
  <2> QED
    BY <2>2, <2>4, <2>5, <2>6 DEF LastDerivation
<1> QED
  BY <1>1, Invariant, PTL

\* Every task of the breakdown carries the answer to a task of its own module
\* and name, and is matched exactly if it has hours.
THEOREM TracedBreakdown == Spec => []BreakdownTraced
<1>1. IInv => BreakdownTraced
  <2> SUFFICES ASSUME IInv, pc = "seeded" PROVE BreakdownTraced
    BY DEF BreakdownTraced
  <2>1. breakdown = [i \in Slots |-> Lookup(modules[i])]
    BY DEF IInv, BreakdownOK
  <2>2. answer = Merged /\ \A i \in Slots : Merged[i].has_match <=> Merged[i].hours
    BY MergedRows DEF IInv, AnswerOK, Answered, RowsOK
  <2>3. ASSUME NEW i \in Slots
        PROVE  /\ \E j \in Slots : modules[j] = modules[i] /\ breakdown[i] = answer[j]
               /\ breakdown[i].has_match <=> breakdown[i].hours
    <3>1. PICK j \in Slots : modules[j] = modules[i] /\ Lookup(modules[i]) = answer[j]
      BY LookupFinds DEF IInv
    <3> QED
      BY <2>1, <2>2, <3>1
  <2> QED
    BY <2>1, <2>3 DEF BreakdownTraced
<1> QED
  BY <1>1, Invariant, PTL

\* Short of the bound, no call the model asked for is dropped.
THEOREM NoCallDropped == Spec => []NothingDropped
<1>1. IInv => NothingDropped
  BY DEF IInv, TypeOK, Progress, NothingDropped
<1> QED
  BY <1>1, Invariant, PTL

-----------------------------------------------------------------------------
(* The Streamlit page and its sessions, which share no state with the      *)
(* hours.                                                                  *)

Messages == Seq([role : {"user", "assistant"}, content : Nat])
Answers == [of : Description, metadata : Metadata, messages : Messages]
TurnRecords == [post : Nat, answer : Answers, metadata : Metadata]
Bodies == [answer : Answers, metadata : Metadata]

Windows == [messages : Messages, metadata : Metadata]
Posts == [session : Nat, of : Description, entry : Nat,
          status : {"pending", "error", "ok", "shown", "gone"}, body : Bodies \cup {None}]
Entry == [key : [of : Description, known : Texts \cup {None}], answer : Answers]
ShownTurns == [post : Nat, answer : Answers]
Pages == [session : Nat \cup {None}, turns : Seq(ShownTurns),
          panel : Metadata, history : Messages, version : Nat, waiting : Nat]

TalkTypes ==
  /\ sessions \in Seq(Windows \cup {None})
  /\ log \in Seq(Seq(TurnRecords)) /\ Len(log) = Len(sessions)
  /\ posts \in Seq(Posts)
  /\ caches \in [exact : SUBSET Entry, semantic : SUBSET Answers]
  /\ page \in Pages
  /\ form \in [entry : Nat, of : Description \cup {None}]

\* A session in memory is the window and the metadata that its turns have left.
SessionsKept ==
  \A s \in DOMAIN sessions : Alive(s) =>
    /\ sessions[s].messages = Pairs(Context(log[s], Len(log[s]) + 1))
    /\ sessions[s].metadata = MetadataBefore(log[s], Len(log[s]) + 1)

\* No answer in the caches was computed in a conversation.
OutOfContext(c) ==
  /\ \A e \in c.exact :
       /\ e.answer.messages = <<>> /\ e.answer.metadata = NoMetadata
       /\ e.key.of = e.answer.of
  /\ \A a \in c.semantic : a.messages = <<>> /\ a.metadata = NoMetadata

\* A turn is in the history of the session it was posted to, once, as it was answered.
RecordedOnce ==
  \A s \in DOMAIN log : \A k \in DOMAIN log[s] :
    LET i == log[s][k].post
    IN /\ i \in DOMAIN posts /\ posts[i].session = s /\ posts[i].status \in {"ok", "shown"}
       /\ posts[i].body = [answer |-> log[s][k].answer, metadata |-> log[s][k].metadata]
       /\ \A l \in DOMAIN log[s] : log[s][l].post = i => l = k

OkRecorded ==
  \A i \in DOMAIN posts : posts[i].status = "ok" =>
    /\ posts[i].session \in DOMAIN log
    /\ \E k \in DOMAIN log[posts[i].session] : log[posts[i].session][k].post = i

\* The page waits for the last turn posted, to the session it is attached to.
Attached ==
  /\ page.session = None => page.turns = <<>> /\ page.waiting = 0
  /\ page.session # None => page.session \in DOMAIN log
  /\ page.waiting # 0 =>
       /\ page.waiting = Len(posts) /\ page.session # None
       /\ posts[page.waiting].session = page.session

\* What is in the form was never sent and shown.
Entries ==
  \A i \in DOMAIN posts :
    /\ posts[i].entry <= form.entry
    /\ posts[i].status = "shown" /\ posts[i].entry = form.entry => form.of = None
    /\ posts[i].status = "shown" =>
         \A j \in DOMAIN posts : i < j => posts[i].entry # posts[j].entry

\* The k-th turn of the session the page is attached to was post i.
At(i, k) == k \in DOMAIN log[page.session] /\ log[page.session][k].post = i

\* The turns shown are recorded, in their order and ahead of the one waited for.
TurnsRecorded ==
  \A t \in DOMAIN page.turns : \E k : At(page.turns[t].post, k)
                                      /\ log[page.session][k].answer = page.turns[t].answer
TurnsOrdered ==
  /\ \A t, u \in DOMAIN page.turns : t < u =>
       \A k, l : At(page.turns[t].post, k) /\ At(page.turns[u].post, l) => k < l
  /\ page.waiting # 0 =>
       \A t \in DOMAIN page.turns :
         \A k, l : At(page.turns[t].post, k) /\ At(page.waiting, l) => k < l

\* The sidebar shows what the k-th turn of a history left, with the window after it
\* or after an earlier one.
ShownAt(panel, history, l, k) ==
  /\ k \in 0..Len(l)
  /\ panel = MetadataBefore(l, k + 1)
  /\ \E h \in 0..k : history = Pairs(Context(l, h + 1))

\* That turn is none before the turns shown, and one before the turn waited for.
PanelRecent ==
  page.session # None =>
    \E k \in Nat :
      /\ ShownAt(page.panel, page.history, log[page.session], k)
      /\ \A t \in DOMAIN page.turns : \A j : At(page.turns[t].post, j) => j <= k
      /\ page.waiting # 0 => \A j : At(page.waiting, j) => k < j

TalkInv ==
  /\ TalkTypes /\ SessionsKept /\ OutOfContext(caches) /\ AnswersInContext
  /\ RecordedOnce /\ OkRecorded /\ Attached /\ Entries
  /\ TurnsRecorded /\ TurnsOrdered /\ PanelRecent

-----------------------------------------------------------------------------

\* The turns of a history that a window leaves out, and the messages of the whole
\* history: of each turn the user's, then the assistant's.
Left(l) == IF Len(l) > MaxTurns THEN Len(l) - MaxTurns ELSE 0
Message(l, m) ==
  [role |-> IF m % 2 = 1 THEN "user" ELSE "assistant", content |-> l[(m + 1) \div 2].post]

LEMMA LeftType ==
  ASSUME StreamlitConstantsOK, NEW l \in Seq(TurnRecords)
  PROVE  Left(l) \in Nat /\ Left(l) <= Len(l) /\ Len(l) \in Nat
  BY DEF Left, StreamlitConstantsOK

LEMMA MessageType ==
  ASSUME NEW l \in Seq(TurnRecords), NEW m \in 1..(2 * Len(l))
  PROVE  (m + 1) \div 2 \in 1..Len(l)
         /\ Message(l, m) \in [role : {"user", "assistant"}, content : Nat]
<1>1. (m + 1) \div 2 \in 1..Len(l)
  OBVIOUS
<1>2. \A r \in TurnRecords : r.post \in Nat
  BY DEF TurnRecords
<1>3. l[(m + 1) \div 2].post \in Nat
  BY <1>1, <1>2
<1> QED
  BY <1>1, <1>3 DEF Message

\* The turns that are still seen.
LEMMA ContextOf ==
  ASSUME StreamlitConstantsOK, NEW l \in Seq(TurnRecords), NEW k \in Nat, k = Len(l) + 1
  PROVE  /\ Context(l, k) \in Seq(TurnRecords)
         /\ Len(Context(l, k)) = Len(l) - Left(l)
         /\ \A i \in 1..(Len(l) - Left(l)) : Context(l, k)[i] = l[Left(l) + i]
<1> DEFINE n == Len(l)
           f == Left(l)
           c == Context(l, k)
           first == IF k > MaxTurns THEN k - MaxTurns ELSE 1
<1>1. n \in Nat /\ f \in Nat /\ f <= n
  BY LeftType
<1>2. c = SubSeq(l, f + 1, n)
  <2>1. first = f + 1 /\ k - 1 = n
    BY DEF Left, StreamlitConstantsOK
  <2>2. c = SubSeq(l, first, k - 1)
    BY DEF Context
  <2> HIDE DEF f, n, c, first
  <2> QED
    BY <2>1, <2>2
<1>3. \A i \in (f + 1)..n : l[i] \in TurnRecords
  BY <1>1
<1> HIDE DEF f, c
<1>4. /\ c \in Seq(TurnRecords)
      /\ Len(c) = IF f + 1 <= n THEN n - (f + 1) + 1 ELSE 0
      /\ \A i \in 1..(n - (f + 1) + 1) : c[i] = l[(f + 1) + i - 1]
  BY <1>1, <1>2, <1>3, SubSeqProperties
<1>5. n - (f + 1) + 1 = n - f /\ Len(c) = n - f
  BY <1>1, <1>4
<1>6. \A i \in 1..(n - f) : (f + 1) + i - 1 = f + i
  BY <1>1
<1> QED
  BY <1>4, <1>5, <1>6 DEF c, f

\* The window is the end of the whole history.
IsWindow(p, l) ==
  /\ p \in Messages /\ Len(p) = 2 * Len(l) - 2 * Left(l)
  /\ \A m \in 1..Len(p) : p[m] = Message(l, 2 * Left(l) + m)

LEMMA WindowOf ==
  ASSUME StreamlitConstantsOK, NEW l \in Seq(TurnRecords), NEW k \in Nat, k = Len(l) + 1,
         NEW p, p = Pairs(Context(l, k))
  PROVE  IsWindow(p, l)
<1> DEFINE c == Context(l, k)
           f == Left(l)
           d == 2 * f
           n == Len(l)
           q == 2 * Len(c)
           M == [role : {"user", "assistant"}, content : Nat]
<1>1. /\ c \in Seq(TurnRecords) /\ Len(c) = n - f
      /\ \A i \in 1..(n - f) : c[i] = l[f + i]
  BY ContextOf
<1>2. n \in Nat /\ f \in Nat /\ f <= n
  BY LeftType
<1>3. p = [m \in 1..q |-> Message(c, m)]
  BY DEF Pairs, Message
<1> HIDE DEF c, f
<1>4. q \in Nat /\ q = 2 * n - d
  BY <1>1, <1>2
<1>5. \A m \in 1..q : Message(c, m) \in M /\ (m + 1) \div 2 \in 1..(n - f)
  BY <1>1, MessageType
<1>6. p \in [1..q -> M]
  <2> HIDE DEF M, q
  <2> QED
    BY <1>3, <1>5
<1>7. p \in Messages /\ Len(p) = q
  <2> HIDE DEF M, q
  <2>1. p \in Seq(M) /\ Len(p) = q
    BY <1>4, <1>6
  <2> QED
    BY <2>1 DEF Messages, M
<1>8. ASSUME NEW m \in 1..q PROVE Message(c, m) = Message(l, d + m)
  <2>1. (d + m) % 2 = m % 2 /\ (d + m + 1) \div 2 = f + (m + 1) \div 2
    BY <1>2, <1>4
  <2>2. c[(m + 1) \div 2] = l[f + (m + 1) \div 2]
    BY <1>1, <1>5
  <2> QED
    BY <2>1, <2>2 DEF Message
<1> QED
  BY <1>3, <1>4, <1>7, <1>8 DEF f, IsWindow

\* Trim leaves a window that is not full, and takes the oldest pair off one that
\* a message makes overfull.
LEMMA TrimKeeps ==
  ASSUME StreamlitConstantsOK, NEW messages \in Messages, Len(messages) <= 2 * MaxTurns
  PROVE  Trim(messages) = messages
  BY DEF Trim, StreamlitConstantsOK, Messages

LEMMA TrimDrops ==
  ASSUME StreamlitConstantsOK, NEW messages \in Messages,
         Len(messages) = 2 * MaxTurns + 1, messages[3].role = "user"
  PROVE  /\ Trim(messages) \in Messages
         /\ Len(Trim(messages)) = 2 * MaxTurns - 1
         /\ \A m \in 1..(2 * MaxTurns - 1) : Trim(messages)[m] = messages[m + 2]
<1> DEFINE M == [role : {"user", "assistant"}, content : Nat]
           n == 2 * MaxTurns + 1
           kept == SubSeq(messages, 3, n)
<1>1. MaxTurns \in Nat /\ MaxTurns > 0 /\ n \in Nat /\ n >= 3 /\ messages \in Seq(M)
  BY DEF StreamlitConstantsOK, Messages
<1>2. /\ Len(messages) - 2 * MaxTurns = 1 /\ 1 + (1 % 2) + 1 = 3
  BY <1>1
<1>3. \A i \in 3..n : messages[i] \in M
  <2> HIDE DEF M
  <2> QED
    BY <1>1
<1>4. /\ kept \in Seq(M) /\ Len(kept) = n - 2
      /\ \A i \in 1..(n - 2) : kept[i] = messages[i + 2]
  <2> HIDE DEF M, n
  <2>1. /\ SubSeq(messages, 3, n) \in Seq(M)
        /\ Len(SubSeq(messages, 3, n)) = IF 3 <= n THEN n - 3 + 1 ELSE 0
        /\ \A i \in 1..(n - 3 + 1) : SubSeq(messages, 3, n)[i] = messages[3 + i - 1]
    BY <1>1, <1>3, SubSeqProperties
  <2>2. n - 3 + 1 = n - 2 /\ \A i \in 1..(n - 2) : 3 + i - 1 = i + 2
    BY <1>1
  <2> QED
    BY <1>1, <2>1, <2>2
<1>5. kept # <<>> /\ Head(kept).role = "user"
  <2>1. 1 \in 1..(n - 2) /\ Len(kept) # 0 /\ 1 + 2 = 3
    BY <1>1, <1>4
  <2>2. kept[1] = messages[3]
    BY <1>4, <2>1
  <2>3. kept # <<>> /\ Head(kept) = kept[1]
    <3> HIDE DEF kept, M
    <3> QED
      BY <1>4, <2>1
  <2> QED
    BY <2>2, <2>3
<1>6. Trim(messages) = kept
  BY <1>1, <1>2, <1>5 DEF Trim
<1> QED
  BY <1>1, <1>4, <1>6 DEF Messages


\* A history and the one it becomes with a next turn.
Grown(L, l, rec) == L = Append(l, rec)

\* The messages of a history and those of the next turn.
LEMMA MessagesAppended ==
  ASSUME NEW l \in Seq(TurnRecords), NEW rec \in TurnRecords, NEW L, Grown(L, l, rec)
  PROVE  /\ L \in Seq(TurnRecords) /\ Len(L) = Len(l) + 1
         /\ \A m \in 1..(2 * Len(l)) : Message(L, m) = Message(l, m)
         /\ Message(L, 2 * Len(l) + 1) = [role |-> "user", content |-> rec.post]
         /\ Message(L, 2 * Len(l) + 2) = [role |-> "assistant", content |-> rec.post]
<1> DEFINE n == Len(l)
<1>1. /\ n \in Nat /\ L \in Seq(TurnRecords) /\ Len(L) = n + 1
      /\ \A i \in 1..n : L[i] = l[i]
      /\ L[n + 1] = rec
  BY DEF Grown
<1>2. ASSUME NEW m \in 1..(2 * n) PROVE Message(L, m) = Message(l, m)
  <2>1. (m + 1) \div 2 \in 1..n
    BY MessageType
  <2> QED
    BY <1>1, <2>1 DEF Message
<1>3. /\ (2 * n + 1) % 2 = 1 /\ (2 * n + 1 + 1) \div 2 = n + 1
      /\ (2 * n + 2) % 2 = 0 /\ (2 * n + 2 + 1) \div 2 = n + 1
  BY <1>1
<1>4. /\ Message(L, 2 * n + 1) = [role |-> "user", content |-> rec.post]
      /\ Message(L, 2 * n + 2) = [role |-> "assistant", content |-> rec.post]
  BY <1>1, <1>3 DEF Message
<1> QED
  BY <1>1, <1>2, <1>4

\* Appending to a sequence of messages.
LEMMA MessageAppended ==
  ASSUME NEW s \in Messages, NEW r \in {"user", "assistant"}, NEW i \in Nat,
         NEW e, e = [role |-> r, content |-> i]
  PROVE  /\ Append(s, e) \in Messages /\ Len(Append(s, e)) = Len(s) + 1 /\ Len(s) \in Nat
         /\ \A m \in 1..Len(s) : Append(s, e)[m] = s[m]
         /\ Append(s, e)[Len(s) + 1] = e
<1> DEFINE M == [role : {"user", "assistant"}, content : Nat]
<1>1. e \in M /\ s \in Seq(M)
  BY DEF Messages
<1> HIDE DEF M
<1>2. /\ Append(s, e) \in Seq(M) /\ Len(Append(s, e)) = Len(s) + 1 /\ Len(s) \in Nat
      /\ \A m \in 1..Len(s) : Append(s, e)[m] = s[m]
      /\ Append(s, e)[Len(s) + 1] = e
  BY <1>1
<1> QED
  BY <1>2 DEF Messages, M

\* When the pair of a next turn is added to the window of a history, it is the
\* window of the longer one.
LEMMA WindowMoves ==
  ASSUME StreamlitConstantsOK, NEW l \in Seq(TurnRecords), NEW rec \in TurnRecords,
         NEW L, Grown(L, l, rec), NEW old, IsWindow(old, l), NEW p, IsWindow(p, L),
         NEW new, new = Add(Add(old, "user", rec.post), "assistant", rec.post)
  PROVE  new = p
<1> DEFINE n == Len(l)
           d == 2 * Left(l)
           e == 2 * Left(L)
           user == [role |-> "user", content |-> rec.post]
           reply == [role |-> "assistant", content |-> rec.post]
           full == Append(old, user)
           half == Trim(full)
           more == Append(half, reply)
<1>0. /\ MaxTurns \in Nat /\ MaxTurns > 0 /\ n \in Nat /\ rec.post \in Nat
      /\ L \in Seq(TurnRecords) /\ Len(L) = n + 1
      /\ \A m \in 1..(2 * n) : Message(L, m) = Message(l, m)
      /\ Message(L, 2 * n + 1) = user
      /\ Message(L, 2 * n + 2) = reply
  <2>1. MaxTurns \in Nat /\ MaxTurns > 0
    BY DEF StreamlitConstantsOK
  <2>2. rec.post \in Nat
    BY DEF TurnRecords
  <2>3. n \in Nat
    OBVIOUS
  <2> QED
    BY <2>1, <2>2, <2>3, MessagesAppended
<1>1. /\ d \in Nat /\ (IF n > MaxTurns THEN d = 2 * n - 2 * MaxTurns ELSE d = 0)
      /\ e \in Nat /\ (IF n + 1 > MaxTurns THEN e = 2 * n + 2 - 2 * MaxTurns ELSE e = 0)
  BY <1>0 DEF Left
<1>2. /\ old \in Messages /\ Len(old) = 2 * n - d
      /\ \A m \in 1..Len(old) : old[m] = Message(l, d + m)
  BY DEF IsWindow
<1>3. /\ p \in Messages /\ Len(p) = 2 * n + 2 - e
      /\ \A m \in 1..Len(p) : p[m] = Message(L, e + m)
  <2>1. /\ p \in Messages /\ Len(p) = 2 * Len(L) - e
        /\ \A m \in 1..Len(p) : p[m] = Message(L, e + m)
    BY DEF IsWindow
  <2> HIDE DEF e
  <2> QED
    BY <1>0, <1>1, <2>1
<1>4. new = Trim(more)
  BY DEF Add
<1> HIDE DEF d, e, user, reply, full, half, more
<1>5. /\ full \in Messages /\ Len(full) = 2 * n - d + 1
      /\ \A m \in 1..(2 * n - d) : full[m] = Message(L, d + m)
      /\ full[2 * n - d + 1] = Message(L, 2 * n + 1)
  <2>1. /\ full \in Messages /\ Len(full) = Len(old) + 1
        /\ \A m \in 1..Len(old) : full[m] = old[m]
        /\ full[Len(old) + 1] = user
    BY <1>0, <1>2, MessageAppended DEF full, user
  <2>2. ASSUME NEW m \in 1..(2 * n - d) PROVE d + m \in 1..(2 * n)
    BY <1>0, <1>1
  <2> QED
    BY <1>0, <1>1, <1>2, <2>1, <2>2
<1>6. /\ half \in Messages /\ Len(half) = 2 * n + 1 - e
      /\ \A m \in 1..Len(half) : half[m] = Message(L, e + m)
  <2>1. CASE n < MaxTurns
    <3>1. d = 0 /\ e = 0 /\ Len(full) <= 2 * MaxTurns
      BY <1>0, <1>1, <1>5, <2>1
    <3>2. half = full
      BY <1>5, <3>1, TrimKeeps DEF half
    <3>3. \A m \in 1..(2 * n + 1) : m \in 1..(2 * n) \/ m = 2 * n + 1
      BY <1>0
    <3> QED
      BY <1>0, <1>5, <3>1, <3>2, <3>3
  <2>2. CASE n >= MaxTurns
    <3>1. d = 2 * n - 2 * MaxTurns /\ e = d + 2 /\ Len(full) = 2 * MaxTurns + 1
      <4>1. d = 2 * n - 2 * MaxTurns
        BY <1>0, <1>1, <2>2
      <4>2. e = 2 * n + 2 - 2 * MaxTurns
        BY <1>0, <1>1, <2>2
      <4> QED
        BY <1>0, <1>5, <4>1, <4>2
    <3>2. \A m \in 1..Len(full) : full[m] = Message(L, d + m)
      <4>1. \A m \in 1..Len(full) : m \in 1..(2 * n - d) \/ m = 2 * n - d + 1
        BY <1>0, <3>1
      <4>2. d + (2 * n - d + 1) = 2 * n + 1
        BY <1>0, <3>1
      <4> QED
        BY <1>5, <4>1, <4>2
    <3>3. full[3].role = "user"
      <4>1. 3 \in 1..Len(full) /\ (d + 3) % 2 = 1
        BY <1>0, <3>1
      <4>2. Message(L, d + 3).role = "user"
        BY <4>1 DEF Message
      <4> QED
        BY <3>2, <4>1, <4>2
    <3>4. /\ half \in Messages /\ Len(half) = 2 * MaxTurns - 1
          /\ \A m \in 1..(2 * MaxTurns - 1) : half[m] = full[m + 2]
      BY <1>5, <3>1, <3>3, TrimDrops DEF half
    <3>5. ASSUME NEW m \in 1..(2 * MaxTurns - 1) PROVE half[m] = Message(L, e + m)
      <4>1. m + 2 \in 1..Len(full) /\ d + (m + 2) = e + m
        BY <1>0, <3>1
      <4> QED
        BY <3>2, <3>4, <4>1
    <3> QED
      BY <1>0, <3>1, <3>4, <3>5
  <2> QED
    BY <1>0, <2>1, <2>2
<1>7. /\ more \in Messages /\ Len(more) = Len(p)
      /\ \A m \in 1..Len(more) : more[m] = Message(L, e + m)
  <2>1. /\ more \in Messages /\ Len(more) = Len(half) + 1
        /\ \A m \in 1..Len(half) : more[m] = half[m]
        /\ more[Len(half) + 1] = reply
    BY <1>0, <1>6, MessageAppended DEF more, reply
  <2>2. \A m \in 1..Len(more) : m \in 1..Len(half) \/ m = Len(half) + 1
    <3>1. Len(half) \in Nat
      BY <1>6 DEF Messages
    <3> QED
      BY <2>1, <3>1
  <2>3. e + (Len(half) + 1) = 2 * n + 2
    BY <1>0, <1>1, <1>6
  <2>4. Len(more) = Len(p)
    BY <1>0, <1>1, <1>3, <1>6, <2>1
  <2> QED
    BY <1>0, <1>6, <2>1, <2>2, <2>3, <2>4
<1>8. new = more
  <2>1. Len(more) <= 2 * MaxTurns
    BY <1>0, <1>1, <1>3, <1>7
  <2> QED
    BY <1>4, <1>7, <2>1, TrimKeeps
<1> DEFINE M == [role : {"user", "assistant"}, content : Nat]
<1>9. more \in Seq(M) /\ p \in Seq(M)
  BY <1>3, <1>7 DEF Messages
<1>10. Len(more) = Len(p) /\ \A m \in 1..Len(more) : more[m] = p[m]
  BY <1>3, <1>7
<1> HIDE DEF M
<1> QED
  BY <1>8, <1>9, <1>10, SeqEqual

\* The same, of an answer's turn.
LEMMA NextWindow ==
  ASSUME StreamlitConstantsOK, NEW l \in Seq(TurnRecords), NEW rec \in TurnRecords,
         NEW L, Grown(L, l, rec), NEW old, old = Pairs(Context(l, Len(l) + 1)),
         NEW new, new = Add(Add(old, "user", rec.post), "assistant", rec.post)
  PROVE  new \in Messages /\ new = Pairs(Context(L, Len(L) + 1))
<1> DEFINE k == Len(l) + 1
           j == Len(L) + 1
           p == Pairs(Context(L, j))
<1>1. L \in Seq(TurnRecords)
  BY MessagesAppended
<1>2. k \in Nat /\ j \in Nat /\ k = Len(l) + 1 /\ j = Len(L) + 1
  BY <1>1
<1>3. old = Pairs(Context(l, k)) /\ p = Pairs(Context(L, j))
  OBVIOUS
<1> HIDE DEF k, j, p
<1>4. IsWindow(old, l) /\ IsWindow(p, L)
  BY <1>1, <1>2, <1>3, WindowOf
<1>5. new = p
  BY <1>4, WindowMoves
<1>6. p \in Messages
  BY <1>4 DEF IsWindow
<1> QED
  BY <1>5, <1>6 DEF j, p

\* An earlier turn sees the same of a longer history.
LEMMA ContextKept ==
  ASSUME StreamlitConstantsOK, NEW l \in Seq(TurnRecords), NEW rec \in TurnRecords,
         NEW L, Grown(L, l, rec), NEW k \in 1..(Len(l) + 1)
  PROVE  /\ Context(L, k) = Context(l, k)
         /\ MetadataBefore(L, k) = MetadataBefore(l, k)
<1> DEFINE m == IF k > MaxTurns THEN k - MaxTurns ELSE 1
           n == k - 1
<1>1. /\ m \in Nat /\ m >= 1 /\ n \in Nat /\ n <= Len(l) /\ Len(l) \in Nat
      /\ L \in Seq(TurnRecords) /\ \A i \in 1..Len(l) : L[i] = l[i]
  BY DEF StreamlitConstantsOK, Grown
<1>2. Context(L, k) = SubSeq(L, m, n) /\ Context(l, k) = SubSeq(l, m, n)
  BY DEF Context
<1>3. k # 1 => L[k - 1] = l[k - 1]
  BY <1>1
<1>4. MetadataBefore(L, k) = MetadataBefore(l, k)
  BY <1>3 DEF MetadataBefore
<1> HIDE DEF m, n
<1>5. \A i \in m..n : l[i] \in TurnRecords /\ L[i] \in TurnRecords /\ L[i] = l[i]
  BY <1>1
<1>6. /\ SubSeq(l, m, n) \in Seq(TurnRecords)
      /\ Len(SubSeq(l, m, n)) = IF m <= n THEN n - m + 1 ELSE 0
      /\ \A i \in 1..(n - m + 1) : SubSeq(l, m, n)[i] = l[m + i - 1]
  BY <1>1, <1>5, SubSeqProperties
<1>7. /\ SubSeq(L, m, n) \in Seq(TurnRecords)
      /\ Len(SubSeq(L, m, n)) = IF m <= n THEN n - m + 1 ELSE 0
      /\ \A i \in 1..(n - m + 1) : SubSeq(L, m, n)[i] = L[m + i - 1]
  BY <1>1, <1>5, SubSeqProperties
<1>8. \A i \in 1..Len(SubSeq(l, m, n)) : i \in 1..(n - m + 1) /\ m + i - 1 \in m..n
  BY <1>1, <1>6
<1>9. \A i \in 1..Len(SubSeq(l, m, n)) : SubSeq(l, m, n)[i] = SubSeq(L, m, n)[i]
  BY <1>5, <1>6, <1>7, <1>8
<1>10. SubSeq(L, m, n) = SubSeq(l, m, n)
  BY <1>6, <1>7, <1>9, SeqEqual
<1> QED
  BY <1>2, <1>4, <1>10

\* The metadata of a session, and what an extraction may make of it.
LEMMA MetadataTypes ==
  /\ NoMetadata \in Metadata
  /\ \A m \in Metadata, t \in Texts : \A x \in Extracted(m, t) :
       x \in Metadata /\ m.constraints \subseteq x.constraints
<1>1. NoMetadata \in Metadata
  BY DEF NoMetadata, Metadata
<1>2. ASSUME NEW m \in Metadata, NEW t \in Texts, NEW x \in Extracted(m, t)
      PROVE  x \in Metadata /\ m.constraints \subseteq x.constraints
  <2>1. x = m \/ \E z \in {None, t, m.scope}, new \in SUBSET {t} :
                   x = [scope |-> z, constraints |-> m.constraints \cup new]
    BY <1>2 DEF Extracted, MergedMetadata
  <2> QED
    BY <2>1 DEF Metadata
<1> QED
  BY <1>1, <1>2

\* An answer to a description: computed in its context or, out of any, taken from
\* a cache, where it stands for a similar one.
LEMMA EstimatedIsHonest ==
  ASSUME caches \in [exact : SUBSET Entry, semantic : SUBSET Answers], OutOfContext(caches),
         NEW d \in Description, NEW m \in Metadata, NEW messages \in Messages,
         messages = <<>> => m = NoMetadata,
         NEW r \in Estimated(d, m, messages)
  PROVE  /\ r.answer \in Answers /\ r.answer.messages = messages /\ r.answer.metadata = m
         /\ r.answer.of = d \/ (messages = <<>> /\ Similar(r.answer.of, d))
         /\ r.caches \in [exact : SUBSET Entry, semantic : SUBSET Answers] /\ OutOfContext(r.caches)
<1> DEFINE fresh == Answer(d, m, messages)
           key == ExactKey(d, m)
<1>1. /\ fresh \in Answers /\ fresh.of = d /\ fresh.metadata = m /\ fresh.messages = messages
  BY DEF Answer, Answers
<1>2. key \in [of : Description, known : Texts \cup {None}] /\ key.of = d
  BY DEF ExactKey, Fingerprint, Metadata
<1>3. CASE messages # <<>>
  <2>1. r = [answer |-> fresh, caches |-> caches]
    BY <1>3 DEF Estimated, IsMultiTurn
  <2> QED
    BY <1>1, <2>1
<1>4. CASE messages = <<>>
  <2> DEFINE kept == Stored(key, fresh)
  <2>1. \/ \E a \in Hits(d, m) \cup SemanticHits(d, m) : r = [answer |-> a, caches |-> caches]
        \/ \E c \in {caches, kept} : r = [answer |-> fresh, caches |-> c]
    BY <1>4 DEF Estimated, IsMultiTurn
  <2>2. ASSUME NEW a \in Hits(d, m)
        PROVE  a \in Answers /\ a.messages = messages /\ a.metadata = m /\ a.of = d
    <3>1. PICK e \in caches.exact : e.key = key /\ a = e.answer
      BY <2>2 DEF Hits
    <3>2. e \in Entry
      OBVIOUS
    <3> QED
      BY <1>2, <1>4, <3>1, <3>2 DEF OutOfContext, Entry
  <2>3. ASSUME NEW a \in SemanticHits(d, m)
        PROVE  a \in Answers /\ a.messages = messages /\ a.metadata = m /\ Similar(a.of, d)
    BY <1>4, <2>3 DEF SemanticHits, OutOfContext
  <2>4. kept \in [exact : SUBSET Entry, semantic : SUBSET Answers] /\ OutOfContext(kept)
    <3>1. kept = [exact |-> {e \in caches.exact : e.key # key} \cup {[key |-> key, answer |-> fresh]},
                  semantic |-> caches.semantic \cup {a \in {fresh} : a.metadata.scope = None}]
      BY DEF Stored
    <3>2. [key |-> key, answer |-> fresh] \in Entry
      BY <1>1, <1>2 DEF Entry
    <3> HIDE DEF kept, key, fresh
    <3>3. kept \in [exact : SUBSET Entry, semantic : SUBSET Answers]
      BY <1>1, <3>1, <3>2
    <3>4. OutOfContext(kept)
      BY <1>1, <1>2, <1>4, <3>1 DEF OutOfContext
    <3> QED
      BY <3>3, <3>4
  <2> HIDE DEF kept, key, fresh
  <2>5. CASE \E a \in Hits(d, m) \cup SemanticHits(d, m) : r = [answer |-> a, caches |-> caches]
    BY <1>4, <2>2, <2>3, <2>5
  <2>6. CASE \E c \in {caches, kept} : r = [answer |-> fresh, caches |-> c]
    BY <1>1, <2>4, <2>6
  <2> QED
    BY <2>1, <2>5, <2>6
<1> QED
  BY <1>3, <1>4

-----------------------------------------------------------------------------
(* The steps of the page and of the service behind it.                     *)

\* No turn posted is forgotten or changed once it has its answer.
PostsKept ==
  \A i \in DOMAIN posts :
    /\ i \in DOMAIN posts'
    /\ posts'[i].of = posts[i].of /\ posts'[i].session = posts[i].session
    /\ posts[i].status \in {"ok", "shown"} =>
         posts'[i].body = posts[i].body /\ posts'[i].status \in {"ok", "shown"}

LEMMA HistoryKept ==
  ASSUME TalkInv, log' = log, PostsKept
  PROVE  AnswersInContext' /\ RecordedOnce'
<1>1. RecordedOnce'
  BY DEF TalkInv, RecordedOnce, PostsKept
<1>2. \A s \in DOMAIN log : \A k \in DOMAIN log[s] :
        posts'[log[s][k].post].of = posts[log[s][k].post].of
  <2>1. \A s \in DOMAIN log : \A k \in DOMAIN log[s] : log[s][k].post \in DOMAIN posts
    BY DEF TalkInv, RecordedOnce
  <2> QED
    BY <2>1 DEF PostsKept
<1>3. AnswersInContext'
  BY <1>2 DEF TalkInv, AnswersInContext
<1> QED
  BY <1>1, <1>3

\* The page shows the same of the same history.
LEMMA ShownKept ==
  ASSUME TalkInv, log' = log, page'.session = page.session, page'.turns = page.turns,
         page'.panel = page.panel, page'.history = page.history,
         page'.waiting \in {0, page.waiting}
  PROVE  TurnsRecorded' /\ TurnsOrdered' /\ PanelRecent'
<1>1. \A i, k : At(i, k)' <=> At(i, k)
  BY DEF At
<1> QED
  BY <1>1 DEF TalkInv, TurnsRecorded, TurnsOrdered, PanelRecent, At

LEMMA TalkInitial ==
  ASSUME StreamlitConstantsOK, TalkInit
  PROVE  TalkInv
<1>1. /\ sessions = <<>> /\ log = <<>> /\ posts = <<>>
      /\ caches = [exact |-> {}, semantic |-> {}]
      /\ page = [session |-> None, turns |-> <<>>, panel |-> NoMetadata, history |-> <<>>,
                 version |-> 0, waiting |-> 0]
      /\ form = [entry |-> 0, of |-> None]
  BY DEF TalkInit, Page
<1>2. TalkTypes
  BY <1>1, MetadataTypes DEF TalkTypes, Pages, Messages
<1>3. SessionsKept /\ OutOfContext(caches) /\ AnswersInContext /\ RecordedOnce /\ OkRecorded
  BY <1>1 DEF SessionsKept, OutOfContext, AnswersInContext, RecordedOnce, OkRecorded
<1>4. Attached /\ Entries /\ TurnsRecorded /\ TurnsOrdered /\ PanelRecent
  BY <1>1 DEF Attached, Entries, TurnsRecorded, TurnsOrdered, PanelRecent
<1> QED
  BY <1>2, <1>3, <1>4 DEF TalkInv

LEMMA StatelessStep ==
  ASSUME StreamlitConstantsOK, TalkInv, EstimateStateless
  PROVE  TalkInv'
<1>1. UNCHANGED <<sessions, posts, page, form, log>>
  BY DEF EstimateStateless
<1>2. PICK t \in Texts :
        \E r \in Estimated([text |-> t, file |-> None], NoMetadata, <<>>) : caches' = r.caches
  BY DEF EstimateStateless
<1>3. [text |-> t, file |-> None] \in Description /\ <<>> \in Messages
  BY DEF Description, Messages
<1>4. caches' \in [exact : SUBSET Entry, semantic : SUBSET Answers] /\ OutOfContext(caches')
  <2>1. caches \in [exact : SUBSET Entry, semantic : SUBSET Answers] /\ OutOfContext(caches)
    BY DEF TalkInv, TalkTypes
  <2> QED
    BY <1>2, <1>3, <2>1, MetadataTypes, EstimatedIsHonest
<1>5. PostsKept
  BY <1>1 DEF PostsKept
<1>6. TalkTypes' /\ SessionsKept' /\ OkRecorded' /\ Attached' /\ Entries'
  <2>1. TalkTypes'
    BY <1>1, <1>4 DEF TalkInv, TalkTypes
  <2>2. SessionsKept'
    BY <1>1 DEF TalkInv, SessionsKept, Alive
  <2>3. OkRecorded' /\ Attached' /\ Entries'
    BY <1>1 DEF TalkInv, OkRecorded, Attached, Entries
  <2> QED
    BY <2>1, <2>2, <2>3
<1> QED
  BY <1>1, <1>4, <1>5, <1>6, HistoryKept, ShownKept DEF TalkInv

\* Turns that were under way end without an answer, and a session may be gone.
LEMMA PendingEnds ==
  ASSUME StreamlitConstantsOK, TalkInv, UNCHANGED <<caches, page, form, log>>,
         sessions' \in Seq(Windows \cup {None}), Len(sessions') = Len(sessions),
         \A s \in DOMAIN sessions : sessions'[s] = sessions[s] \/ sessions'[s] = None,
         posts' \in Seq(Posts), Len(posts') = Len(posts),
         \A i \in DOMAIN posts :
           \/ posts'[i] = posts[i]
           \/ /\ posts[i].status = "pending"
              /\ \E x \in {"error", "gone"} : posts'[i] = [posts[i] EXCEPT !.status = x]
  PROVE  TalkInv'
<1>1. DOMAIN posts' = DOMAIN posts /\ DOMAIN sessions' = DOMAIN sessions
  BY DEF TalkInv, TalkTypes
<1>2. \A i \in DOMAIN posts :
        /\ posts'[i].of = posts[i].of /\ posts'[i].session = posts[i].session
        /\ posts'[i].entry = posts[i].entry
        /\ posts'[i].status \in {"ok", "shown"} \/ posts[i].status \in {"ok", "shown"} => posts'[i] = posts[i]
  <2> SUFFICES ASSUME NEW i \in DOMAIN posts
      PROVE  /\ posts'[i].of = posts[i].of /\ posts'[i].session = posts[i].session
             /\ posts'[i].entry = posts[i].entry
             /\ posts'[i].status \in {"ok", "shown"} \/ posts[i].status \in {"ok", "shown"}
                  => posts'[i] = posts[i]
    OBVIOUS
  <2>1. CASE posts'[i] = posts[i]
    BY <2>1
  <2>2. CASE posts'[i] # posts[i]
    <3>1. PICK x \in {"error", "gone"} : posts[i].status = "pending" /\ posts'[i] = [posts[i] EXCEPT !.status = x]
      BY <2>2
    <3>2. posts[i] \in Posts
      BY DEF TalkInv, TalkTypes
    <3> QED
      BY <3>1, <3>2 DEF Posts
  <2> QED
    BY <2>1, <2>2
<1>3. PostsKept
  BY <1>1, <1>2 DEF PostsKept
<1>4. TalkTypes'
  BY DEF TalkInv, TalkTypes
<1>5. SessionsKept'
  BY <1>1 DEF TalkInv, SessionsKept, Alive
<1>6. OkRecorded' /\ Attached' /\ Entries'
  <2>1. OkRecorded'
    BY <1>1, <1>2 DEF TalkInv, OkRecorded
  <2>2. Attached'
    <3>1. page.waiting # 0 => page.waiting \in DOMAIN posts
      BY DEF TalkInv, TalkTypes, Attached
    <3> QED
      BY <1>2, <3>1 DEF TalkInv, Attached
  <2>3. Entries'
    BY <1>1, <1>2 DEF TalkInv, Entries
  <2> QED
    BY <2>1, <2>2, <2>3
<1>7. OutOfContext(caches)'
  BY DEF TalkInv, OutOfContext
<1>8. TurnsRecorded' /\ TurnsOrdered' /\ PanelRecent'
  BY ShownKept
<1> QED
  BY <1>3, <1>4, <1>5, <1>6, <1>7, <1>8, HistoryKept DEF TalkInv

LEMMA FailsStep ==
  ASSUME StreamlitConstantsOK, TalkInv, EstimateFails
  PROVE  TalkInv'
<1>1. UNCHANGED <<sessions, caches, page, form, log>>
  BY DEF EstimateFails
<1>2. PICK i \in Pending : posts' = [posts EXCEPT ![i].status = "error"]
  BY DEF EstimateFails
<1>3. i \in DOMAIN posts /\ posts[i].status = "pending"
  BY DEF Pending
<1>4. posts' \in Seq(Posts) /\ Len(posts') = Len(posts)
  <2>1. \A x \in Posts : [x EXCEPT !.status = "error"] \in Posts
    BY DEF Posts
  <2>2. posts \in Seq(Posts)
    BY DEF TalkInv, TalkTypes
  <2> QED
    BY <1>2, <1>3, <2>1, <2>2
<1>5. \A j \in DOMAIN posts :
        posts'[j] = posts[j] \/ (posts[j].status = "pending" /\ posts'[j] = [posts[j] EXCEPT !.status = "error"])
  BY <1>2, <1>3
<1>6. sessions \in Seq(Windows \cup {None})
  BY DEF TalkInv, TalkTypes
<1> QED
  BY <1>1, <1>4, <1>5, <1>6, PendingEnds

LEMMA RestartStep ==
  ASSUME StreamlitConstantsOK, TalkInv, Restart
  PROVE  TalkInv'
<1>1. /\ UNCHANGED <<caches, page, form, log>>
      /\ sessions' = [s \in DOMAIN sessions |-> None]
      /\ posts' = [i \in DOMAIN posts |->
           IF i \in Pending THEN [posts[i] EXCEPT !.status = "gone"] ELSE posts[i]]
  BY DEF Restart
<1>2. sessions' \in Seq(Windows \cup {None}) /\ Len(sessions') = Len(sessions)
  BY <1>1 DEF TalkInv, TalkTypes
<1>3. \A i \in DOMAIN posts :
        \/ posts'[i] = posts[i]
        \/ posts[i].status = "pending" /\ posts'[i] = [posts[i] EXCEPT !.status = "gone"]
  BY <1>1 DEF Pending
<1>4. posts' \in Seq(Posts) /\ Len(posts') = Len(posts)
  <2>1. \A x \in Posts : [x EXCEPT !.status = "gone"] \in Posts
    BY DEF Posts
  <2>2. posts \in Seq(Posts)
    BY DEF TalkInv, TalkTypes
  <2>3. \A i \in DOMAIN posts : posts'[i] \in Posts
    <3> SUFFICES ASSUME NEW i \in DOMAIN posts PROVE posts'[i] \in Posts
      OBVIOUS
    <3>1. posts[i] \in Posts /\ [posts[i] EXCEPT !.status = "gone"] \in Posts
      BY <2>1, <2>2
    <3> QED
      BY <1>3, <3>1
  <2> QED
    BY <1>1, <2>2, <2>3
<1> QED
  BY <1>1, <1>2, <1>3, <1>4, PendingEnds

LEMMA GiveUpStep ==
  ASSUME StreamlitConstantsOK, TalkInv, GiveUp
  PROVE  TalkInv'
<1>1. UNCHANGED <<sessions, caches, posts, form, log>> /\ page' = [page EXCEPT !.waiting = 0]
  BY DEF GiveUp
<1>2. /\ page' \in Pages /\ page'.waiting = 0
      /\ page'.session = page.session /\ page'.turns = page.turns
      /\ page'.panel = page.panel /\ page'.history = page.history
  BY <1>1 DEF TalkInv, TalkTypes, Pages
<1>3. TalkTypes' /\ SessionsKept' /\ OutOfContext(caches)'
  <2>1. TalkTypes'
    BY <1>1, <1>2 DEF TalkInv, TalkTypes
  <2>2. SessionsKept' /\ OutOfContext(caches)'
    BY <1>1 DEF TalkInv, SessionsKept, OutOfContext, Alive
  <2> QED
    BY <2>1, <2>2
<1>4. OkRecorded' /\ Attached' /\ Entries'
  BY <1>1, <1>2 DEF TalkInv, OkRecorded, Attached, Entries
<1>5. PostsKept
  BY <1>1 DEF PostsKept
<1> QED
  BY <1>1, <1>2, <1>3, <1>4, <1>5, HistoryKept, ShownKept DEF TalkInv

\* What the page is refreshed to: what the last turn of its session left.
LEMMA PageRefreshed ==
  ASSUME TalkInv, page.session # None, NEW p \in Pages, p.session = page.session,
         NEW q \in Refreshed(p)
  PROVE  /\ q \in Pages /\ q.session = p.session /\ q.turns = p.turns /\ q.waiting = p.waiting
         /\ \/ q.panel = p.panel /\ q.history = p.history
            \/ ShownAt(q.panel, q.history, log[page.session], Len(log[page.session]))
<1> DEFINE s == page.session
           n == Len(log[s])
<1>1. CASE q = p
  BY <1>1
<1>2. CASE q # p
  <2>1. Alive(s) /\ q = [p EXCEPT !.panel = sessions[s].metadata, !.history = sessions[s].messages]
    BY <1>2 DEF Refreshed, Snapshot
  <2>2. sessions[s] \in Windows /\ s \in DOMAIN log /\ log[s] \in Seq(TurnRecords) /\ s \in DOMAIN sessions
    <3>1. s \in DOMAIN sessions /\ sessions[s] # None
      BY <2>1 DEF Alive
    <3>2. sessions \in Seq(Windows \cup {None}) /\ log \in Seq(Seq(TurnRecords)) /\ Len(log) = Len(sessions)
      BY DEF TalkInv, TalkTypes
    <3> HIDE DEF s
    <3> QED
      BY <3>1, <3>2
  <2>3. sessions[s].messages \in Messages /\ sessions[s].metadata \in Metadata
    BY <2>2 DEF Windows
  <2>4. \A m \in Metadata, h \in Messages : LET z == [p EXCEPT !.panel = m, !.history = h]
                                           IN /\ z \in Pages /\ z.session = p.session /\ z.turns = p.turns
                                              /\ z.waiting = p.waiting /\ z.panel = m /\ z.history = h
    BY DEF Pages
  <2>5. /\ q \in Pages /\ q.session = p.session /\ q.turns = p.turns /\ q.waiting = p.waiting
        /\ q.panel = sessions[s].metadata /\ q.history = sessions[s].messages
    BY <2>1, <2>3, <2>4
  <2>6. q.panel = MetadataBefore(log[s], n + 1) /\ q.history = Pairs(Context(log[s], n + 1))
    BY <2>1, <2>2, <2>5 DEF TalkInv, SessionsKept
  <2>7. n \in 0..n
    BY <2>2
  <2> QED
    BY <2>5, <2>6, <2>7 DEF ShownAt
<1> QED
  BY <1>1, <1>2

LEMMA SubmitStep ==
  ASSUME StreamlitConstantsOK, TalkInv, SubmitTurn
  PROVE  TalkInv'
<1> DEFINE n == Len(posts)
<1>1. page.session # None /\ page.waiting = 0 /\ UNCHANGED <<sessions, caches, log>>
  BY DEF SubmitTurn, Idle
<1>2. PICK d \in Description :
        LET entry == IF d = form.of THEN form.entry ELSE form.entry + 1
        IN /\ form' = [entry |-> entry, of |-> d]
           /\ posts' = Append(posts, [session |-> page.session, of |-> d, entry |-> entry,
                                      status |-> "pending", body |-> None])
  BY DEF SubmitTurn, PostEstimate
<1> DEFINE entry == IF d = form.of THEN form.entry ELSE form.entry + 1
           new == [session |-> page.session, of |-> d, entry |-> entry, status |-> "pending", body |-> None]
<1> DEFINE p == [page EXCEPT !.waiting = n + 1]
<1>3. page' \in Refreshed(p)
  BY DEF SubmitTurn
<1>4. /\ n \in Nat /\ form.entry \in Nat /\ entry \in Nat /\ page.session \in Nat
      /\ form' = [entry |-> entry, of |-> d] /\ posts' = Append(posts, new)
      /\ posts \in Seq(Posts) /\ page \in Pages /\ d # None
  BY <1>1, <1>2 DEF TalkInv, TalkTypes, Pages, StreamlitConstantsOK
<1>5. new \in Posts /\ new.session = page.session /\ new.entry = entry /\ new.status = "pending"
  BY <1>4 DEF Posts
<1> HIDE DEF entry, new
<1>6. /\ posts' \in Seq(Posts) /\ Len(posts') = n + 1 /\ DOMAIN posts' = 1..(n + 1)
      /\ \A i \in DOMAIN posts : i \in DOMAIN posts' /\ posts'[i] = posts[i]
      /\ posts'[n + 1] = new
      /\ \A i \in DOMAIN posts' : i \in DOMAIN posts \/ i = n + 1
      /\ DOMAIN posts = 1..n
  BY <1>4, <1>5
<1>7. /\ p \in Pages /\ p.session = page.session /\ p.turns = page.turns /\ p.waiting = n + 1
      /\ p.panel = page.panel /\ p.history = page.history
  <2>1. n + 1 \in Nat /\ page \in Pages
    BY <1>4
  <2> HIDE DEF n
  <2> QED
    BY <2>1 DEF Pages
<1> HIDE DEF p
<1>8. /\ page' \in Pages /\ page'.waiting = n + 1
      /\ page'.session = page.session /\ page'.turns = page.turns
      /\ \/ page'.panel = page.panel /\ page'.history = page.history
         \/ ShownAt(page'.panel, page'.history, log[page.session], Len(log[page.session]))
  BY <1>1, <1>3, <1>7, PageRefreshed
<1>9. \A i, k : At(i, k)' <=> At(i, k)
  BY <1>1, <1>8 DEF At
<1>10. page.session \in DOMAIN log /\ \A k : ~ At(n + 1, k)
  <2>1. page.session \in DOMAIN log
    BY <1>1 DEF TalkInv, Attached
  <2>2. \A k \in DOMAIN log[page.session] : log[page.session][k].post \in DOMAIN posts
    BY <2>1 DEF TalkInv, RecordedOnce
  <2> QED
    BY <1>4, <1>6, <2>1, <2>2 DEF At
<1>11. TalkTypes' /\ SessionsKept' /\ OutOfContext(caches)'
  <2>1. form' \in [entry : Nat, of : Description \cup {None}]
    BY <1>4
  <2>2. TalkTypes'
    BY <1>1, <1>6, <1>8, <2>1 DEF TalkInv, TalkTypes
  <2>3. SessionsKept' /\ OutOfContext(caches)'
    BY <1>1 DEF TalkInv, SessionsKept, OutOfContext, Alive
  <2> QED
    BY <2>2, <2>3
<1>12. OkRecorded' /\ Attached' /\ PostsKept
  <2>1. OkRecorded'
    BY <1>1, <1>5, <1>6 DEF TalkInv, OkRecorded
  <2>2. Attached'
    BY <1>1, <1>4, <1>5, <1>6, <1>8, <1>10 DEF Attached
  <2>3. PostsKept
    BY <1>6 DEF PostsKept
  <2> QED
    BY <2>1, <2>2, <2>3
<1>13. Entries'
  <2>1. form'.entry = entry /\ form.entry <= entry
    BY <1>4 DEF entry
  <2>2. ASSUME NEW i \in DOMAIN posts
        PROVE  posts[i].entry <= entry /\ (posts[i].status = "shown" => posts[i].entry # entry)
    <3>1. posts[i].entry \in Nat
      <4>1. posts[i] \in Posts
        BY <1>4
      <4> QED
        BY <4>1 DEF Posts
    <3>2. /\ posts[i].entry <= form.entry
          /\ posts[i].status = "shown" /\ posts[i].entry = form.entry => form.of = None
      BY DEF TalkInv, Entries
    <3> QED
      BY <1>4, <3>1, <3>2 DEF entry
  <2>3. ASSUME NEW i \in DOMAIN posts'
        PROVE  /\ posts'[i].entry <= form'.entry
               /\ posts'[i].status = "shown" => posts'[i].entry # form'.entry
               /\ posts'[i].status = "shown" =>
                    \A j \in DOMAIN posts' : i < j => posts'[i].entry # posts'[j].entry
    <3>1. CASE i \in DOMAIN posts
      BY <1>5, <1>6, <2>1, <2>2, <3>1 DEF TalkInv, Entries
    <3>2. CASE i = n + 1
      BY <1>4, <1>5, <1>6, <2>1, <3>2
    <3> QED
      BY <1>6, <3>1, <3>2
  <2> QED
    BY <2>3 DEF Entries
<1>14. TurnsRecorded' /\ TurnsOrdered'
  BY <1>1, <1>8, <1>9, <1>10 DEF TalkInv, TurnsRecorded, TurnsOrdered
<1>15. PanelRecent'
  <2> SUFFICES \E k \in Nat :
                 /\ ShownAt(page'.panel, page'.history, log[page.session], k)
                 /\ \A t \in DOMAIN page.turns : \A j : At(page.turns[t].post, j) => j <= k
    BY <1>1, <1>8, <1>9, <1>10 DEF PanelRecent
  <2>1. CASE page'.panel = page.panel /\ page'.history = page.history
    BY <1>1, <2>1 DEF TalkInv, PanelRecent
  <2>2. CASE ShownAt(page'.panel, page'.history, log[page.session], Len(log[page.session]))
    <3>1. log[page.session] \in Seq(TurnRecords)
      BY <1>10 DEF TalkInv, TalkTypes
    <3>2. /\ Len(log[page.session]) \in Nat
          /\ \A i, l : At(i, l) => l <= Len(log[page.session])
      BY <3>1 DEF At
    <3> QED
      BY <2>2, <3>2
  <2> QED
    BY <1>8, <2>1, <2>2
<1> QED
  BY <1>1, <1>11, <1>12, <1>13, <1>14, <1>15, HistoryKept DEF TalkInv

LEMMA ShowTurnStep ==
  ASSUME StreamlitConstantsOK, TalkInv, ShowTurn
  PROVE  TalkInv'
<1> DEFINE w == page.waiting
           b == posts[w].body
           s == page.session
           T == page.turns
<1>1. /\ w # 0 /\ posts[w].status = "ok"
      /\ posts' = [posts EXCEPT ![w].status = "shown"]
      /\ form' = [form EXCEPT !.of = None]
      /\ UNCHANGED <<sessions, caches, log>>
  BY DEF ShowTurn, ClearForm
<1>2. /\ w \in Nat /\ w = Len(posts) /\ s # None /\ posts[w].session = s /\ s \in DOMAIN log
      /\ posts \in Seq(Posts) /\ w \in DOMAIN posts /\ posts[w] \in Posts
      /\ page \in Pages /\ T \in Seq(ShownTurns) /\ s \in Nat
  BY <1>1 DEF TalkInv, TalkTypes, Attached, Pages
<1>3. PICK k0 : At(w, k0)
  BY <1>1, <1>2 DEF TalkInv, OkRecorded, At
<1>4. /\ log[s] \in Seq(TurnRecords) /\ k0 \in DOMAIN log[s] /\ log[s] # <<>>
      /\ log[s][k0].post = w /\ log[s][k0] \in TurnRecords
      /\ b = [answer |-> log[s][k0].answer, metadata |-> log[s][k0].metadata]
      /\ \A l : At(w, l) => l = k0
  <2>1. log[s] \in Seq(TurnRecords)
    BY <1>2 DEF TalkInv, TalkTypes
  <2>2. k0 \in DOMAIN log[s] /\ log[s][k0].post = w
    BY <1>3 DEF At
  <2>3. /\ b = [answer |-> log[s][k0].answer, metadata |-> log[s][k0].metadata]
        /\ \A l \in DOMAIN log[s] : log[s][l].post = w => l = k0
    BY <1>2, <2>2 DEF TalkInv, RecordedOnce
  <2> QED
    BY <2>1, <2>2, <2>3 DEF At
<1>5. /\ b.answer = log[s][k0].answer /\ b.metadata = log[s][k0].metadata
      /\ b.answer \in Answers /\ b.metadata \in Metadata
  <2>1. \A r \in TurnRecords : r.answer \in Answers /\ r.metadata \in Metadata
    BY DEF TurnRecords
  <2> HIDE DEF b
  <2> QED
    BY <1>4, <2>1
<1> DEFINE new == [post |-> w, answer |-> b.answer]
<1> DEFINE shown == [page EXCEPT !.turns = Append(@, new), !.panel = b.metadata,
                            !.version = @ + 1, !.waiting = 0]
<1>6. page' \in Refreshed(shown)
  BY DEF ShowTurn
<1>7. b.metadata = MetadataBefore(log[s], k0 + 1) /\ k0 \in Nat /\ k0 \in 0..Len(log[s])
  <2>1. k0 \in Nat /\ k0 \in 0..Len(log[s]) /\ k0 + 1 # 1 /\ k0 + 1 - 1 = k0
    BY <1>4
  <2> HIDE DEF b, s
  <2> QED
    BY <1>5, <2>1 DEF MetadataBefore
<1>8. new \in ShownTurns /\ new.post = w /\ new.answer = b.answer
  BY <1>2, <1>5 DEF ShownTurns
<1> HIDE DEF new
<1>9. /\ page' \in Pages /\ page'.waiting = 0
      /\ page'.session = s /\ page'.turns = Append(T, new)
      /\ \/ page'.panel = b.metadata /\ page'.history = page.history
         \/ ShownAt(page'.panel, page'.history, log[s], Len(log[s]))
  <2>1. Append(T, new) \in Seq(ShownTurns) /\ page.version + 1 \in Nat
    BY <1>2, <1>8 DEF Pages
  <2> DEFINE made(t, m, v) == [page EXCEPT !.turns = t, !.panel = m, !.version = v, !.waiting = 0]
             more == Append(T, new)
             data == b.metadata
  <2>2. \A t \in Seq(ShownTurns), m \in Metadata, v \in Nat :
          /\ made(t, m, v) \in Pages /\ made(t, m, v).session = page.session
          /\ made(t, m, v).turns = t /\ made(t, m, v).waiting = 0
          /\ made(t, m, v).panel = m /\ made(t, m, v).history = page.history
    BY <1>2 DEF Pages
  <2>3. shown = made(more, data, page.version + 1)
    BY <1>2 DEF Pages
  <2>4. more \in Seq(ShownTurns) /\ data \in Metadata
    BY <1>5, <2>1
  <2> HIDE DEF shown, more, data, made
  <2>5. /\ shown \in Pages /\ shown.session = page.session /\ shown.turns = more /\ shown.waiting = 0
        /\ shown.panel = data /\ shown.history = page.history
    BY <2>1, <2>2, <2>3, <2>4
  <2>6. /\ shown \in Pages /\ shown.session = page.session /\ shown.turns = Append(T, new) /\ shown.waiting = 0
        /\ shown.panel = b.metadata /\ shown.history = page.history
    BY <2>5 DEF more, data
  <2> QED
    BY <1>2, <1>6, <2>6, PageRefreshed
<1> HIDE DEF shown
<1>10. /\ DOMAIN posts' = DOMAIN posts /\ posts' \in Seq(Posts) /\ Len(posts') = Len(posts)
       /\ \A i \in DOMAIN posts :
            /\ posts'[i].of = posts[i].of /\ posts'[i].session = posts[i].session
            /\ posts'[i].entry = posts[i].entry /\ posts'[i].body = posts[i].body
            /\ i # w => posts'[i].status = posts[i].status
       /\ posts'[w].status = "shown"
  <2>1. \A p \in Posts : LET q == [p EXCEPT !.status = "shown"]
                         IN /\ q \in Posts /\ q.of = p.of /\ q.session = p.session
                            /\ q.entry = p.entry /\ q.body = p.body /\ q.status = "shown"
    BY DEF Posts
  <2>2. posts'[w] = [posts[w] EXCEPT !.status = "shown"]
    BY <1>1, <1>2
  <2>3. posts' \in Seq(Posts) /\ Len(posts') = Len(posts) /\ DOMAIN posts' = DOMAIN posts
    BY <1>1, <1>2, <2>1
  <2>4. \A i \in DOMAIN posts : i # w => posts'[i] = posts[i]
    BY <1>1
  <2>5. ASSUME NEW i \in DOMAIN posts
        PROVE  /\ posts'[i].of = posts[i].of /\ posts'[i].session = posts[i].session
               /\ posts'[i].entry = posts[i].entry /\ posts'[i].body = posts[i].body
               /\ i # w => posts'[i].status = posts[i].status
    <3>1. CASE i = w
      BY <1>2, <2>1, <2>2, <3>1
    <3>2. CASE i # w
      BY <2>4, <3>2
    <3> QED
      BY <3>1, <3>2
  <2>6. posts'[w].status = "shown"
    BY <1>2, <2>1, <2>2
  <2> QED
    BY <2>3, <2>5, <2>6
<1>11. PostsKept
  BY <1>1, <1>10 DEF PostsKept
<1>12. \A i, k : At(i, k)' <=> At(i, k)
  BY <1>1, <1>9 DEF At
<1>13. TalkTypes' /\ SessionsKept' /\ OutOfContext(caches)'
  <2>1. form' \in [entry : Nat, of : Description \cup {None}] /\ form'.entry = form.entry
    BY <1>1 DEF TalkInv, TalkTypes
  <2>2. TalkTypes'
    BY <1>1, <1>9, <1>10, <2>1 DEF TalkInv, TalkTypes
  <2>3. SessionsKept' /\ OutOfContext(caches)'
    BY <1>1 DEF TalkInv, SessionsKept, OutOfContext, Alive
  <2> QED
    BY <2>2, <2>3
<1>14. OkRecorded' /\ Attached'
  <2>1. OkRecorded'
    BY <1>1, <1>10 DEF TalkInv, OkRecorded
  <2>2. Attached'
    BY <1>1, <1>2, <1>9 DEF Attached
  <2> QED
    BY <2>1, <2>2
<1>15. Entries'
  <2>1. form'.entry = form.entry /\ form'.of = None
    BY <1>1 DEF TalkInv, TalkTypes
  <2>2. \A i \in DOMAIN posts : i < w \/ i = w
    BY <1>2
  <2>3. \A j \in DOMAIN posts : ~ (w < j)
    BY <1>2
  <2>4. ASSUME NEW i \in DOMAIN posts
        PROVE  /\ posts'[i].entry <= form'.entry
               /\ posts'[i].status = "shown" /\ posts'[i].entry = form'.entry => form'.of = None
               /\ posts'[i].status = "shown" =>
                    \A j \in DOMAIN posts : i < j => posts'[i].entry # posts'[j].entry
    <3>1. CASE i = w
      BY <1>10, <2>1, <2>3, <3>1 DEF TalkInv, Entries
    <3>2. CASE i # w
      BY <1>10, <2>1, <3>2 DEF TalkInv, Entries
    <3> QED
      BY <3>1, <3>2
  <2> QED
    BY <1>10, <2>4 DEF Entries
<1>16. /\ Len(T) \in Nat /\ DOMAIN T = 1..Len(T)
       /\ DOMAIN page'.turns = 1..(Len(T) + 1) /\ page'.turns[Len(T) + 1] = new
       /\ \A t \in DOMAIN T : page'.turns[t] = T[t]
       /\ \A t \in DOMAIN page'.turns : t \in DOMAIN T \/ t = Len(T) + 1
  BY <1>2, <1>8, <1>9
<1>17. \A t \in DOMAIN T : \A k : At(T[t].post, k) => k < k0
  BY <1>1, <1>3 DEF TalkInv, TurnsOrdered
<1>18. TurnsRecorded'
  <2> SUFFICES ASSUME NEW t \in DOMAIN page'.turns
      PROVE  \E k : At(page'.turns[t].post, k) /\ log[s][k].answer = page'.turns[t].answer
    BY <1>1, <1>9, <1>12 DEF TurnsRecorded
  <2>1. CASE t \in DOMAIN T
    BY <1>16, <2>1 DEF TalkInv, TurnsRecorded
  <2>2. CASE t = Len(T) + 1
    BY <1>3, <1>5, <1>8, <1>16, <2>2
  <2> QED
    BY <1>16, <2>1, <2>2
<1>19. TurnsOrdered'
  <2> SUFFICES ASSUME NEW t \in DOMAIN page'.turns, NEW u \in DOMAIN page'.turns, t < u,
                      NEW k, NEW l, At(page'.turns[t].post, k), At(page'.turns[u].post, l)
      PROVE  k < l
    BY <1>9, <1>12 DEF TurnsOrdered
  <2>1. CASE u \in DOMAIN T
    <3>1. t \in DOMAIN T
      BY <1>16, <2>1
    <3> QED
      BY <1>16, <2>1, <3>1 DEF TalkInv, TurnsOrdered
  <2>2. CASE u = Len(T) + 1
    <3>1. t \in DOMAIN T
      BY <1>16, <2>2
    <3>2. l = k0
      BY <1>4, <1>8, <1>16, <2>2
    <3> QED
      BY <1>16, <1>17, <3>1, <3>2
  <2> QED
    BY <1>16, <2>1, <2>2
<1>20. PanelRecent'
  <2>1. PICK k \in Nat : k0 <= k /\ ShownAt(page'.panel, page'.history, log[s], k)
    <3>1. CASE page'.panel = b.metadata /\ page'.history = page.history
      <4>1. PICK j \in Nat : /\ ShownAt(page.panel, page.history, log[s], j)
                             /\ j < k0
        BY <1>1, <1>2, <1>3 DEF TalkInv, PanelRecent
      <4>2. \E h \in 0..k0 : page.history = Pairs(Context(log[s], h + 1))
        BY <1>7, <4>1 DEF ShownAt
      <4>3. ShownAt(page'.panel, page'.history, log[s], k0)
        BY <1>7, <3>1, <4>2 DEF ShownAt
      <4> QED
        BY <1>7, <4>3
    <3>2. CASE ShownAt(page'.panel, page'.history, log[s], Len(log[s]))
      BY <1>4, <3>2
    <3> QED
      BY <1>9, <3>1, <3>2
  <2>2. ASSUME NEW t \in DOMAIN page'.turns, NEW l, At(page'.turns[t].post, l)
        PROVE  l <= k
    <3>1. k \in Nat /\ k0 \in Nat
      BY <1>7, <2>1
    <3>2. l \in DOMAIN log[s]
      BY <2>2 DEF At
    <3>3. l \in Nat
      BY <1>4, <3>2
    <3>4. CASE t \in DOMAIN T
      <4>1. page'.turns[t] = T[t]
        BY <1>16, <3>4
      <4>2. l < k0
        BY <1>17, <2>2, <3>4, <4>1
      <4> QED
        BY <2>1, <3>1, <3>3, <4>2
    <3>5. CASE t = Len(T) + 1
      <4>1. l = k0
        BY <1>4, <1>8, <1>16, <2>2, <3>5
      <4> QED
        BY <2>1, <4>1
    <3> QED
      BY <1>16, <3>4, <3>5
  <2> QED
    BY <1>1, <1>9, <1>12, <2>1, <2>2 DEF PanelRecent
<1> QED
  BY <1>1, <1>11, <1>13, <1>14, <1>15, <1>18, <1>19, <1>20, HistoryKept DEF TalkInv

\* Before its first turn a session has no messages.
LEMMA NoWindow ==
  ASSUME StreamlitConstantsOK
  PROVE  Pairs(Context(<<>>, 1)) = <<>> /\ MetadataBefore(<<>>, 1) = NoMetadata
<1> DEFINE p == Pairs(Context(<<>>, 1))
<1>1. <<>> \in Seq(TurnRecords) /\ Len(<<>>) = 0 /\ 1 = Len(<<>>) + 1 /\ 1 \in Nat
  OBVIOUS
<1>2. IsWindow(p, <<>>)
  BY <1>1, WindowOf
<1> HIDE DEF p
<1>3. p \in Messages /\ Len(p) = 0
  BY <1>1, <1>2 DEF IsWindow, Left, StreamlitConstantsOK
<1> QED
  BY <1>3 DEF Messages, MetadataBefore, p

\* The page starts again, on a new session or on none.
LEMMA FreshPage ==
  ASSUME StreamlitConstantsOK, TalkInv, UNCHANGED <<caches, posts>>,
         page' \in Pages, page'.turns = <<>>, page'.waiting = 0,
         page'.session \in {None, Len(sessions) + 1},
         page'.session # None => page'.panel = NoMetadata /\ page'.history = <<>>,
         form' = form \/ form' = [form EXCEPT !.of = None],
         \/ UNCHANGED <<sessions, log>> /\ page'.session = None
         \/ /\ sessions' = Append(sessions, [messages |-> <<>>, metadata |-> NoMetadata])
            /\ log' = Append(log, <<>>)
  PROVE  TalkInv'
<1>1. form' \in [entry : Nat, of : Description \cup {None}] /\ form'.entry = form.entry
      /\ form'.of \in {form.of, None}
  BY DEF TalkInv, TalkTypes
<1>2. Entries'
  BY <1>1 DEF TalkInv, Entries
<1>3. TurnsRecorded' /\ TurnsOrdered'
  BY DEF TurnsRecorded, TurnsOrdered
<1>4. OutOfContext(caches)'
  BY DEF TalkInv, OutOfContext
<1>5. PostsKept
  BY DEF PostsKept
<1>6. CASE UNCHANGED <<sessions, log>> /\ page'.session = None
  <2>1. TalkTypes'
    BY <1>1, <1>6 DEF TalkInv, TalkTypes
  <2>2. SessionsKept' /\ OkRecorded' /\ Attached' /\ PanelRecent'
    BY <1>6 DEF TalkInv, SessionsKept, Alive, OkRecorded, Attached, PanelRecent
  <2> QED
    BY <1>2, <1>3, <1>4, <1>5, <1>6, <2>1, <2>2, HistoryKept DEF TalkInv
<1>7. CASE /\ sessions' = Append(sessions, [messages |-> <<>>, metadata |-> NoMetadata])
           /\ log' = Append(log, <<>>)
  <2> DEFINE n == Len(sessions)
             new == [messages |-> <<>>, metadata |-> NoMetadata]
  <2>1. new \in Windows /\ new.messages = <<>> /\ new.metadata = NoMetadata
    BY MetadataTypes DEF Windows, Messages
  <2>2. sessions \in Seq(Windows \cup {None}) /\ log \in Seq(Seq(TurnRecords)) /\ Len(log) = n
    BY DEF TalkInv, TalkTypes
  <2> HIDE DEF new
  <2>3. /\ n \in Nat /\ sessions' \in Seq(Windows \cup {None}) /\ Len(sessions') = n + 1
        /\ sessions'[n + 1] = new /\ DOMAIN sessions = 1..n /\ DOMAIN sessions' = 1..(n + 1)
        /\ \A s \in DOMAIN sessions : sessions'[s] = sessions[s]
    <3>1. sessions' = Append(sessions, new)
      BY <1>7 DEF new
    <3> QED
      BY <2>1, <2>2, <3>1
  <2>4. /\ log' \in Seq(Seq(TurnRecords)) /\ Len(log') = n + 1 /\ log'[n + 1] = <<>>
        /\ DOMAIN log = 1..n /\ DOMAIN log' = 1..(n + 1)
        /\ \A s \in DOMAIN log : log'[s] = log[s]
    <3>1. \A e \in Seq(TurnRecords) : log' = Append(log, e) =>
            /\ log' \in Seq(Seq(TurnRecords)) /\ Len(log') = n + 1 /\ log'[n + 1] = e
            /\ DOMAIN log = 1..n /\ DOMAIN log' = 1..(n + 1)
            /\ \A s \in DOMAIN log : log'[s] = log[s]
      BY <2>2
    <3>2. <<>> \in Seq(TurnRecords)
      OBVIOUS
    <3> QED
      BY <1>7, <3>1, <3>2
  <2>5. TalkTypes'
    BY <1>1, <2>3, <2>4 DEF TalkInv, TalkTypes
  <2>6. SessionsKept'
    <3> SUFFICES ASSUME NEW s \in DOMAIN sessions', Alive(s)'
        PROVE  /\ sessions'[s].messages = Pairs(Context(log'[s], Len(log'[s]) + 1))
               /\ sessions'[s].metadata = MetadataBefore(log'[s], Len(log'[s]) + 1)
      BY DEF SessionsKept
    <3>1. CASE s \in DOMAIN sessions
      <4>1. sessions'[s] = sessions[s] /\ log'[s] = log[s] /\ Alive(s)
        BY <2>3, <2>4, <3>1 DEF Alive
      <4> QED
        BY <3>1, <4>1 DEF TalkInv, SessionsKept
    <3>2. CASE s = n + 1
      <4>1. Len(<<>>) + 1 = 1
        OBVIOUS
      <4> QED
        BY <2>1, <2>3, <2>4, <3>2, <4>1, NoWindow
    <3> QED
      BY <2>3, <3>1, <3>2
  <2>7. AnswersInContext'
    <3> SUFFICES ASSUME NEW s \in DOMAIN log', NEW k \in DOMAIN log'[s]
        PROVE  LET rec == log'[s][k]
                   known == MetadataBefore(log'[s], k)
               IN /\ rec.answer.messages = Pairs(Context(log'[s], k))
                  /\ rec.answer.metadata = known
                  /\ known.constraints \subseteq rec.metadata.constraints
                  /\ \/ rec.answer.of = posts[rec.post].of
                     \/ k = 1 /\ Similar(rec.answer.of, posts[rec.post].of)
      BY DEF AnswersInContext
    <3>1. s \in DOMAIN log /\ log'[s] = log[s]
      BY <2>4
    <3> QED
      BY <3>1 DEF TalkInv, AnswersInContext
  <2>8. RecordedOnce'
    <3> SUFFICES ASSUME NEW s \in DOMAIN log', NEW k \in DOMAIN log'[s]
        PROVE  LET i == log'[s][k].post
               IN /\ i \in DOMAIN posts /\ posts[i].session = s /\ posts[i].status \in {"ok", "shown"}
                  /\ posts[i].body = [answer |-> log'[s][k].answer, metadata |-> log'[s][k].metadata]
                  /\ \A l \in DOMAIN log'[s] : log'[s][l].post = i => l = k
      BY DEF RecordedOnce
    <3>1. s \in DOMAIN log /\ log'[s] = log[s]
      BY <2>4
    <3> QED
      BY <3>1 DEF TalkInv, RecordedOnce
  <2>9. OkRecorded'
    <3>1. ASSUME NEW i \in DOMAIN posts, posts[i].status = "ok"
          PROVE  /\ posts[i].session \in DOMAIN log'
                 /\ \E k \in DOMAIN log'[posts[i].session] : log'[posts[i].session][k].post = i
      <4>1. /\ posts[i].session \in DOMAIN log
            /\ \E k \in DOMAIN log[posts[i].session] : log[posts[i].session][k].post = i
        BY <3>1 DEF TalkInv, OkRecorded
      <4>2. posts[i].session \in DOMAIN log' /\ log'[posts[i].session] = log[posts[i].session]
        BY <2>4, <4>1
      <4> QED
        BY <4>1, <4>2
    <3> QED
      BY <3>1 DEF OkRecorded
  <2>10. Attached'
    BY <2>3, <2>4 DEF Attached
  <2>11. PanelRecent'
    <3> SUFFICES ASSUME page'.session = n + 1
        PROVE  ShownAt(NoMetadata, <<>>, <<>>, 0)
      BY <2>4 DEF PanelRecent
    <3>1. 0 \in 0..Len(<<>>) /\ 0 \in 0..0 /\ 0 + 1 = 1
      OBVIOUS
    <3> QED
      BY <3>1, NoWindow DEF ShownAt
  <2> QED
    BY <1>2, <1>3, <1>4, <2>5, <2>6, <2>7, <2>8, <2>9, <2>10, <2>11 DEF TalkInv
<1> QED
  BY <1>6, <1>7

LEMMA EnsureSessionStep ==
  ASSUME StreamlitConstantsOK, TalkInv, EnsureSession
  PROVE  TalkInv'
<1>1. /\ page.session = None /\ UNCHANGED <<caches, posts, form>>
      /\ sessions' = Append(sessions, [messages |-> <<>>, metadata |-> NoMetadata])
      /\ log' = Append(log, <<>>)
      /\ page' \in {Page(Len(sessions) + 1), page}
  BY DEF EnsureSession, Created
<1>2. page \in Pages /\ page.turns = <<>> /\ page.waiting = 0
  BY <1>1 DEF TalkInv, TalkTypes, Attached
<1>3. Len(sessions) + 1 \in Nat
  BY DEF TalkInv, TalkTypes
<1>4. /\ page' \in Pages /\ page'.turns = <<>> /\ page'.waiting = 0
      /\ page'.session \in {None, Len(sessions) + 1}
      /\ page'.session # None => page'.panel = NoMetadata /\ page'.history = <<>>
  <2>1. CASE page' = page
    BY <1>1, <1>2, <2>1
  <2>2. CASE page' = Page(Len(sessions) + 1)
    BY <1>3, <2>2, MetadataTypes DEF Page, Pages, Messages
  <2> QED
    BY <1>1, <2>1, <2>2
<1> QED
  BY <1>1, <1>4, FreshPage

LEMMA ResetSessionStep ==
  ASSUME StreamlitConstantsOK, TalkInv, ResetSession
  PROVE  TalkInv'
<1> DEFINE left == [Page(None) EXCEPT !.version = page.version]
<1>1. /\ UNCHANGED <<caches, posts>> /\ (form' = form \/ form' = [form EXCEPT !.of = None])
      /\ \/ page' = left /\ UNCHANGED <<sessions, log>>
         \/ /\ sessions' = Append(sessions, [messages |-> <<>>, metadata |-> NoMetadata])
            /\ log' = Append(log, <<>>)
            /\ page' \in {Page(Len(sessions) + 1), left}
  BY DEF ResetSession, Created
<1>2. /\ left \in Pages /\ left.turns = <<>> /\ left.waiting = 0 /\ left.session = None
  <2>1. page.version \in Nat
    BY DEF TalkInv, TalkTypes, Pages
  <2>2. Page(None) = [session |-> None, turns |-> <<>>, panel |-> NoMetadata, history |-> <<>>,
                           version |-> 0, waiting |-> 0]
    BY DEF Page
  <2>3. left = [session |-> None, turns |-> <<>>, panel |-> NoMetadata, history |-> <<>>,
                version |-> page.version, waiting |-> 0]
    BY <2>2
  <2> HIDE DEF left
  <2> QED
    BY <2>1, <2>3, MetadataTypes DEF Pages, Messages
<1>3. Len(sessions) + 1 \in Nat
  BY DEF TalkInv, TalkTypes
<1> HIDE DEF left
<1>4. /\ page' \in Pages /\ page'.turns = <<>> /\ page'.waiting = 0
      /\ page'.session \in {None, Len(sessions) + 1}
      /\ page' = left => page'.session = None
      /\ page'.session # None => page'.panel = NoMetadata /\ page'.history = <<>>
  <2>1. CASE page' = left
    BY <1>2, <2>1
  <2>2. CASE page' # left
    <3>1. page' = Page(Len(sessions) + 1)
      BY <1>1, <2>2
    <3> QED
      BY <1>3, <2>2, <3>1, MetadataTypes DEF Page, Pages, Messages
  <2> QED
    BY <2>1, <2>2
<1>5. \/ UNCHANGED <<sessions, log>> /\ page'.session = None
      \/ /\ sessions' = Append(sessions, [messages |-> <<>>, metadata |-> NoMetadata])
         /\ log' = Append(log, <<>>)
  BY <1>1, <1>4
<1> QED
  BY <1>1, <1>4, <1>5, FreshPage

\* What an answered turn adds to the history of its session.
LEMMA AnswerRecorded ==
  ASSUME StreamlitConstantsOK, TalkInv, NEW i \in Pending,
         NEW s, s = posts[i].session, Alive(s), NEW l, l = log[s],
         NEW r \in Estimated(posts[i].of, sessions[s].metadata, sessions[s].messages),
         NEW m \in Extracted(sessions[s].metadata, posts[i].of.text),
         NEW rec, rec = [post |-> i, answer |-> r.answer, metadata |-> m],
         NEW L, Grown(L, l, rec), NEW new,
         new = Add(Add(sessions[s].messages, "user", i), "assistant", i)
  PROVE  /\ l \in Seq(TurnRecords) /\ rec \in TurnRecords
         /\ new \in Messages /\ new = Pairs(Context(L, Len(L) + 1))
         /\ m \in Metadata /\ m = MetadataBefore(L, Len(L) + 1)
         /\ r.caches \in [exact : SUBSET Entry, semantic : SUBSET Answers] /\ OutOfContext(r.caches)
         /\ rec.answer.messages = Pairs(Context(L, Len(l) + 1))
         /\ rec.answer.metadata = MetadataBefore(L, Len(l) + 1)
         /\ MetadataBefore(L, Len(l) + 1).constraints \subseteq m.constraints
         /\ \/ rec.answer.of = posts[i].of
            \/ Len(l) + 1 = 1 /\ Similar(rec.answer.of, posts[i].of)
<1> DEFINE old == sessions[s].messages
           known == sessions[s].metadata
           d == posts[i].of
           n == Len(l)
<1>1. /\ l \in Seq(TurnRecords) /\ n \in Nat /\ s \in DOMAIN log
      /\ old \in Messages /\ known \in Metadata
      /\ old = Pairs(Context(l, n + 1)) /\ known = MetadataBefore(l, n + 1)
  <2>1. sessions[s] \in Windows /\ s \in DOMAIN log /\ s \in DOMAIN sessions
    BY DEF TalkInv, TalkTypes, Alive
  <2>2. l \in Seq(TurnRecords) /\ n \in Nat
    BY <2>1 DEF TalkInv, TalkTypes
  <2> QED
    BY <2>1, <2>2 DEF Windows, TalkInv, SessionsKept
<1>2. i \in DOMAIN posts /\ i \in Nat /\ d \in Description /\ d.text \in Texts
  <2>1. i \in DOMAIN posts /\ i \in Nat /\ posts[i] \in Posts
    BY DEF Pending, TalkInv, TalkTypes
  <2> QED
    BY <2>1 DEF Posts, Description
<1> HIDE DEF old, known, d, n
<1>3. old = <<>> <=> n = 0
  <2>1. IsWindow(old, l)
    BY <1>1, WindowOf DEF n
  <2>2. Len(old) = 2 * n - 2 * Left(l)
    BY <2>1 DEF IsWindow, n
  <2>3. (Left(l) = n <=> n = 0) /\ Left(l) \in Nat
    <3>1. Left(l) = IF n > MaxTurns THEN n - MaxTurns ELSE 0
      BY DEF Left, n
    <3> QED
      BY <1>1, <3>1 DEF StreamlitConstantsOK
  <2>4. Len(old) = 0 <=> n = 0
    BY <1>1, <2>2, <2>3
  <2> QED
    BY <1>1, <2>4 DEF Messages
<1>4. n = 0 => known = NoMetadata
  BY <1>1 DEF MetadataBefore
<1>5. /\ r.answer \in Answers /\ r.answer.messages = old /\ r.answer.metadata = known
      /\ r.answer.of = d \/ (old = <<>> /\ Similar(r.answer.of, d))
      /\ r.caches \in [exact : SUBSET Entry, semantic : SUBSET Answers] /\ OutOfContext(r.caches)
  <2>1. caches \in [exact : SUBSET Entry, semantic : SUBSET Answers] /\ OutOfContext(caches)
    BY DEF TalkInv, TalkTypes
  <2>2. r \in Estimated(d, known, old)
    BY DEF d, known, old
  <2> QED
    BY <1>1, <1>2, <1>3, <1>4, <2>1, <2>2, EstimatedIsHonest
<1>6. m \in Metadata /\ known.constraints \subseteq m.constraints
  <2>1. m \in Extracted(known, d.text)
    BY DEF known, d
  <2> QED
    BY <1>1, <1>2, <2>1, MetadataTypes
<1>7. rec \in TurnRecords /\ rec.post = i /\ rec.answer = r.answer /\ rec.metadata = m
  BY <1>2, <1>5, <1>6 DEF TurnRecords
<1>8. /\ Len(L) = n + 1 /\ Len(L) + 1 \in Nat /\ n + 1 \in 1..(n + 1) /\ n + 1 \in Nat
      /\ L[n + 1] = rec
  BY <1>1, <1>7 DEF n, Grown
<1>9. new \in Messages /\ new = Pairs(Context(L, Len(L) + 1))
  <2>1. new = Add(Add(old, "user", rec.post), "assistant", rec.post)
    BY <1>7 DEF old
  <2>2. old = Pairs(Context(l, Len(l) + 1))
    BY <1>1 DEF n
  <2> QED
    BY <1>1, <1>7, <2>1, <2>2, NextWindow
<1>10. m = MetadataBefore(L, Len(L) + 1)
  <2>1. Len(L) + 1 # 1 /\ Len(L) + 1 - 1 = n + 1
    BY <1>1, <1>8
  <2> QED
    BY <1>7, <1>8, <2>1 DEF MetadataBefore
<1>11. /\ Context(L, n + 1) = Context(l, n + 1)
       /\ MetadataBefore(L, n + 1) = MetadataBefore(l, n + 1)
  <2>1. n + 1 \in 1..(Len(l) + 1)
    BY <1>1, <1>8 DEF n
  <2> QED
    BY <1>1, <1>7, <2>1, ContextKept
<1>12. \/ rec.answer.of = posts[i].of
       \/ n + 1 = 1 /\ Similar(rec.answer.of, posts[i].of)
  <2>1. n = 0 => n + 1 = 1
    BY <1>1
  <2> QED
    BY <1>3, <1>5, <1>7, <2>1 DEF d
<1>13. Len(l) = n
  BY DEF n
<1> QED
  BY <1>1, <1>5, <1>6, <1>7, <1>9, <1>10, <1>11, <1>12, <1>13

\* What the page shows of a history it shows of a longer one.
LEMMA ShownLater ==
  ASSUME StreamlitConstantsOK, NEW l \in Seq(TurnRecords), NEW rec \in TurnRecords,
         NEW L, Grown(L, l, rec), NEW panel, NEW history, NEW k \in Nat,
         ShownAt(panel, history, l, k)
  PROVE  ShownAt(panel, history, L, k)
<1>1. Len(l) \in Nat /\ Len(L) = Len(l) + 1 /\ k \in 0..Len(l)
  BY DEF ShownAt, Grown
<1>2. \A h \in 0..k : /\ Context(L, h + 1) = Context(l, h + 1)
                      /\ MetadataBefore(L, h + 1) = MetadataBefore(l, h + 1)
  <2>1. \A h \in 0..k : h + 1 \in 1..(Len(l) + 1)
    BY <1>1
  <2> QED
    BY <2>1, ContextKept
<1>3. k \in 0..k /\ k \in 0..Len(L)
  BY <1>1
<1>4. panel = MetadataBefore(L, k + 1)
  BY <1>2, <1>3 DEF ShownAt
<1>5. PICK h \in 0..k : history = Pairs(Context(l, h + 1))
  BY DEF ShownAt
<1>6. history = Pairs(Context(L, h + 1))
  BY <1>2, <1>5
<1> QED
  BY <1>3, <1>4, <1>6 DEF ShownAt

LEMMA EstimateSessionStep ==
  ASSUME StreamlitConstantsOK, TalkInv, EstimateInSession
  PROVE  TalkInv'
<1>1. UNCHANGED <<page, form>>
  BY DEF EstimateInSession
<1>2. PICK i \in Pending :
        LET s == posts[i].session
            d == posts[i].of
            before == sessions[s]
        IN /\ Alive(s)
           /\ \E r \in Estimated(d, before.metadata, before.messages),
                 m \in Extracted(before.metadata, d.text) :
                /\ sessions' = [sessions EXCEPT ![s] =
                     [messages |-> Add(Add(before.messages, "user", i), "assistant", i),
                      metadata |-> m]]
                /\ caches' = r.caches
                /\ posts' = [posts EXCEPT ![i].status = "ok",
                                         ![i].body = [answer |-> r.answer, metadata |-> m]]
                /\ log' = [log EXCEPT ![s] = Append(@, [post |-> i, answer |-> r.answer, metadata |-> m])]
  BY DEF EstimateInSession
<1> DEFINE s == posts[i].session
           d == posts[i].of
           l == log[s]
           n == Len(l)
<1>3. PICK r \in Estimated(d, sessions[s].metadata, sessions[s].messages),
            m \in Extracted(sessions[s].metadata, d.text) :
        /\ sessions' = [sessions EXCEPT ![s] =
             [messages |-> Add(Add(sessions[s].messages, "user", i), "assistant", i),
              metadata |-> m]]
        /\ caches' = r.caches
        /\ posts' = [posts EXCEPT ![i].status = "ok",
                                 ![i].body = [answer |-> r.answer, metadata |-> m]]
        /\ log' = [log EXCEPT ![s] = Append(@, [post |-> i, answer |-> r.answer, metadata |-> m])]
  BY <1>2
<1> DEFINE rec == [post |-> i, answer |-> r.answer, metadata |-> m]
           L == Append(l, rec)
           new == Add(Add(sessions[s].messages, "user", i), "assistant", i)
           window == [messages |-> new, metadata |-> m]
           body == [answer |-> r.answer, metadata |-> m]
<1>4. /\ i \in DOMAIN posts /\ i \in Nat /\ posts[i].status = "pending" /\ posts[i] \in Posts
      /\ posts \in Seq(Posts) /\ Alive(s) /\ s \in DOMAIN sessions /\ s \in DOMAIN log
      /\ sessions \in Seq(Windows \cup {None}) /\ log \in Seq(Seq(TurnRecords))
      /\ DOMAIN log = DOMAIN sessions
  BY <1>2 DEF Pending, Alive, TalkInv, TalkTypes
<1>5. /\ l \in Seq(TurnRecords) /\ rec \in TurnRecords
      /\ new \in Messages /\ new = Pairs(Context(L, Len(L) + 1))
      /\ m \in Metadata /\ m = MetadataBefore(L, Len(L) + 1)
      /\ r.caches \in [exact : SUBSET Entry, semantic : SUBSET Answers] /\ OutOfContext(r.caches)
      /\ rec.answer.messages = Pairs(Context(L, n + 1))
      /\ rec.answer.metadata = MetadataBefore(L, n + 1)
      /\ MetadataBefore(L, n + 1).constraints \subseteq m.constraints
      /\ \/ rec.answer.of = d
         \/ n + 1 = 1 /\ Similar(rec.answer.of, d)
  BY <1>4, AnswerRecorded DEF Grown
<1>6. rec.post = i /\ rec.answer = r.answer /\ rec.metadata = m
  OBVIOUS
<1>7. /\ n \in Nat /\ L \in Seq(TurnRecords) /\ Len(L) = n + 1 /\ DOMAIN l = 1..n /\ DOMAIN L = 1..(n + 1)
      /\ L[n + 1] = rec
      /\ \A k \in DOMAIN l : k \in DOMAIN L /\ L[k] = l[k]
      /\ \A k \in DOMAIN L : k \in DOMAIN l \/ k = n + 1
      /\ Grown(L, l, rec)
  <2> HIDE DEF l, rec
  <2> QED
    BY <1>5 DEF Grown
<1>8. /\ log' \in Seq(Seq(TurnRecords)) /\ DOMAIN log' = DOMAIN log /\ Len(log') = Len(log)
      /\ log'[s] = L
      /\ \A z \in DOMAIN log : z # s => log'[z] = log[z]
  <2>1. log' = [log EXCEPT ![s] = L]
    BY <1>3
  <2> HIDE DEF L, s
  <2> QED
    BY <1>4, <1>7, <2>1
<1>9. /\ sessions' \in Seq(Windows \cup {None}) /\ DOMAIN sessions' = DOMAIN sessions
      /\ Len(sessions') = Len(sessions)
      /\ sessions'[s] = window
      /\ \A z \in DOMAIN sessions : z # s => sessions'[z] = sessions[z]
  <2>1. window \in Windows /\ sessions' = [sessions EXCEPT ![s] = window]
    BY <1>3, <1>5 DEF Windows
  <2> HIDE DEF window, s
  <2> QED
    BY <1>4, <2>1
<1> DEFINE post == [posts[i] EXCEPT !.status = "ok", !.body = body]
<1>10. /\ post \in Posts /\ post.status = "ok" /\ post.body = body /\ post.session = s
       /\ post.of = d /\ post.entry = posts[i].entry
  <2>1. body \in Bodies
    BY <1>5, <1>6 DEF Bodies, TurnRecords
  <2> HIDE DEF body
  <2> QED
    BY <1>4, <2>1 DEF Posts
<1>11. /\ posts' \in Seq(Posts) /\ DOMAIN posts' = DOMAIN posts /\ Len(posts') = Len(posts)
       /\ posts'[i] = post
       /\ \A z \in DOMAIN posts : z # i => posts'[z] = posts[z]
  <2>1. posts' = [posts EXCEPT ![i] = post]
    BY <1>3, <1>4
  <2> HIDE DEF post
  <2> QED
    BY <1>4, <1>10, <2>1
<1> HIDE DEF s, d, l, n, rec, L, new, post
<1>12. \A z \in DOMAIN log : \A k \in DOMAIN log[z] : log[z][k].post \in DOMAIN posts /\ log[z][k].post # i
  BY <1>4 DEF TalkInv, RecordedOnce
<1>13. \A z \in DOMAIN posts :
         /\ posts'[z].of = posts[z].of /\ posts'[z].session = posts[z].session
         /\ posts'[z].entry = posts[z].entry
         /\ posts'[z].status = "shown" => posts[z].status = "shown"
         /\ z # i => posts'[z] = posts[z]
  <2>1. d = posts[i].of /\ s = posts[i].session
    BY DEF d, s
  <2> QED
    BY <1>10, <1>11, <2>1
<1>14. TalkTypes'
  <2>1. caches' \in [exact : SUBSET Entry, semantic : SUBSET Answers]
    BY <1>3, <1>5
  <2> QED
    BY <1>1, <1>8, <1>9, <1>11, <2>1 DEF TalkInv, TalkTypes
<1>15. OutOfContext(caches)'
  <2>1. caches' = r.caches /\ OutOfContext(r.caches)
    BY <1>3, <1>5
  <2> QED
    BY <2>1 DEF OutOfContext
<1>16. SessionsKept'
  <2> SUFFICES ASSUME NEW z \in DOMAIN sessions', Alive(z)'
      PROVE  /\ sessions'[z].messages = Pairs(Context(log'[z], Len(log'[z]) + 1))
             /\ sessions'[z].metadata = MetadataBefore(log'[z], Len(log'[z]) + 1)
    BY DEF SessionsKept
  <2>1. CASE z = s
    BY <1>5, <1>8, <1>9, <2>1
  <2>2. CASE z # s
    <3>1. /\ z \in DOMAIN sessions /\ sessions'[z] = sessions[z] /\ log'[z] = log[z] /\ Alive(z)
      BY <1>4, <1>8, <1>9, <2>2 DEF Alive
    <3> QED
      BY <3>1 DEF TalkInv, SessionsKept
  <2> QED
    BY <2>1, <2>2
<1>17. AnswersInContext'
  <2> SUFFICES ASSUME NEW z \in DOMAIN log', NEW k \in DOMAIN log'[z]
      PROVE  LET t == log'[z][k]
                 known == MetadataBefore(log'[z], k)
             IN /\ t.answer.messages = Pairs(Context(log'[z], k))
                /\ t.answer.metadata = known
                /\ known.constraints \subseteq t.metadata.constraints
                /\ \/ t.answer.of = posts'[t.post].of
                   \/ k = 1 /\ Similar(t.answer.of, posts'[t.post].of)
    BY DEF AnswersInContext
  <2>1. CASE z # s
    <3>1. z \in DOMAIN log /\ log'[z] = log[z]
      BY <1>8, <2>1
    <3>2. posts'[log[z][k].post].of = posts[log[z][k].post].of
      BY <1>12, <1>13, <3>1
    <3> QED
      BY <3>1, <3>2 DEF TalkInv, AnswersInContext
  <2>2. CASE z = s /\ k \in DOMAIN l
    <3>1. log'[z] = L /\ L[k] = l[k] /\ l = log[s] /\ s \in DOMAIN log
      BY <1>4, <1>7, <1>8, <2>2 DEF l
    <3>2. k \in 1..(Len(l) + 1)
      BY <1>7, <2>2 DEF n
    <3>3. /\ Context(L, k) = Context(l, k)
          /\ MetadataBefore(L, k) = MetadataBefore(l, k)
      BY <1>5, <1>7, <3>2, ContextKept
    <3>4. posts'[l[k].post].of = posts[l[k].post].of
      BY <1>12, <1>13, <2>2, <3>1
    <3>5. LET t == l[k]
              known == MetadataBefore(l, k)
          IN /\ t.answer.messages = Pairs(Context(l, k))
             /\ t.answer.metadata = known
             /\ known.constraints \subseteq t.metadata.constraints
             /\ \/ t.answer.of = posts[t.post].of
                \/ k = 1 /\ Similar(t.answer.of, posts[t.post].of)
      BY <2>2, <3>1 DEF TalkInv, AnswersInContext
    <3> QED
      BY <3>1, <3>3, <3>4, <3>5
  <2>3. CASE z = s /\ k = n + 1
    <3>1. log'[z] = L /\ L[k] = rec /\ posts'[rec.post].of = d
      BY <1>4, <1>6, <1>7, <1>8, <1>10, <1>11, <2>3 DEF rec
    <3> QED
      BY <1>5, <1>6, <2>3, <3>1 DEF rec
  <2> QED
    BY <1>7, <1>8, <2>1, <2>2, <2>3
<1>18. RecordedOnce'
  <2> SUFFICES ASSUME NEW z \in DOMAIN log', NEW k \in DOMAIN log'[z]
      PROVE  LET x == log'[z][k].post
             IN /\ x \in DOMAIN posts' /\ posts'[x].session = z /\ posts'[x].status \in {"ok", "shown"}
                /\ posts'[x].body = [answer |-> log'[z][k].answer, metadata |-> log'[z][k].metadata]
                /\ \A y \in DOMAIN log'[z] : log'[z][y].post = x => y = k
    BY DEF RecordedOnce
  <2>1. CASE z # s
    <3>1. z \in DOMAIN log /\ log'[z] = log[z]
      BY <1>8, <2>1
    <3>2. posts'[log[z][k].post] = posts[log[z][k].post]
      BY <1>12, <1>13, <3>1
    <3> QED
      BY <1>11, <3>1, <3>2 DEF TalkInv, RecordedOnce
  <2>2. CASE z = s /\ k \in DOMAIN l
    <3>1. log'[z] = L /\ L[k] = l[k] /\ l = log[s] /\ s \in DOMAIN log
      BY <1>4, <1>7, <1>8, <2>2 DEF l
    <3> DEFINE x == l[k].post
    <3>2. posts'[x] = posts[x] /\ x # i
      BY <1>12, <1>13, <2>2, <3>1
    <3>3. /\ x \in DOMAIN posts /\ posts[x].session = s /\ posts[x].status \in {"ok", "shown"}
          /\ posts[x].body = [answer |-> l[k].answer, metadata |-> l[k].metadata]
          /\ \A y \in DOMAIN l : l[y].post = x => y = k
      BY <2>2, <3>1 DEF TalkInv, RecordedOnce
    <3>4. \A y \in DOMAIN L : L[y].post = x => y = k
      <4>1. L[n + 1].post = i
        BY <1>7 DEF rec
      <4> HIDE DEF x
      <4> QED
        BY <1>7, <3>2, <3>3, <4>1
    <3> QED
      BY <1>11, <2>2, <3>1, <3>2, <3>3, <3>4
  <2>3. CASE z = s /\ k = n + 1
    <3>1. log'[z] = L /\ L[k] = rec /\ rec.post = i /\ posts'[i] = post
      BY <1>7, <1>8, <1>11, <2>3 DEF rec
    <3>2. post.body = [answer |-> rec.answer, metadata |-> rec.metadata]
      BY <1>10 DEF rec
    <3>3. \A y \in DOMAIN L : L[y].post = i => y = k
      <4>1. \A y \in DOMAIN l : l[y].post # i
        BY <1>4, <1>12 DEF l
      <4> QED
        BY <1>7, <2>3, <4>1
    <3> QED
      BY <1>4, <1>10, <1>11, <2>3, <3>1, <3>2, <3>3
  <2> QED
    BY <1>7, <1>8, <2>1, <2>2, <2>3
<1>19. OkRecorded'
  <2> SUFFICES ASSUME NEW z \in DOMAIN posts', posts'[z].status = "ok"
      PROVE  /\ posts'[z].session \in DOMAIN log'
             /\ \E k \in DOMAIN log'[posts'[z].session] : log'[posts'[z].session][k].post = z
    BY DEF OkRecorded
  <2>1. CASE z = i
    <3>1. posts'[z].session = s /\ s \in DOMAIN log' /\ log'[s] = L
      BY <1>4, <1>8, <1>10, <1>11, <2>1
    <3>2. n + 1 \in DOMAIN L /\ L[n + 1].post = i
      BY <1>7 DEF rec
    <3> QED
      BY <2>1, <3>1, <3>2
  <2>2. CASE z # i
    <3> DEFINE y == posts[z].session
    <3>1. z \in DOMAIN posts /\ posts'[z] = posts[z]
      BY <1>11, <1>13, <2>2
    <3>2. y \in DOMAIN log /\ \E k \in DOMAIN log[y] : log[y][k].post = z
      BY <3>1 DEF TalkInv, OkRecorded
    <3>3. CASE y # s
      BY <1>8, <3>1, <3>2, <3>3
    <3>4. CASE y = s
      <4>1. PICK k \in DOMAIN l : l[k].post = z
        BY <3>2, <3>4 DEF l
      <4>2. log'[y] = L /\ k \in DOMAIN L /\ L[k].post = z
        BY <1>7, <1>8, <3>4, <4>1
      <4> QED
        BY <1>8, <3>1, <3>2, <4>2
    <3> QED
      BY <3>3, <3>4
  <2> QED
    BY <2>1, <2>2
<1>20. Attached'
  <2>1. page.waiting # 0 => page.waiting \in DOMAIN posts
    BY DEF TalkInv, TalkTypes, Attached
  <2> QED
    BY <1>1, <1>8, <1>11, <1>13, <2>1 DEF TalkInv, Attached
<1>21. Entries'
  <2>1. \A z \in DOMAIN posts :
          /\ posts[z].entry <= form.entry
          /\ posts[z].status = "shown" /\ posts[z].entry = form.entry => form.of = None
          /\ posts[z].status = "shown" =>
               \A y \in DOMAIN posts : z < y => posts[z].entry # posts[y].entry
    BY DEF TalkInv, Entries
  <2> QED
    BY <1>1, <1>11, <1>13, <2>1 DEF Entries
<1> DEFINE After(x, k) == k \in DOMAIN log'[page.session] /\ log'[page.session][k].post = x
<1>22. ASSUME page.session # None
       PROVE  /\ page.session \in DOMAIN log
              /\ \A x, k : x # i => (After(x, k) <=> At(x, k))
              /\ \A k : After(i, k) => k = n + 1 /\ page.session = s
              /\ \A k \in DOMAIN log[page.session] :
                   k \in DOMAIN log'[page.session] /\ log'[page.session][k] = log[page.session][k]
  <2>1. page.session \in DOMAIN log
    BY <1>22 DEF TalkInv, Attached
  <2>2. CASE page.session # s
    BY <1>8, <1>12, <2>1, <2>2 DEF At
  <2>3. CASE page.session = s
    <3>1. log[page.session] = l /\ log'[page.session] = L
      BY <1>8, <2>3 DEF l
    <3>2. \A x, k : At(x, k) <=> k \in DOMAIN l /\ l[k].post = x
      BY <3>1 DEF At
    <3>3. \A x, k : After(x, k) <=> k \in DOMAIN L /\ L[k].post = x
      BY <3>1
    <3>4. L[n + 1].post = i
      BY <1>7 DEF rec
    <3>5. \A k \in DOMAIN l : l[k].post # i
      BY <1>12, <2>1, <3>1
    <3> QED
      BY <1>7, <2>1, <2>3, <3>1, <3>2, <3>3, <3>4, <3>5
  <2> QED
    BY <2>2, <2>3
<1>23. ASSUME NEW t \in DOMAIN page.turns
       PROVE  page.session # None /\ page.turns[t].post # i
  <2>1. page.session # None
    <3>1. page.turns # <<>>
      <4>1. page.turns \in Seq(ShownTurns)
        BY DEF TalkInv, TalkTypes, Pages
      <4> QED
        BY <1>23, <4>1
    <3> QED
      BY <3>1 DEF TalkInv, Attached
  <2>2. \E k : At(page.turns[t].post, k)
    BY <1>23 DEF TalkInv, TurnsRecorded
  <2> QED
    BY <1>12, <1>22, <2>1, <2>2 DEF At
<1> HIDE DEF After
<1>24. \A t \in DOMAIN page.turns : \A k : After(page.turns[t].post, k) <=> At(page.turns[t].post, k)
  BY <1>22, <1>23
<1>25. TurnsRecorded'
  <2> SUFFICES ASSUME NEW t \in DOMAIN page.turns
      PROVE  \E k : /\ After(page.turns[t].post, k)
                    /\ log'[page.session][k].answer = page.turns[t].answer
    BY <1>1 DEF TurnsRecorded, At, After
  <2>1. PICK k : At(page.turns[t].post, k) /\ log[page.session][k].answer = page.turns[t].answer
    BY DEF TalkInv, TurnsRecorded
  <2>2. k \in DOMAIN log[page.session]
    BY <2>1 DEF At
  <2>3. log'[page.session][k] = log[page.session][k]
    BY <1>22, <1>23, <2>2
  <2> QED
    BY <1>24, <2>1, <2>3
<1>26. TurnsOrdered'
  <2>1. \A t, u \in DOMAIN page.turns : t < u =>
          \A k, y : After(page.turns[t].post, k) /\ After(page.turns[u].post, y) => k < y
    BY <1>24 DEF TalkInv, TurnsOrdered
  <2>2. ASSUME page.waiting # 0, NEW t \in DOMAIN page.turns, NEW k, NEW y,
               After(page.turns[t].post, k), After(page.waiting, y)
        PROVE  k < y
    <3>1. page.session # None /\ At(page.turns[t].post, k)
      BY <1>23, <1>24, <2>2
    <3>2. CASE page.waiting # i
      <4>1. At(page.waiting, y)
        BY <1>22, <2>2, <3>1, <3>2
      <4> QED
        BY <2>2, <3>1, <4>1 DEF TalkInv, TurnsOrdered
    <3>3. CASE page.waiting = i
      <4>1. y = n + 1 /\ page.session = s
        BY <1>22, <2>2, <3>1, <3>3
      <4>2. k \in DOMAIN l
        BY <3>1, <4>1 DEF At, l
      <4> QED
        BY <1>7, <4>1, <4>2
    <3> QED
      BY <3>2, <3>3
  <2> QED
    BY <1>1, <2>1, <2>2 DEF TurnsOrdered, At, After
<1>27. PanelRecent'
  <2> SUFFICES ASSUME page.session # None
      PROVE  \E k \in Nat :
               /\ ShownAt(page.panel, page.history, log'[page.session], k)
               /\ \A t \in DOMAIN page.turns : \A y : After(page.turns[t].post, y) => y <= k
               /\ page.waiting # 0 => \A y : After(page.waiting, y) => k < y
    BY <1>1 DEF PanelRecent, At, After
  <2>1. PICK k \in Nat :
          /\ ShownAt(page.panel, page.history, log[page.session], k)
          /\ \A t \in DOMAIN page.turns : \A y : At(page.turns[t].post, y) => y <= k
          /\ page.waiting # 0 => \A y : At(page.waiting, y) => k < y
    BY DEF TalkInv, PanelRecent
  <2>2. ShownAt(page.panel, page.history, log'[page.session], k)
    <3>1. CASE page.session # s
      BY <1>8, <1>22, <2>1, <3>1
    <3>2. CASE page.session = s
      <4>1. log[page.session] = l /\ log'[page.session] = L
        BY <1>8, <3>2 DEF l
      <4>2. ShownAt(page.panel, page.history, l, k)
        BY <2>1, <4>1
      <4>3. ShownAt(page.panel, page.history, L, k)
        BY <1>5, <1>7, <4>2, ShownLater
      <4> QED
        BY <4>1, <4>3
    <3> QED
      BY <3>1, <3>2
  <2>3. ASSUME page.waiting # 0, NEW y, After(page.waiting, y)
        PROVE  k < y
    <3>1. CASE page.waiting # i
      BY <1>22, <2>1, <2>3, <3>1
    <3>2. CASE page.waiting = i
      <4>1. y = n + 1 /\ page.session = s
        BY <1>22, <2>3, <3>2
      <4>2. k \in 0..Len(l)
        BY <1>8, <2>1, <4>1 DEF l, ShownAt
      <4> QED
        BY <1>7, <4>1, <4>2 DEF n
    <3> QED
      BY <3>1, <3>2
  <2> QED
    BY <1>24, <2>1, <2>2, <2>3
<1> QED
  BY <1>14, <1>15, <1>16, <1>17, <1>18, <1>19, <1>20, <1>21, <1>25, <1>26, <1>27 DEF TalkInv

-----------------------------------------------------------------------------
(* What the page and the service promise.                                  *)

LEMMA TalkInductive ==
  ASSUME StreamlitConstantsOK, TalkInv, [TalkNext]_talkVars
  PROVE  TalkInv'
<1>1. CASE EstimateStateless
  BY <1>1, StatelessStep
<1>2. CASE EstimateFails
  BY <1>2, FailsStep
<1>3. CASE EstimateInSession
  BY <1>3, EstimateSessionStep
<1>4. CASE Restart
  BY <1>4, RestartStep
<1>5. CASE EnsureSession
  BY <1>5, EnsureSessionStep
<1>6. CASE ResetSession
  BY <1>6, ResetSessionStep
<1>7. CASE SubmitTurn
  BY <1>7, SubmitStep
<1>8. CASE GiveUp
  BY <1>8, GiveUpStep
<1>9. CASE ShowTurn
  BY <1>9, ShowTurnStep
<1>10. CASE UNCHANGED talkVars
  <2>1. UNCHANGED <<sessions, caches, posts, page, form, log>>
    BY <1>10 DEF talkVars
  <2>2. PostsKept
    BY <2>1 DEF PostsKept
  <2>3. TalkTypes' /\ OutOfContext(caches)' /\ OkRecorded' /\ Attached' /\ Entries'
    BY <2>1 DEF TalkInv, TalkTypes, OutOfContext, OkRecorded, Attached, Entries
  <2>4. SessionsKept'
    BY <2>1 DEF TalkInv, SessionsKept, Alive
  <2> QED
    BY <2>1, <2>2, <2>3, <2>4, HistoryKept, ShownKept DEF TalkInv
<1> QED
  BY <1>1, <1>2, <1>3, <1>4, <1>5, <1>6, <1>7, <1>8, <1>9, <1>10 DEF TalkNext

\* Every turn a session records was answered in its own context: from the whole
\* pairs of the last turns of the window, with the metadata as those left it, and
\* only a session's first turn may have been answered from the caches with what was
\* said of a similar text (POST /sessions/{id}/estimate, of the previous version).
THEOREM AnsweredInContext ==
  ASSUME StreamlitConstantsOK
  PROVE  TalkSpec => []AnswersInContext
<1>1. TalkInit => TalkInv
  BY TalkInitial
<1>2. TalkInv /\ [TalkNext]_talkVars => TalkInv'
  BY TalkInductive
<1>3. TalkInv => AnswersInContext
  BY DEF TalkInv
<1> QED
  BY <1>1, <1>2, <1>3, PTL DEF TalkSpec

LEMMA TalkHonest ==
  ASSUME TalkInv
  PROVE  PageHonest
<1>1. \A i, j \in DOMAIN posts : i < j /\ posts[i].entry = posts[j].entry => posts[i].status # "shown"
  BY DEF TalkInv, Entries
<1>2. ASSUME page.session # None
      PROVE  LET recorded == log[page.session]
                 at(t) == CHOOSE k \in DOMAIN recorded : recorded[k].post = page.turns[t].post
             IN /\ \A t \in DOMAIN page.turns :
                     /\ \E k \in DOMAIN recorded :
                          recorded[k].post = page.turns[t].post /\ recorded[k].answer = page.turns[t].answer
                     /\ t > 1 => at(t - 1) < at(t)
                /\ \E k \in 0..Len(recorded) :
                     /\ page.turns # <<>> => k >= at(Len(page.turns))
                     /\ page.panel = MetadataBefore(recorded, k + 1)
                     /\ \E h \in 0..k : page.history = Pairs(Context(recorded, h + 1))
  <2> DEFINE recorded == log[page.session]
             at(t) == CHOOSE k \in DOMAIN recorded : recorded[k].post = page.turns[t].post
  <2>1. /\ page.turns \in Seq(ShownTurns) /\ page.turns # <<>> => Len(page.turns) \in DOMAIN page.turns
        /\ DOMAIN page.turns = 1..Len(page.turns) /\ Len(page.turns) \in Nat
    <3>1. page.turns \in Seq(ShownTurns)
      BY DEF TalkInv, TalkTypes, Pages
    <3> QED
      BY <3>1
  <2>2. recorded \in Seq(TurnRecords)
    <3>1. page.session \in DOMAIN log
      BY <1>2 DEF TalkInv, Attached
    <3> QED
      BY <3>1 DEF TalkInv, TalkTypes
  <2>3. ASSUME NEW t \in DOMAIN page.turns
        PROVE  /\ \E k \in DOMAIN recorded :
                    recorded[k].post = page.turns[t].post /\ recorded[k].answer = page.turns[t].answer
               /\ at(t) \in DOMAIN recorded /\ At(page.turns[t].post, at(t))
    <3>1. \E k : At(page.turns[t].post, k) /\ recorded[k].answer = page.turns[t].answer
      BY DEF TalkInv, TurnsRecorded
    <3>2. \E k \in DOMAIN recorded : recorded[k].post = page.turns[t].post
      BY <3>1 DEF At
    <3> QED
      BY <3>1, <3>2 DEF At
  <2> HIDE DEF at, recorded
  <2>4. ASSUME NEW t \in DOMAIN page.turns, t > 1
        PROVE  at(t - 1) < at(t)
    <3>1. t - 1 \in DOMAIN page.turns /\ t - 1 < t
      BY <2>1, <2>4
    <3> QED
      BY <2>3, <2>4, <3>1 DEF TalkInv, TurnsOrdered
  <2>5. \E k \in 0..Len(recorded) :
          /\ page.turns # <<>> => k >= at(Len(page.turns))
          /\ page.panel = MetadataBefore(recorded, k + 1)
          /\ \E h \in 0..k : page.history = Pairs(Context(recorded, h + 1))
    <3>1. PICK k \in Nat :
            /\ ShownAt(page.panel, page.history, recorded, k)
            /\ \A t \in DOMAIN page.turns : \A l : At(page.turns[t].post, l) => l <= k
      BY <1>2 DEF TalkInv, PanelRecent, recorded
    <3>2. page.turns # <<>> => at(Len(page.turns)) <= k /\ at(Len(page.turns)) \in Nat
      BY <2>1, <2>2, <2>3, <3>1
    <3> QED
      BY <3>1, <3>2 DEF ShownAt
  <2> QED
    BY <2>3, <2>4, <2>5 DEF at, recorded
<1> QED
  BY <1>1, <1>2 DEF PageHonest

\* What the page shows is the conversation it is attached to, though answers are
\* lost, retried and overtaken: recorded turns of that session in their order, the
\* metadata after the last of them or a later one, the window after that turn or an
\* earlier one; and what was typed once is posted again only while no answer to it
\* was shown (the page's Send turn, its timeout, its refresh and the reset of its
\* widgets).
THEOREM PageIsHonest ==
  ASSUME StreamlitConstantsOK
  PROVE  TalkSpec => []PageHonest
<1>1. TalkInit => TalkInv
  BY TalkInitial
<1>2. TalkInv /\ [TalkNext]_talkVars => TalkInv'
  BY TalkInductive
<1>3. TalkInv => PageHonest
  BY TalkHonest
<1> QED
  BY <1>1, <1>2, <1>3, PTL DEF TalkSpec
==============================================================================
