---------------------------- MODULE EstimateStages ----------------------------
(***************************************************************************)
(* The grounded pipeline one stage at a time: POST                         *)
(* /v1/estimate/stages/{reformulate, retrieve, assemble, structure,        *)
(* generate, verify} and /v1/estimate/agent/structure.  The service keeps  *)
(* nothing: a client holds the output of each stage, hands it to the next, *)
(* and may run any of them again.  A call that fails returns nothing.      *)
(*                                                                         *)
(* What RagEstimate abstracts is here line by line: the context a source   *)
(* makes it into, the hours it records, the lines that cite it.            *)
(***************************************************************************)
EXTENDS Naturals, SequencesExt, OrderedLists

CONSTANTS
  ChunkIds,   \* every id a citation may name, stored or invented
  Corpus,     \* the stored chunks, by id
  Rankings,   \* what the search may return: sequences of stored ids, best first
  Budgets,    \* max_context_tokens of a request
  Names,      \* names of estimate lines, [module, component]
  Written,    \* the estimates the model may write
  Trees,      \* the trees the agent may propose
  Tolerance,  \* HALLUCINATION_NUMERIC_TOLERANCE, per cent
  DayHours,   \* hours in an engineer-day
  Absent      \* an absent number; an output the client does not hold

Figure == Nat \cup {Absent}

\* A line of text: the hours it states, and whether it has a digit or a "::".
TextLine == {l \in [hours : Figure, key : BOOLEAN] : l.hours # Absent => l.key}

Chunk == [id : ChunkIds, estimated_hours : Figure, content : Seq(TextLine)]

\* TaskItem's validator: a line without citations carries no days.
TaskItem == {t \in [name : Names, sources : Seq(ChunkIds), engineer_days : Figure] :
               t.sources = <<>> => t.engineer_days = Absent}

StagedEstimate == [lines : Seq(TaskItem), sources : SUBSET ChunkIds, totals : BOOLEAN,
             explained : BOOLEAN, confidence : {"high", "medium", "low", "insufficient"}]

Tree == [lines : Seq(Names), confidence : {"high", "medium", "low"}]

\* Assumed of the constants.
StagesConstantsOK ==
  /\ \A i \in DOMAIN Corpus : Corpus[i] \in Chunk /\ Corpus[i].id = i /\ Corpus[i].content # <<>>
  /\ DOMAIN Corpus \subseteq ChunkIds
  /\ \A s \in Rankings : s \in Seq(DOMAIN Corpus) /\ IsInjective(s)
  /\ Written \subseteq StagedEstimate /\ Trees \subseteq Tree
  /\ Budgets \subseteq Nat /\ Tolerance \in Nat /\ DayHours \in Nat \ {0} /\ Absent \notin Nat

VARIABLES
  brief,    \* the search text of the brief it holds: too short or long to be searched for
  chunks,   \* the ranking it retrieved
  context,  \* its last assembly: the chunks kept, in the order of the block
  result,   \* its last GenerateResult
  report    \* the gate's report on that estimate

stageVars == <<brief, chunks, context, result, report>>

StagesInit ==
  brief = Absent /\ chunks = Absent /\ context = Absent /\ result = Absent /\ report = Absent

-----------------------------------------------------------------------------
(* Assembly.                                                               *)

\* A token per line of a chunk and one for its <source> element.
WrapChunk(c) == 1 + Len(c.content)

BuildContextBlock(cs) == Sum([i \in DOMAIN cs |-> WrapChunk(cs[i])])

\* Mutant: a chunk that does not fit is left out, the next ones are tried.
TruncateToTokenBudget_Skips(cs, budget) ==
  FoldLeft(LAMBDA kept, c : IF BuildContextBlock(kept) + WrapChunk(c) <= budget
                            THEN Append(kept, c) ELSE kept, <<>>, cs)

TruncateToTokenBudget(cs, budget) ==
  LET fits == {n \in 0..Len(cs) : BuildContextBlock(SubSeq(cs, 1, n)) <= budget}
  IN SubSeq(cs, 1, CHOOSE n \in fits : \A m \in fits : m <= n)

\* Never nothing: without a key line, the first line stays.
ExtractKeyPoints(c) ==
  LET keys == {i \in DOMAIN c.content : c.content[i].key}
  IN IF keys = {} THEN <<Head(c.content)>> ELSE Those(c.content, keys)

CompressChunk(c) == [c EXCEPT !.content = ExtractKeyPoints(c)]

\* Ranks 1, 3, 5... from the front, ranks 2, 4, 6... from the back.
ReorderEdgeLoaded(cs) ==
  [i \in DOMAIN cs |-> IF 2 * i <= Len(cs) + 1 THEN cs[2 * i - 1] ELSE cs[2 * (Len(cs) - i + 1)]]

AugmentChunks(cs, compress, reorder) ==
  LET out == IF compress THEN [i \in DOMAIN cs |-> CompressChunk(cs[i])] ELSE cs
  IN IF reorder THEN ReorderEdgeLoaded(out) ELSE out

Ids(cs) == {cs[i].id : i \in DOMAIN cs}

-----------------------------------------------------------------------------
(* The checks of an estimate.                                              *)

\* One status per line, and every id cited that was not kept, by a line or by
\* the estimate as a whole.
VerifyCitations(e, ids) ==
  [lines |-> [i \in DOMAIN e.lines |->
     CASE e.lines[i].sources = <<>> -> "insufficient"
       [] ~(ToSet(e.lines[i].sources) \subseteq ids) -> "dangling"
       [] OTHER -> "grounded"],
   dangling |-> (e.sources \cup UNION {ToSet(e.lines[i].sources) : i \in DOMAIN e.lines}) \ ids]

CheckCoherence(e) ==
  e.confidence = "insufficient" => ~e.totals /\ e.lines = <<>> /\ e.explained

\* The hours of its metadata, else the last figure of its text.
ChunkHours(c) ==
  LET stated == {i \in DOMAIN c.content : c.content[i].hours # Absent}
  IN CASE c.estimated_hours # Absent -> c.estimated_hours
       [] c.estimated_hours = Absent /\ stated # {} ->
            c.content[CHOOSE i \in stated : \A j \in stated : j <= i].hours
       [] OTHER -> Absent

\* What the citations of a line add up to, over the chunks at hand; a chunk
\* cited twice counts twice.
NumericAnchor(t, cs) ==
  LET hours(id) == LET c == {cs[i] : i \in {j \in DOMAIN cs : cs[j].id = id}}
                   IN IF c = {} THEN Absent ELSE ChunkHours(CHOOSE x \in c : TRUE)
      known == {j \in DOMAIN t.sources : hours(t.sources[j]) # Absent}
  IN IF known = {} THEN Absent
     ELSE Sum([j \in DOMAIN t.sources |-> IF j \in known THEN hours(t.sources[j]) ELSE 0])

\* More days than that many hours, and the tolerance, cover.
Exceeds(days, hours) == days * DayHours * 100 > hours * (100 + Tolerance)

\* Mutant: the citations are averaged.
GateLine_Average(t, anchor, rejected) ==
  LET over == anchor \notin {Absent, 0} /\ t.engineer_days # Absent
                /\ Exceeds(t.engineer_days * Len(t.sources), anchor)
  IN IF t.sources = <<>> THEN "insufficient" ELSE IF over \/ rejected THEN "degraded" ELSE "grounded"

\* An anchor of no hours is no anchor.
GateLine(t, anchor, rejected) ==
  LET over == anchor \notin {Absent, 0} /\ t.engineer_days # Absent /\ Exceeds(t.engineer_days, anchor)
  IN IF t.sources = <<>> THEN "insufficient" ELSE IF over \/ rejected THEN "degraded" ELSE "grounded"

\* One call over all the lines that cite something.  Its verdicts are matched by
\* name, a failed call and a name not echoed reject nothing.
JudgeEstimate(e, use_judge) ==
  SUBSET {e.lines[i].name : i \in {j \in DOMAIN e.lines : use_judge /\ e.lines[j].sources # <<>>}}

GateEstimate(e, cs, rejected) ==
  [i \in DOMAIN e.lines |-> GateLine(e.lines[i], NumericAnchor(e.lines[i], cs), e.lines[i].name \in rejected)]

-----------------------------------------------------------------------------
(* The stages.                                                             *)

\* compose_search_text joins what the brief has; an absent part adds nothing.
SearchTexts == {"short", "fits", "long"}

ReformulateStage ==
  /\ brief' \in SearchTexts
  /\ UNCHANGED <<chunks, context, result, report>>

\* The request of the search bounds its text, unlike the pipeline (422).
RetrieveStage ==
  /\ brief = "fits"
  /\ chunks' \in Rankings
  /\ UNCHANGED <<brief, context, result, report>>

\* Compression and reordering are passes of the augmentation: without it
\* neither runs, whatever their own flags say.
AssembleRequest == [budget : Budgets, augment : BOOLEAN, compress : BOOLEAN, reorder : BOOLEAN]

\* The budget is spent on the chunks as they are stored; what is kept is
\* compressed after.
AssembleStage ==
  /\ chunks # Absent
  /\ \E r \in AssembleRequest :
       LET kept == TruncateToTokenBudget([i \in DOMAIN chunks |-> Corpus[chunks[i]]], r.budget)
       IN context' = [kept |-> IF r.augment THEN AugmentChunks(kept, r.compress, r.reorder) ELSE kept,
                      of |-> chunks, budget |-> r.budget, dropped |-> Len(chunks) - Len(kept),
                      compressed |-> r.augment /\ r.compress]
  /\ result' = IF result = Absent THEN Absent ELSE [result EXCEPT !.same = FALSE]
  /\ UNCHANGED <<brief, chunks, report>>

\* A new estimate takes the report on the old one with it.  History: the sources
\* in the block the model was shown, and whether the client still holds it.
Returned(kind, e, citations, coherent) ==
  /\ result' = [kind |-> kind, estimate |-> e, citations |-> citations, coherent |-> coherent,
                seen |-> IF kind = "generate" THEN Ids(context.kept) ELSE {},
                same |-> kind = "generate"]
  /\ report' = Absent
  /\ UNCHANGED <<brief, chunks, context>>

\* Nothing checks what the model writes: it is told to cite nothing, it may.
GenerateStructure == Written

\* Clean and coherent by decree.
StructureStage ==
  /\ brief # Absent
  /\ \E e \in GenerateStructure : Returned("structure", e, Absent, TRUE)

\* _structure_to_estimate: no sources, no days; insufficient iff it is empty.
StructureToEstimate(t) ==
  [lines |-> [i \in DOMAIN t.lines |-> [name |-> t.lines[i], sources |-> <<>>, engineer_days |-> Absent]],
   sources |-> {}, totals |-> FALSE, explained |-> t.lines = <<>>,
   confidence |-> IF t.lines = <<>> THEN "insufficient" ELSE t.confidence]

\* One call, without tools.
RunStructureAgent == Trees

AgentProposeStructure(t) == Returned("agent", StructureToEstimate(t), Absent, TRUE)

AgentStructureStage ==
  /\ brief # Absent
  /\ \E t \in RunStructureAgent : AgentProposeStructure(t)

\* An empty block is refused (422).  No retry: the signals are the client's.
GenerateStage ==
  /\ brief # Absent /\ context # Absent /\ context.kept # <<>>
  /\ \E e \in Written :
       Returned("generate", e, VerifyCitations(e, Ids(context.kept)), CheckCoherence(e))

\* On the chunks the client holds by now.
VerifyStage ==
  /\ result # Absent /\ context # Absent
  /\ \E use_judge \in BOOLEAN : \E rejected \in JudgeEstimate(result.estimate, use_judge) :
       report' = [lines |-> GateEstimate(result.estimate, context.kept, rejected),
                  rejected |-> rejected, same |-> result.same]
  /\ UNCHANGED <<brief, chunks, context, result>>

StagesNext ==
  \/ ReformulateStage \/ RetrieveStage \/ AssembleStage
  \/ StructureStage \/ AgentStructureStage \/ GenerateStage \/ VerifyStage

StagesSpec == StagesInit /\ [][StagesNext]_stageVars

-----------------------------------------------------------------------------
(* Properties.                                                             *)

\* What the corpus itself records of the sources of a line, a source counted as
\* often as the line cites it (hallucination.py:67).
Recorded(t) ==
  Sum([j \in DOMAIN t.sources |->
         LET id == t.sources[j]
         IN IF id \in DOMAIN Corpus /\ ChunkHours(Corpus[id]) # Absent THEN ChunkHours(Corpus[id]) ELSE 0])

\* A line that passes both checks, the citations' and the gate's, cites only
\* sources in the block the model was shown and, where these record hours,
\* claims no more days than the tolerance over what the corpus, read untruncated,
\* uncompressed and in its own order, records for its citations; where they
\* record none, or 0, nothing bounds its days (hallucination.py:96).  And a line
\* the gate degrades was rejected or claims more.  Only if the context was
\* assembled anew in between may the gate have lost a line's evidence, and then
\* it lets the line pass (hallucination.py:70).
PassedIsSupported ==
  report # Absent /\ report.same =>
    \A i \in DOMAIN report.lines :
      LET t == result.estimate.lines[i]
          over == t.engineer_days # Absent /\ Recorded(t) > 0 /\ Exceeds(t.engineer_days, Recorded(t))
      IN /\ report.lines[i] = "grounded" /\ result.citations.lines[i] = "grounded" =>
              /\ ToSet(t.sources) \subseteq result.seen
              /\ ~over
         /\ report.lines[i] = "degraded" /\ result.citations.lines[i] = "grounded" =>
              over \/ t.name \in report.rejected

\* The context is the best of the ranking: within the budget, nothing better
\* left out, no chunk dropped that would have fit as it is stored (it might
\* have fit compressed: see CompressionBuysSources), the best source at its head
\* and, reordered, the second best at its tail; and a source of it says as many
\* hours as the one it was made of.
ContextIsBest ==
  context # Absent =>
    LET n == Len(context.kept)
        k == context.kept
    IN /\ BuildContextBlock(k) <= context.budget
       /\ Ids(k) = {context.of[i] : i \in 1..n} /\ n + context.dropped = Len(context.of)
       /\ n > 0 => k[1].id = context.of[1]
       /\ n > 1 => context.of[2] \in {k[2].id, k[n].id}
       /\ context.dropped > 0 =>
            BuildContextBlock([i \in 1..(n + 1) |-> Corpus[context.of[i]]]) > context.budget
       /\ \A i \in 1..n : ChunkHours(k[i]) = ChunkHours(Corpus[k[i].id])

(* A claim of the documentation that the code does not keep.               *)

\* augmentation.py 8-10, 26-29: compression drops the filler "so the token
\* budget buys more distinct sources" - so with it on, the first source dropped
\* would not have fit even compressed.
CompressionBuysSources ==
  context # Absent /\ context.compressed /\ context.dropped > 0 =>
    LET next == Corpus[context.of[Len(context.kept) + 1]]
    IN BuildContextBlock(context.kept) + WrapChunk(CompressChunk(next)) > context.budget
=============================================================================
