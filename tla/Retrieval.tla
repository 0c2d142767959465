------------------------------ MODULE Retrieval ------------------------------
(***************************************************************************)
(* A retrieval request.  /v1/retrieval/advanced-search has all the stages: *)
(* routing and query transform (together), the embeddings, one hybrid      *)
(* search per collection and sub-query (together), fusion, the reranker    *)
(* and temporal decay.  /v1/retrieval/search is the same over one          *)
(* collection and one query, without decay; the tool of the agent and the  *)
(* stage of the wizard are its plain vector path, and POST /search is that *)
(* without filters or threshold.                                           *)
(*                                                                         *)
(* Chunk ids are numbers, unique within a collection only.  Scores keep    *)
(* their order: 1 / (RRF_K + position) and 1 / (position + 1) are scaled   *)
(* to integers, the logits of the reranker are a few numbers, and a        *)
(* half-life halves a score.  A list holds a chunk once at most.           *)
(***************************************************************************)
EXTENDS Naturals, Sequences, FiniteSets, SequencesExt, FiniteSetsExt, OrderedLists

CONSTANTS
  Registry,       \* COLLECTIONS: the collections, in order; budgets come first
  Nearest,        \* Nearest[c]: the orders by distance that c may have
  Within,         \* Within[c]: how many chunks may be within the threshold
  Matched,        \* Matched[c]: the orders that a lexical search may find
  Axes,           \* what a request may filter by
  Understood,     \* Understood[c]: the axes the hard filters of c apply to
  Fits,           \* Fits[<<c, x>>]: the axes on which the chunk meets the filters
  RRF_K,          \* the smoothing of the fusion
  RecallTopK,     \* RETRIEVAL_RECALL_TOP_K
  RerankTopN,     \* RERANK_TOP_N
  MaxSubqueries,  \* QUERY_MAX_SUBQUERIES
  MaxTargets,     \* ROUTER_MAX_TARGETS
  TopKs,          \* the top_k a caller may ask for
  Logits,         \* the scores of the cross-encoder
  HalfLives,      \* the half-lives passed since a chunk's document_date
  MaxChunks,      \* chunk ids are 1..MaxChunks
  Unit,           \* the scale of the scores of the fusion
  Scale           \* the scale of the other scores

\* advanced-search, search, search_budgets, stages/retrieve, and POST /search.
Endpoints == {"advanced", "search", "agent", "stage", "semantic"}
Collections == Range(Registry)
Stages == [hybrid : BOOLEAN, rerank : BOOLEAN, routing : BOOLEAN, transform : BOOLEAN,
           decay : BOOLEAN]

\* Assumed of the constants: no list repeats a chunk, the scales divide.
RetrievalConstantsOK ==
  /\ Registry \in Seq(Collections) /\ Registry # <<>> /\ IsInjective(Registry)
  /\ \A c \in Collections :
       /\ \A order \in Nearest[c] \cup Matched[c] : order \in Seq(1..MaxChunks) /\ IsInjective(order)
       /\ Within[c] \subseteq Nat
  /\ MaxChunks \in Nat /\ RRF_K \in Nat \ {0} /\ Unit \in Nat \ {0} /\ Scale \in Nat \ {0}
  /\ \A position \in 0..(MaxChunks - 1) : Unit % (RRF_K + position) = 0
  /\ \A i \in 1..RecallTopK, x \in DOMAIN HalfLives : Scale % (i * 2 ^ HalfLives[x]) = 0
  /\ RecallTopK \in Nat /\ RerankTopN \in Nat /\ TopKs \subseteq Nat
  /\ MaxSubqueries \in Nat /\ MaxTargets \in Nat \ {0}

VARIABLES
  phase,     \* where the request stands
  endpoint,  \* which one it came to
  filters,   \* the axes it filters by
  stages,    \* StageConfig: which stages run
  topK, technique, targets,
  subqueries,  \* how many
  hits,      \* what each search found: [vector, lexical], per target and sub-query
  scored,    \* the pool with its base scores
  answer,    \* the chunks returned
  fault      \* history: the stage that failed the request

retrievalVars == <<phase, endpoint, filters, stages, topK, technique, targets, subqueries, hits, scored,
          answer, fault>>

-----------------------------------------------------------------------------
(* Fusion.                                                                 *)

\* Where x is in a list without repetitions, from 0.
Position(list, x) == (CHOOSE k \in DOMAIN list : list[k] = x) - 1
Listing(lists, x) == {i \in DOMAIN lists : x \in Range(lists[i])}
Items(lists) == UNION {Range(lists[i]) : i \in DOMAIN lists}

\* Mutant: the score of the last branch replaces those before it.
X_Points(lists, x) ==
  Unit \div (RRF_K + Position(lists[Max(Listing(lists, x))], x))

Points(lists, x) ==
  Sum([i \in DOMAIN lists |->
         IF x \in Range(lists[i]) THEN Unit \div (RRF_K + Position(lists[i], x)) ELSE 0])

\* reciprocal_rank_fusion: best first, ties by ascending id.
ReciprocalRank(lists) ==
  LET scores == {<<x, Points(lists, x)>> : x \in Items(lists)}
      order == InOrder(scores, {p \in scores \X scores :
                                  p[1][2] > p[2][2] \/ (p[1][2] = p[2][2] /\ p[1][1] < p[2][1])})
  IN [k \in DOMAIN order |-> order[k][1]]

\* round_robin_merge: column by column, each item where it first comes up.
RoundRobin(lists) ==
  LET turn(x) == Min({Position(lists[i], x) * Len(lists) + i : i \in Listing(lists, x)})
      turns == {<<x, turn(x)>> : x \in Items(lists)}
      order == InOrder(turns, {p \in turns \X turns : p[1][2] < p[2][2]})
  IN [k \in DOMAIN order |-> order[k][1]]

Cut(list, n) == SubSeq(list, 1, Min({n, Len(list)}))

\* CollectionHits.fused_order, of a search that recalls at most limit by vector.
FusedOrder(hit, limit) ==
  LET vector == Cut(hit.vector, limit)
  IN IF stages.hybrid THEN ReciprocalRank(<<vector, hit.lexical>>) ELSE vector

Orders(t, limit) == [q \in 1..subqueries |-> FusedOrder(hits[t][q], limit)]

\* Mutant: consensus for the sub-queries of a decomposition too.
X_FuseCollection(t, limit) == ReciprocalRank(Orders(t, limit))

\* _fuse_collection: coverage for a decomposition, consensus otherwise.
FuseCollection(t, limit) ==
  IF technique = "decompose" THEN RoundRobin(Orders(t, limit))
                             ELSE ReciprocalRank(Orders(t, limit))

\* Mutant: the collections are merged by the bare chunk id.
X_Keyed(t, id) == <<targets[1], id>>

\* _chunk_key.
Keyed(t, id) == <<targets[t], id>>

CollectionOrder(t, limit) ==
  LET order == FuseCollection(t, limit) IN [i \in DOMAIN order |-> Keyed(t, order[i])]

\* A pool of candidates, all the collections merged; one that found nothing, which
\* the code leaves out, has no turn.
Merged(limit) == RoundRobin([t \in DOMAIN targets |-> CollectionOrder(t, limit)])

Pool(limit) == Cut(Merged(limit), RecallTopK)

\* Mutant: only the reranker asks for a wide recall.
X_Limit == IF stages.rerank THEN RecallTopK ELSE topK

\* hybrid_search_one: how many rows the vector branch recalls.
Limit == IF stages.rerank \/ stages.hybrid THEN RecallTopK ELSE topK

-----------------------------------------------------------------------------
(* Scores.                                                                 *)

\* Python's sort by score, descending and stable.
ByScore(list) ==
  LET places == DOMAIN list
      order == InOrder(places, {p \in places \X places :
                 \/ list[p[1]].score > list[p[2]].score
                 \/ list[p[1]].score = list[p[2]].score /\ p[1] < p[2]})
  IN [i \in places |-> list[order[i]]]

\* Without a reranker the base score is 1 / (position + 1).
Positional(pool) == [i \in DOMAIN pool |-> [chunk |-> pool[i], score |-> Scale \div i]]

\* rerank_with_scores.
Reranked(pool, logit) == ByScore([i \in DOMAIN pool |-> [chunk |-> pool[i], score |-> Scale * logit[i]]])

\* apply_temporal_decay: the newest scores stay as they are.
Decayed(list) ==
  ByScore([i \in DOMAIN list |->
             [list[i] EXCEPT !.score = @ \div (2 ^ HalfLives[list[i].chunk])]])

\* retrieve: with a reranker RERANK_TOP_N chunks, whatever top_k says.
Retrieved(list) == Cut(list, IF stages.rerank THEN RerankTopN ELSE topK)

Aged(list) == Cut(IF stages.decay THEN Decayed(list) ELSE list, topK)

Finalists(list) ==
  LET final == IF endpoint = "advanced" THEN Aged(list) ELSE Retrieved(list)
  IN [i \in DOMAIN final |-> final[i].chunk]

-----------------------------------------------------------------------------
(* What a search may find.                                                 *)

\* _structural_filters: every axis applies to every row.
StructuralFilters(c, x) == filters \subseteq Fits[<<c, x>>]

\* Mutant: only the axes that every collection understands.
X_HardFilterClauses(c, x) ==
  filters \cap {a \in Axes : \A d \in Collections : a \in Understood[d]} \subseteq Fits[<<c, x>>]

\* hard_filter_clauses: those the collection understands.
HardFilterClauses(c, x) == filters \cap Understood[c] \subseteq Fits[<<c, x>>]

Passes(c, x) == IF endpoint = "advanced" THEN HardFilterClauses(c, x) ELSE StructuralFilters(c, x)

Filtered(c, order) == Those(order, {i \in DOMAIN order : Passes(c, order[i])})

\* search_filtered: the rows that pass, of those the ones within the threshold.
SearchFiltered(c) == {Cut(Filtered(c, order), n) : order \in Nearest[c], n \in Within[c]}

\* Mutant: the lexical branch forgets the filters.
X_SearchLexical(c) == IF stages.hybrid THEN Matched[c] ELSE {<<>>}

\* search_lexical, over the same candidates; one empty branch without hybrid search.
SearchLexical(c) ==
  IF stages.hybrid
  THEN {Cut(Filtered(c, order), RecallTopK) : order \in Matched[c]}
  ELSE {<<>>}

\* ChunkStore.search: any row, however far.
SearchAll(c) == Nearest[c]

\* hybrid_search_one.
CollectionHits(c) ==
  [vector : IF endpoint = "semantic" THEN SearchAll(c) ELSE SearchFiltered(c),
   lexical : SearchLexical(c)]

-----------------------------------------------------------------------------
(* The request.                                                            *)

RetrievalInit ==
  /\ phase = "received"
  /\ endpoint \in Endpoints /\ stages \in Stages /\ topK \in TopKs
  /\ endpoint \notin {"advanced", "search"} => \A s \in DOMAIN stages : ~stages[s]
  /\ filters \in SUBSET Axes
  /\ endpoint = "semantic" => filters = {}
  /\ endpoint = "agent" => "type" \in filters
  /\ endpoint = "advanced" => "type" \notin filters
  /\ technique = "direct" /\ targets = <<>> /\ subqueries = 1
  /\ hits = <<>> /\ scored = <<>> /\ answer = <<>> /\ fault = "none"

\* transform_query: the technique goes by the shape of the query; a failure, or
\* no sub-query, is a direct query.
Plans ==
  {<<"direct", 1>>} \cup
  (IF stages.transform THEN {"expand", "decompose"} \X (1..MaxSubqueries) ELSE {})

\* route: the collections the caller named, or those whose vocabulary matches in
\* the order of the registry, or those the classifier gives, cut to MaxTargets;
\* all of them when none of that applies or the classifier fails.
Routes ==
  LET distinct == {s \in BoundedSeq(Collections, MaxTargets) : s # <<>> /\ IsInjective(s)}
      caller == distinct
      rules == {Cut(Those(Registry, places), MaxTargets) : places \in (SUBSET (DOMAIN Registry)) \ {{}}}
      classifier == distinct
  IN caller \cup (IF stages.routing THEN rules \cup classifier ELSE {}) \cup {Registry}

\* advanced_retrieve, up to its searches.
Plan ==
  /\ phase = "received" /\ endpoint = "advanced"
  /\ phase' = "planned"
  /\ \E plan \in Plans : technique' = plan[1] /\ subqueries' = plan[2]
  /\ targets' \in Routes
  /\ UNCHANGED <<endpoint, filters, stages, topK, hits, scored, answer, fault>>

\* retrieve: the query as it came, over the budgets.
Direct(e) ==
  /\ phase = "received" /\ endpoint = e
  /\ phase' = "planned"
  /\ targets' = <<Registry[1]>>
  /\ UNCHANGED <<endpoint, filters, stages, topK, technique, subqueries, hits, scored, answer, fault>>

PlanSearch == Direct("search")
SearchBudgets == Direct("agent")
SearchChunks == Direct("stage")
SemanticSearch == Direct("semantic")

\* The searches of the next target.  They run together, each with a session of its
\* own, over rows that come and go: what one finds says nothing of the others, and
\* the order they end in does not matter.
Search ==
  /\ phase = "planned"
  /\ LET c == targets[Len(hits) + 1]
     IN \E h \in [1..subqueries -> CollectionHits(c)] : hits' = Append(hits, h)
  /\ phase' = IF Len(hits') = Len(targets) THEN "searched" ELSE "planned"
  /\ UNCHANGED <<endpoint, filters, stages, topK, technique, targets, subqueries, scored, answer, fault>>

Failed(stage) ==
  /\ fault' = stage
  /\ phase' = "failed"
  /\ UNCHANGED <<endpoint, filters, stages, topK, technique, targets, subqueries, hits, scored, answer>>

\* An embedding or one of the searches failed.
SearchFails == phase = "planned" /\ Failed("search")

RerankerFails == phase = "searched" /\ stages.rerank /\ Pool(Limit) # <<>> /\ Failed("reranker")

\* The pool gets its base scores.
Score ==
  /\ phase = "searched"
  /\ phase' = "scored"
  /\ LET pool == Pool(Limit)
     IN IF stages.rerank
        THEN \E logit \in [DOMAIN pool -> Logits] : scored' = Reranked(pool, logit)
        ELSE scored' = Positional(pool)
  /\ UNCHANGED <<endpoint, filters, stages, topK, technique, targets, subqueries, hits, answer, fault>>

Answer ==
  /\ phase = "scored"
  /\ phase' = "answered"
  /\ answer' = Finalists(scored)
  /\ UNCHANGED <<endpoint, filters, stages, topK, technique, targets, subqueries, hits, scored, fault>>

RetrievalNext ==
  \/ Plan \/ PlanSearch \/ SearchBudgets \/ SearchChunks \/ SemanticSearch
  \/ Search \/ SearchFails \/ RerankerFails \/ Score \/ Answer

RetrievalSpec == RetrievalInit /\ [][RetrievalNext]_retrievalVars

-----------------------------------------------------------------------------
(* Properties.                                                             *)

Before(list, x, y) == x \in Range(list) /\ (y \in Range(list) => Position(list, x) < Position(list, y))

\* Sub-queries that reformulate one need: a chunk ahead of another in every order
\* that has the other stays ahead of it (fusion.py:25).
ConsensusKept ==
  technique = "expand" =>
    \A t \in DOMAIN targets :
      LET orders == Orders(t, Limit)
      IN \A x, y \in Items(orders) :
           (x # y /\ \A q \in Listing(orders, y) : Before(orders[q], x, y)) =>
             Before(FuseCollection(t, Limit), x, y)

\* Sub-queries on different topics: the best chunk of each one, in each collection,
\* is among the first of the merge, as many as there are of both together
\* (advanced_pipeline.py:151, 261).  A second best may still come before it, where
\* another collection's sub-queries agree on their best.
CoverageKept ==
  technique = "decompose" =>
    \A t \in DOMAIN targets, q \in 1..subqueries :
      LET order == FusedOrder(hits[t][q], Limit)
      IN order # <<>> =>
           Keyed(t, order[1]) \in Range(Cut(Merged(Limit), Len(targets) * subqueries))

\* Fusion keeps the consensus or the coverage its technique is for, and every chunk
\* that some search found once, two collections' equal ids included; and whichever
\* branch found it, a chunk meets the filters its endpoint has for its collection.
FusionSound ==
  phase = "searched" =>
    /\ ConsensusKept /\ CoverageKept
    /\ Len(Merged(Limit)) =
         Sum([t \in DOMAIN targets |-> Cardinality(Items(Orders(t, Limit)))])
    /\ \A chunk \in Range(Merged(Limit)) :
         filters \cap (IF endpoint = "advanced" THEN Understood[chunk[1]] ELSE Axes)
           \subseteq Fits[chunk]

\* Recalling only top_k rows changes no answer: except in the plain vector path,
\* where decay or the fusion of reformulations may still prefer a chunk beyond them,
\* although that path recalls top_k because its order is final (pipeline.py:92).
RecallSuffices ==
  phase = "answered" /\ ~stages.rerank =>
    \/ answer = Finalists(Positional(Pool(RecallTopK)))
    \/ ~stages.hybrid /\ (stages.decay \/ (technique = "expand" /\ subqueries > 1))
=============================================================================
