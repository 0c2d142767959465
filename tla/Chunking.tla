------------------------------ MODULE Chunking ------------------------------
(***************************************************************************)
(* The chunking lab: a form asks POST /embeddings/compare to cut the same  *)
(* budgets up with several strategies.  A text is the set of its tokens, a *)
(* token a component and a position in it.                                 *)
(***************************************************************************)
EXTENDS Naturals, Sequences

CONSTANTS
  Requests,  \* strategies that are ticked, or that a client sends
  Corpora,   \* the components of the budgets, budget after budget
  Size,      \* CHUNK_SIZE_TOKENS
  Overlap    \* OVERLAP_TOKENS

\* CHUNKER_FACTORIES; the strategies that cut a whole budget up at a time.
ALL_STRATEGIES ==
  <<"structural", "fixed_size", "recursive", "sentence_window", "semantic",
    "propositional", "contextual_retrieval", "hierarchical">>
Known == {ALL_STRATEGIES[i] : i \in 1..8}
Whole == {"recursive", "semantic", "hierarchical"}

VARIABLES
  names,         \* request.strategies, or all of them
  corpus,         \* the components of request.budgets
  keys,          \* the API keys that are configured
  run,           \* the chunker whose turn it is, by its place in names
  reached,       \* the component, or the budget, it has reached
  start,         \* where the next fixed window starts
  chunks,        \* the chunks it has so far
  materialized,  \* name of a strategy |-> its chunks
  status         \* "building", "chunking" or the status of the answer

labVars == <<names, corpus, keys, run, reached, start, chunks, materialized, status>>

\* A component renders to some tokens, the last of them its description, a token
\* for a sentence; the second one names the module when there is one.
Components == [budget : Nat, tokens : Nat \ {0}, sentences : Nat, module : BOOLEAN]

\* Assumed of the constants: windows overlap, but each step gets on; a budget
\* has components, and is numbered after those before it.
ChunkingConstantsOK ==
  /\ Size \in Nat /\ Overlap \in Nat /\ Overlap < Size
  /\ Corpora \subseteq Seq(Components)
  /\ \A c \in Corpora : \A i \in DOMAIN c :
       /\ c[i].budget # 0
       /\ \A b \in 1..c[i].budget : \E j \in DOMAIN c : c[j].budget = b

\* A rewritten chunk is in a model's words.
Chunks == [of : Nat, tokens : SUBSET (Nat \X Nat), rewritten : BOOLEAN]

Now == names[run]
Tokens(i) == 0..corpus[i].tokens - 1
Named(i) == IF corpus[i].module THEN {1} ELSE {}
Described(i) == {t \in Tokens(i) : t + corpus[i].sentences >= corpus[i].tokens}
Verbatim(i, positions) == [of |-> i, tokens |-> {i} \X positions, rewritten |-> FALSE]
Rendered(i) == Verbatim(i, Tokens(i))
Rewritten(i) == [of |-> i, tokens |-> {}, rewritten |-> TRUE]

Parts(b) == {i \in DOMAIN corpus : corpus[i].budget = b}
\* serialize_budget leaves the module out.
Serialized(b) == UNION {{i} \X (Tokens(i) \ Named(i)) : i \in Parts(b)}
Piece(b, tokens) == [of |-> b, tokens |-> tokens, rewritten |-> FALSE]

Budgets == {corpus[i].budget : i \in DOMAIN corpus}
Exhausted(name) == IF name \in Whole THEN reached \notin Budgets ELSE reached \notin DOMAIN corpus

LabTypeOK ==
  /\ names \in Seq(STRING) /\ corpus \in Seq(Components) /\ keys \subseteq {"openai", "anthropic"}
  /\ run \in Nat \ {0} /\ reached \in Nat \ {0} /\ start \in Nat
  /\ chunks \subseteq Chunks
  /\ DOMAIN materialized \subseteq Known /\ \A name \in DOMAIN materialized : materialized[name] \subseteq Chunks
  /\ status \in {"building", "chunking", "200", "400", "500"}

\* The lab sends the strategies that were ticked and that it knows, if any;
\* another client may send none for all of them.
FromLab(ticked) == SelectSeq(ticked, LAMBDA name : name \in Known)
FromClient(request) == IF request = <<>> THEN ALL_STRATEGIES ELSE request

LabInit ==
  /\ names \in {FromClient(r) : r \in Requests} \cup ({FromLab(r) : r \in Requests} \ {<<>>})
  /\ corpus \in Corpora
  /\ keys \in SUBSET {"openai", "anthropic"}
  /\ run = 1 /\ reached = 1 /\ start = 0
  /\ chunks = {}
  /\ materialized = [name \in {} |-> {}]
  /\ status = "building"

\* build_chunkers: the first name that is unknown or lacks its key decides.
Buildable(name) == name \in Known /\ (name = "contextual_retrieval" => "anthropic" \in keys)
BuildChunkers ==
  /\ status = "building"
  /\ status' =
       IF "openai" \notin keys THEN "500"  \* no embedder
       ELSE IF \A k \in DOMAIN names : Buildable(names[k]) THEN "chunking"
       ELSE LET first == CHOOSE k \in DOMAIN names :
                  ~ Buildable(names[k]) /\ \A j \in 1..k - 1 : Buildable(names[j])
            IN IF names[first] \in Known THEN "500" ELSE "400"
  /\ UNCHANGED <<names, corpus, keys, run, reached, start, chunks, materialized>>

Working(name) == status = "chunking" /\ run \in DOMAIN names /\ Now = name /\ ~ Exhausted(name)

\* The chunker adds chunks and turns to the next component or budget.
Emit(more) ==
  /\ chunks' = chunks \cup more
  /\ reached' = reached + 1
  /\ start' = 0
  /\ UNCHANGED <<names, corpus, keys, run, materialized, status>>

Raise ==
  /\ status' = "500"
  /\ UNCHANGED <<names, corpus, keys, run, reached, start, chunks, materialized>>

Structural == Working("structural") /\ Emit({Rendered(reached)})

\* Mutant: the last window is taken to be behind when its step would be.
LastWindow_Early == start + Size + Overlap >= corpus[reached].tokens

LastWindow == start + Size >= corpus[reached].tokens

\* One turn of the while loop of the fixed-size chunker.
Window == Verbatim(reached, {t \in Tokens(reached) : start <= t /\ t < start + Size})
FixedWindow ==
  /\ Working("fixed_size")
  /\ IF LastWindow THEN Emit({Window})
     ELSE /\ chunks' = chunks \cup {Window}
          /\ start' = start + (Size - Overlap)
          /\ UNCHANGED <<names, corpus, keys, run, reached, materialized, status>>

\* A sentence each; an empty description gives none.
SentenceWindow ==
  Working("sentence_window") /\ Emit({Verbatim(reached, {t}) : t \in Described(reached)})

\* The splitter is external: it cuts a budget up, between components or not.
Recursive ==
  /\ Working("recursive")
  /\ \/ Emit({Piece(reached, Serialized(reached))})
     \/ Emit({Piece(reached, Serialized(reached) \cap ({i} \X Tokens(i))) : i \in Parts(reached)})

\* Its embeddings may fail, and nothing catches that.
Semantic ==
  /\ Working("semantic")
  /\ Raise \/ Emit({Piece(reached, Serialized(reached))})

Hierarchical ==
  /\ Working("hierarchical")
  /\ Emit({Piece(reached, Serialized(reached))} \cup {Rendered(i) : i \in Parts(reached)})

\* Mutant: a component without propositions is skipped.
Propositions_Dropped(decomposed) == IF decomposed THEN {Rewritten(reached)} ELSE {}

\* A call that fails, or finds no proposition, leaves the component as it is.
Propositions(decomposed) == IF decomposed THEN {Rewritten(reached)} ELSE {Rendered(reached)}

\* An answer without usage raises outside the try.
Propositional ==
  /\ Working("propositional")
  /\ Raise \/ \E decomposed \in BOOLEAN : Emit(Propositions(decomposed))

\* The context comes before the text, or is missing; an answer whose first block
\* has no text raises outside the try.
Contextual ==
  /\ Working("contextual_retrieval")
  /\ Raise \/ Emit({Rendered(reached)})

\* The next chunker: a name asked for twice is chunked again and keeps the last.
NextChunker ==
  /\ status = "chunking" /\ run \in DOMAIN names /\ Exhausted(Now)
  /\ materialized' =
       [name \in DOMAIN materialized \cup {Now} |-> IF name = Now THEN chunks ELSE materialized[name]]
  /\ run' = run + 1
  /\ reached' = 1 /\ start' = 0 /\ chunks' = {}
  /\ UNCHANGED <<names, corpus, keys, status>>

\* compute_stats, then run_queries, whose embeddings may fail.
Answer ==
  /\ status = "chunking" /\ run \notin DOMAIN names
  /\ status' \in {"200", "500"}
  /\ UNCHANGED <<names, corpus, keys, run, reached, start, chunks, materialized>>

LabNext ==
  \/ BuildChunkers \/ Structural \/ FixedWindow \/ Recursive \/ SentenceWindow
  \/ Semantic \/ Propositional \/ Contextual \/ Hierarchical \/ NextChunker \/ Answer

LabSpec == LabInit /\ [][LabNext]_labVars

-----------------------------------------------------------------------------
(* Properties.                                                             *)

\* What a strategy promises to keep of a component.
Owed(name, i) ==
  IF name = "sentence_window" THEN Described(i)
  ELSE IF name \in Whole \ {"hierarchical"} THEN Tokens(i) \ Named(i)
  ELSE Tokens(i)

HasToken(found, i, t) ==
  \E c \in found : (c.rewritten /\ c.of = i) \/ <<i, t>> \in c.tokens

\* What a strategy was done with keeps every token it owes, in the words of the
\* text or in a model's: a window that stops short, or a decomposition that
\* failed, drops nothing silently (propositional.py:63, fixed_size.py:51).  The
\* module is lost to the splitters of whole budgets, everything but the
\* description to the sentences.
ContentKept ==
  \A name \in DOMAIN materialized : \A i \in DOMAIN corpus : \A t \in Owed(name, i) :
    HasToken(materialized[name], i, t)

\* A fixed window brings tokens no other window of its component has: the loop
\* stops before a window that would be all overlap (fixed_size.py:51).
WindowsBring ==
  "fixed_size" \in DOMAIN materialized =>
    \A c, d \in materialized["fixed_size"] : c.tokens \subseteq d.tokens => c = d

\* Together: what the lab compares holds all that each strategy owes, and no fixed
\* window within another.  Windows that overlap and the levels of a hierarchy do
\* repeat text.
ChunksSound == ContentKept /\ WindowsBring
=============================================================================
