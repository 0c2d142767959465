---------------------------- MODULE EstimateCache ----------------------------
(***************************************************************************)
(* POST /api/v1/estimate (EstimationService.estimate): input guardrail,    *)
(* exact cache, semantic cache, model call, both stores.  The handler is a *)
(* plain `def`, so its calls run in threads side by side, and the primary  *)
(* model is read from Redis anew at every point that uses it, while        *)
(* PUT /api/v1/config/models may change it.                                *)
(***************************************************************************)
EXTENDS Naturals, FiniteSets

CONSTANTS
  Calls,       \* requests to the endpoint; bounds the behaviours
  Threads,     \* how many of them run side by side
  Inputs,      \* what is asked: [text, form], form the typed options
  Alike,       \* pairs of texts whose embeddings are within the threshold
  Flagged,     \* texts that moderation flags
  Models,
  Default,     \* PRIMARY_MODEL in .env
  None,        \* no answer
  RedisFails   \* whether Redis and the embedding service may fail

Texts == {i.text : i \in Inputs}

ASSUME CacheConstantsOK ==
  /\ Default \in Models
  /\ RedisFails \in BOOLEAN /\ Threads \in Nat
  /\ \A s, t \in Texts : <<s, t>> \in Alike <=> <<t, s>> \in Alike
  /\ \A t \in Texts : <<t, t>> \in Alike

VARIABLES
  primary,      \* PRIMARY_MODEL: the override in Redis, or the default
  exact,        \* the exact cache, by input and model
  semantic,     \* the entries of the vector index
  call,         \* the requests
  disturbed,    \* history: calls that did not read one model throughout
  unmoderated   \* history: calls whose flagged text moderation failed to see

vars == <<primary, exact, semantic, call, disturbed, unmoderated>>

Answer == [for : Inputs, by : Models, from : Calls]

ASSUME NoneIsNoAnswer == None \notin Answer

\* _exact_cache_key: every field of the request, and the model.
ExactKey(i, m) == <<i, m>>

\* bucket_for: every field but the description, and the model.
Bucket(i, m) == [form |-> i.form, model |-> m]

Entry == [text : Texts, bucket : {Bucket(i, m) : i \in Inputs, m \in Models}, answer : Answer]

Stages == {"idle", "check", "exact", "semantic", "llm", "store", "store_semantic", "done"}

Call == [at : Stages, in : Inputs \cup {None}, model : Models, answer : Answer \cup {None},
         reply : {"none", "fresh", "cached", "rejected", "error"}]

TypeOK ==
  /\ primary \in Models
  /\ exact \in [Inputs \X Models -> Answer \cup {None}]
  /\ semantic \subseteq Entry
  /\ call \in [Calls -> Call]
  /\ \A r \in Calls : call[r].at = "done" <=> call[r].reply # "none"
  /\ disturbed \subseteq Calls /\ unmoderated \subseteq Calls

Init ==
  /\ primary = Default
  /\ exact = [k \in Inputs \X Models |-> None]
  /\ semantic = {}
  /\ call = [r \in Calls |-> [at |-> "idle", in |-> None, model |-> Default,
                              answer |-> None, reply |-> "none"]]
  /\ disturbed = {} /\ unmoderated = {}

InFlight == {r \in Calls : call[r].at \notin {"idle", "done"}}

\* RuntimeModelConfig.effective: an unreadable hash reads as no override.
Reads(r, m) ==
  \/ /\ m = primary
     /\ disturbed' = disturbed
  \/ /\ RedisFails /\ m = Default
     /\ disturbed' = IF m = primary THEN disturbed ELSE disturbed \cup {r}

Goto(r, at) == call' = [call EXCEPT ![r].at = at]

\* Of a call that ended only a cached reply's model is remembered.
Reply(r, kind, answer) ==
  call' = [call EXCEPT ![r].at = "done", ![r].reply = kind, ![r].answer = answer,
                       ![r].model = Default]

-----------------------------------------------------------------------------
(* PUT /api/v1/config/models: another model, or null for the default.      *)

SetPrimary(m) ==
  /\ m # primary
  /\ primary' = m
  /\ disturbed' = disturbed \cup InFlight
  /\ UNCHANGED <<exact, semantic, call, unmoderated>>

-----------------------------------------------------------------------------
(* EstimationService.estimate.                                             *)

\* A thread of the pool takes the request.
Ask(r, i) ==
  /\ call[r].at = "idle"
  /\ Cardinality(InFlight) < Threads
  /\ call' = [call EXCEPT ![r].at = "check", ![r].in = i]
  /\ UNCHANGED <<primary, exact, semantic, disturbed, unmoderated>>

\* check_input: a failed moderation request lets the text through.
CheckInput(r) ==
  /\ call[r].at = "check"
  /\ \/ call[r].in.text \notin Flagged /\ Goto(r, "exact") /\ unmoderated' = unmoderated
     \/ call[r].in.text \in Flagged /\ Reply(r, "rejected", None) /\ unmoderated' = unmoderated
     \/ call[r].in.text \in Flagged /\ Goto(r, "exact") /\ unmoderated' = unmoderated \cup {r}
  /\ UNCHANGED <<primary, exact, semantic, disturbed>>

\* EstimationCache.get: a failed GET is a miss.
ExactGet(key) == {exact[key]} \cup (IF RedisFails THEN {None} ELSE {})

\* The key is computed here and used again to store.
ExactLookup(r) ==
  /\ call[r].at = "exact"
  /\ \E m \in Models : \E cached \in ExactGet(ExactKey(call[r].in, m)) :
       /\ Reads(r, m)
       /\ \/ /\ cached # None
             /\ call' = [call EXCEPT ![r].at = "done", ![r].model = m, ![r].reply = "cached",
                                    ![r].answer = cached]
          \/ /\ cached = None
             /\ call' = [call EXCEPT ![r].at = "semantic", ![r].model = m]
  /\ UNCHANGED <<primary, exact, semantic, unmoderated>>

\* Mutant: the bucket does not hold the model.
Hits_AnyModel(i, m) ==
  LET near == {e \in semantic : e.bucket.form = i.form /\ <<i.text, e.text>> \in Alike}
      same == {e \in near : e.text = i.text}
  IN IF same # {} THEN same ELSE near

\* VectorQuery: the nearest entry of the bucket, if it is near enough.
Hits(i, m) ==
  LET near == {e \in semantic : e.bucket = Bucket(i, m) /\ <<i.text, e.text>> \in Alike}
      same == {e \in near : e.text = i.text}
  IN IF same # {} THEN same ELSE near

\* Mutant: a hit is stored again, under the text that found it.
SemanticLookup_Remembers(r) ==
  /\ call[r].at = "semantic"
  /\ \E m \in Models :
       /\ Reads(r, m)
       /\ \/ \E e \in Hits(call[r].in, m) :
               /\ call' = [call EXCEPT ![r].at = "done", ![r].model = m,
                                       ![r].reply = "cached", ![r].answer = e.answer]
               /\ semantic' = semantic \cup {[e EXCEPT !.text = call[r].in.text]}
          \/ Hits(call[r].in, m) = {} /\ Goto(r, "llm") /\ semantic' = semantic
  /\ UNCHANGED <<primary, exact, unmoderated>>

SemanticLookup(r) ==
  /\ call[r].at = "semantic"
  /\ \E m \in Models :
       /\ Reads(r, m)
       /\ \/ \E e \in Hits(call[r].in, m) :
               call' = [call EXCEPT ![r].at = "done", ![r].model = m,
                                    ![r].reply = "cached", ![r].answer = e.answer]
          \/ Hits(call[r].in, m) = {} /\ Goto(r, "llm")
  /\ UNCHANGED <<primary, exact, semantic, unmoderated>>

\* Only the exact cache swallows its errors: a failed embedding or query
\* ends the request.
SemanticFails(r) ==
  /\ RedisFails
  /\ call[r].at \in {"semantic", "store_semantic"}
  /\ Reply(r, "error", None)
  /\ UNCHANGED <<primary, exact, semantic, disturbed, unmoderated>>

\* complete_structured, the primary model read once more.
Generate(r) ==
  /\ call[r].at = "llm"
  /\ \E m \in Models :
       /\ Reads(r, m)
       /\ call' = [call EXCEPT ![r].at = "store",
                     ![r].answer = [for |-> call[r].in, by |-> m, from |-> r]]
  /\ UNCHANGED <<primary, exact, semantic, unmoderated>>

GenerateFails(r) ==
  /\ call[r].at = "llm"
  /\ Reply(r, "error", None)
  /\ UNCHANGED <<primary, exact, semantic, disturbed, unmoderated>>

\* EstimationCache.set, under the key of the lookup.
StoreExact(r) ==
  /\ call[r].at = "store"
  /\ \/ exact' = [exact EXCEPT ![ExactKey(call[r].in, call[r].model)] = call[r].answer]
     \/ RedisFails /\ exact' = exact
  /\ Goto(r, "store_semantic")
  /\ UNCHANGED <<primary, semantic, disturbed, unmoderated>>

\* The bucket's model is the one primary now.
StoreSemantic(r) ==
  /\ call[r].at = "store_semantic"
  /\ \E m \in Models :
       /\ Reads(r, m)
       /\ \/ semantic' = semantic \cup {[text |-> call[r].in.text,
                                         bucket |-> Bucket(call[r].in, m),
                                         answer |-> call[r].answer]}
          \/ RedisFails /\ semantic' = semantic
  /\ Reply(r, "fresh", call[r].answer)
  /\ UNCHANGED <<primary, exact, unmoderated>>

\* setex and load with a TTL.
Expire ==
  /\ \/ \E k \in DOMAIN exact :
          exact[k] # None /\ exact' = [exact EXCEPT ![k] = None] /\ UNCHANGED semantic
     \/ \E e \in semantic : semantic' = semantic \ {e} /\ UNCHANGED exact
  /\ UNCHANGED <<primary, call, disturbed, unmoderated>>

Step(r) ==
  \/ \E i \in Inputs : Ask(r, i)
  \/ CheckInput(r) \/ ExactLookup(r) \/ SemanticLookup(r) \/ SemanticFails(r)
  \/ Generate(r) \/ GenerateFails(r) \/ StoreExact(r) \/ StoreSemantic(r)

Next ==
  \/ \E m \in Models : SetPrimary(m)
  \/ \E r \in Calls : Step(r)
  \/ Expire

Spec == Init /\ [][Next]_vars

-----------------------------------------------------------------------------
(* Properties.                                                             *)

Answered(r) == call[r].at = "done" /\ call[r].answer # None

\* A reply was generated for the same form and for a text alike to the one
\* asked.  Alikeness is not transitive: a cache fed with its own hits would
\* drift away from the question.
AnswerFits ==
  \A r \in Calls : Answered(r) =>
    /\ call[r].answer.for.form = call[r].in.form
    /\ <<call[r].in.text, call[r].answer.for.text>> \in Alike

\* An answer from a cache was generated by the model that the lookup read,
\* unless the primary model changed under the call that generated it, or that
\* call could not read it at one of its steps.
ModelHonest ==
  \A r \in Calls : call[r].reply = "cached" =>
    call[r].answer.by = call[r].model \/ call[r].answer.from \in disturbed

\* Whichever cache it comes from, an answer goes only to a text that moderation
\* passed, and was generated for one that it passed - except where its request
\* failed, for that call lets the text through.
Moderated ==
  \A r \in Calls : Answered(r) =>
    /\ call[r].in.text \in Flagged => r \in unmoderated
    /\ call[r].answer.for.text \in Flagged => call[r].answer.from \in unmoderated
=============================================================================
