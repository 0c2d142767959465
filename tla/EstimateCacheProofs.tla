------------------------- MODULE EstimateCacheProofs -------------------------
(***************************************************************************)
(* For any number of requests, texts and models: what the two caches hold  *)
(* belongs under the key it is held under, up to the calls that read two   *)
(* models; hence so does every reply.                                      *)
(***************************************************************************)
EXTENDS EstimateCache, TLAPS

\* Moderation passed the text of an answer, or could not be asked.
Passed(a) == a.for.text \in Flagged => a.from \in unmoderated

\* An answer filed under a model is that model's, or of a disturbed call.
Of(a, m) == a.by = m \/ a.from \in disturbed

ExactOK ==
  \A i \in Inputs, m \in Models :
    exact[<<i, m>>] # None =>
      exact[<<i, m>>].for = i /\ Of(exact[<<i, m>>], m) /\ Passed(exact[<<i, m>>])

SemanticOK ==
  \A e \in semantic :
    /\ e.answer.for.text = e.text /\ e.answer.for.form = e.bucket.form
    /\ Of(e.answer, e.bucket.model) /\ Passed(e.answer)

\* A call on its way, by the point it has reached.
CallOK(r) ==
  /\ call[r].at # "idle" => call[r].in \in Inputs
  /\ call[r].at \in {"exact", "semantic", "llm", "store", "store_semantic"} =>
       (call[r].in.text \in Flagged => r \in unmoderated)
  /\ call[r].at \in {"semantic", "llm"} => call[r].model = primary \/ r \in disturbed
  /\ call[r].at \in {"store", "store_semantic"} =>
       /\ call[r].answer \in Answer
       /\ call[r].answer.for = call[r].in /\ call[r].answer.from = r
       /\ call[r].answer.by = call[r].model \/ r \in disturbed
       /\ call[r].answer.by = primary \/ r \in disturbed

\* A call that ended with an answer.
ReplyOK(r) ==
  Answered(r) =>
    /\ call[r].in.text \in Flagged => r \in unmoderated
    /\ Passed(call[r].answer)
    /\ call[r].answer.for.form = call[r].in.form
    /\ <<call[r].in.text, call[r].answer.for.text>> \in Alike
    /\ call[r].reply = "cached" => Of(call[r].answer, call[r].model)

IInv ==
  /\ TypeOK
  /\ ExactOK
  /\ SemanticOK
  /\ \A r \in Calls : CallOK(r)
  /\ \A r \in Calls : ReplyOK(r)
  /\ \A r \in Calls : call[r].reply = "cached" => call[r].answer # None

USE DEF Stages, Call

LEMMA InitIInv == Init => IInv
BY CacheConstantsOK
DEF Init, IInv, TypeOK, ExactOK, SemanticOK, CallOK, ReplyOK, Answered

\* One call moves; the caches stay, the histories only grow.
Moves(r) ==
  /\ call' \in [Calls -> Call]
  /\ \A q \in Calls \ {r} : call'[q] = call[q]
  /\ disturbed \subseteq disturbed' /\ disturbed' \subseteq Calls
  /\ unmoderated \subseteq unmoderated' /\ unmoderated' \subseteq Calls

LEMMA MoveKeeps ==
  ASSUME IInv, NEW r \in Calls, Moves(r), UNCHANGED primary,
         exact' \in [Inputs \X Models -> Answer \cup {None}], ExactOK',
         semantic' \subseteq Entry, SemanticOK',
         call'[r].at = "done" <=> call'[r].reply # "none",
         CallOK(r)', ReplyOK(r)', call'[r].reply = "cached" => call'[r].answer # None
  PROVE  IInv'
<1>1. TypeOK'
  BY DEF IInv, TypeOK, Moves
<1>2. \A q \in Calls : CallOK(q)'
  <2> SUFFICES ASSUME NEW q \in Calls, q # r PROVE CallOK(q)'
    OBVIOUS
  <2> QED
    BY DEF IInv, CallOK, Moves
<1>3. \A q \in Calls : ReplyOK(q)'
  <2> SUFFICES ASSUME NEW q \in Calls, q # r PROVE ReplyOK(q)'
    OBVIOUS
  <2> QED
    BY DEF IInv, ReplyOK, Answered, Of, Passed, Moves
<1>4. \A q \in Calls : call'[q].reply = "cached" => call'[q].answer # None
  BY DEF IInv, Moves
<1>5. QED
  BY <1>1, <1>2, <1>3, <1>4 DEF IInv

LEMMA CachesKept ==
  ASSUME IInv, NEW r \in Calls, Moves(r), exact' = exact, semantic' = semantic
  PROVE  /\ exact' \in [Inputs \X Models -> Answer \cup {None}] /\ ExactOK'
         /\ semantic' \subseteq Entry /\ SemanticOK'
BY DEF IInv, TypeOK, ExactOK, SemanticOK, Of, Passed, Moves

\* Reading the model may only mark the reader as disturbed.
LEMMA ReadMarks ==
  ASSUME NEW r \in Calls, NEW m \in Models, Reads(r, m), disturbed \subseteq Calls
  PROVE  /\ disturbed \subseteq disturbed' /\ disturbed' \subseteq Calls
         /\ m = primary \/ r \in disturbed'
BY DEF Reads

-----------------------------------------------------------------------------
(* One lemma per kind of step of a call.                                   *)

LEMMA AskKeeps ==
  ASSUME IInv, NEW r \in Calls, NEW i \in Inputs, Ask(r, i)
  PROVE  IInv'
<1>1. Moves(r)
  BY DEF Ask, Moves, IInv, TypeOK
<1>2. CallOK(r)' /\ ReplyOK(r)'
  BY DEF Ask, IInv, TypeOK, CallOK, ReplyOK, Answered
<1>3. call'[r].reply = "none" /\ call'[r].at = "check"
  BY DEF Ask, IInv, TypeOK
<1>4. UNCHANGED <<primary, exact, semantic>>
  BY DEF Ask
<1>5. QED
  BY <1>1, <1>2, <1>3, <1>4, CachesKept, MoveKeeps

LEMMA CheckKeeps ==
  ASSUME IInv, NEW r \in Calls, CheckInput(r)
  PROVE  IInv'
<1>1. Moves(r)
  BY CacheConstantsOK DEF CheckInput, Goto, Reply, Moves, IInv, TypeOK
<1>2. CallOK(r)'
  BY DEF CheckInput, Goto, Reply, IInv, TypeOK, CallOK
<1>3. ReplyOK(r)'
  BY DEF CheckInput, Goto, Reply, IInv, TypeOK, ReplyOK, Answered
<1>4. /\ call'[r].at = "done" <=> call'[r].reply # "none"
      /\ call'[r].reply # "cached"
  BY DEF CheckInput, Goto, Reply, IInv, TypeOK
<1>5. UNCHANGED <<primary, exact, semantic>>
  BY DEF CheckInput
<1>6. QED
  BY <1>1, <1>2, <1>3, <1>4, <1>5, CachesKept, MoveKeeps

\* A reply from either cache: some answer that fits and is of the model read.
LEMMA HitKeeps ==
  ASSUME IInv, NEW r \in Calls, NEW m \in Models, NEW a \in Answer,
         call[r].at \in {"exact", "semantic"},
         call' = [call EXCEPT ![r].at = "done", ![r].model = m, ![r].reply = "cached",
                              ![r].answer = a],
         Reads(r, m), UNCHANGED <<primary, exact, semantic, unmoderated>>,
         Of(a, m), Passed(a),
         a.for.form = call[r].in.form, <<call[r].in.text, a.for.text>> \in Alike,
         a # None
  PROVE  IInv'
<1>1. disturbed \subseteq disturbed' /\ disturbed' \subseteq Calls
  BY ReadMarks DEF IInv, TypeOK
<1>2. call \in [Calls -> Call]
  BY DEF IInv, TypeOK
<1>3. Moves(r)
  BY <1>1, <1>2 DEF Moves, IInv, TypeOK
<1>4. /\ call'[r].at = "done" /\ call'[r].reply = "cached" /\ call'[r].model = m
      /\ call'[r].answer = a /\ call'[r].in = call[r].in
  BY <1>2
<1>5. CallOK(r)'
  <2>1. call[r].in \in Inputs
    BY DEF IInv, CallOK
  <2> QED
    BY <1>4, <2>1 DEF CallOK
<1>6. ReplyOK(r)'
  <2>1. call[r].in.text \in Flagged => r \in unmoderated
    BY DEF IInv, CallOK
  <2>2. (a.by = m \/ a.from \in disturbed') /\ (a.for.text \in Flagged => a.from \in unmoderated')
    BY <1>1 DEF Of, Passed
  <2>3. Of(call[r].answer, call[r].model)' /\ Passed(call[r].answer)'
    BY <1>4, <2>2 DEF Of, Passed
  <2>4. call'[r].in.text \in Flagged => r \in unmoderated'
    BY <1>4, <2>1
  <2>5. /\ call'[r].answer.for.form = call'[r].in.form
        /\ <<call'[r].in.text, call'[r].answer.for.text>> \in Alike
    BY <1>4
  <2> QED
    BY <2>3, <2>4, <2>5 DEF ReplyOK
<1>7. QED
  BY <1>3, <1>4, <1>5, <1>6, CachesKept, MoveKeeps

LEMMA ExactLookupKeeps ==
  ASSUME IInv, NEW r \in Calls, ExactLookup(r)
  PROVE  IInv'
<1> PICK m \in Models :
      /\ Reads(r, m)
      /\ \/ /\ exact[<<call[r].in, m>>] # None
            /\ call' = [call EXCEPT ![r].at = "done", ![r].model = m, ![r].reply = "cached",
                                    ![r].answer = exact[<<call[r].in, m>>]]
         \/ /\ exact[<<call[r].in, m>>] = None \/ RedisFails
            /\ call' = [call EXCEPT ![r].at = "semantic", ![r].model = m]
  BY DEF ExactLookup, ExactGet, ExactKey
<1>1. /\ call[r].at = "exact" /\ call[r].in \in Inputs
      /\ UNCHANGED <<primary, exact, semantic, unmoderated>>
  BY DEF ExactLookup, IInv, CallOK
<1>2. CASE /\ exact[<<call[r].in, m>>] # None
           /\ call' = [call EXCEPT ![r].at = "done", ![r].model = m, ![r].reply = "cached",
                                   ![r].answer = exact[<<call[r].in, m>>]]
  <2>1. exact[<<call[r].in, m>>] \in Answer
    BY <1>1, <1>2 DEF IInv, TypeOK
  <2>2. /\ exact[<<call[r].in, m>>].for = call[r].in
        /\ Of(exact[<<call[r].in, m>>], m) /\ Passed(exact[<<call[r].in, m>>])
    BY <1>1, <1>2 DEF IInv, ExactOK
  <2>3. <<call[r].in.text, call[r].in.text>> \in Alike
    BY <1>1, CacheConstantsOK DEF Texts
  <2>4. QED
    BY <1>1, <1>2, <2>1, <2>2, <2>3, HitKeeps
<1>3. CASE call' = [call EXCEPT ![r].at = "semantic", ![r].model = m]
  <2>1. /\ disturbed \subseteq disturbed' /\ disturbed' \subseteq Calls
        /\ m = primary \/ r \in disturbed'
    BY ReadMarks DEF IInv, TypeOK
  <2>2. Moves(r)
    BY <1>1, <1>3, <2>1 DEF Moves, IInv, TypeOK
  <2>3. CallOK(r)'
    BY <1>1, <1>3, <2>1 DEF IInv, TypeOK, CallOK
  <2>4. /\ call'[r].at = "semantic" /\ call'[r].reply = call[r].reply
        /\ call[r].reply = "none"
    BY <1>1, <1>3 DEF IInv, TypeOK
  <2>5. ReplyOK(r)'
    BY <2>4 DEF ReplyOK, Answered
  <2>6. QED
    BY <1>1, <2>2, <2>3, <2>4, <2>5, CachesKept, MoveKeeps
<1>4. QED
  BY <1>2, <1>3

LEMMA SemanticLookupKeeps ==
  ASSUME IInv, NEW r \in Calls, SemanticLookup(r)
  PROVE  IInv'
<1>0. PICK m \in Models :
      /\ Reads(r, m)
      /\ \/ \E e \in Hits(call[r].in, m) :
              call' = [call EXCEPT ![r].at = "done", ![r].model = m,
                                   ![r].reply = "cached", ![r].answer = e.answer]
         \/ Hits(call[r].in, m) = {} /\ Goto(r, "llm")
  BY DEF SemanticLookup
<1>1. /\ call[r].at = "semantic" /\ call[r].in \in Inputs
      /\ UNCHANGED <<primary, exact, semantic, unmoderated>>
  BY DEF SemanticLookup, IInv, CallOK
<1>2. ASSUME NEW e \in Hits(call[r].in, m),
             call' = [call EXCEPT ![r].at = "done", ![r].model = m,
                                  ![r].reply = "cached", ![r].answer = e.answer]
      PROVE  IInv'
  <2>1. /\ e \in semantic /\ e.bucket.form = call[r].in.form /\ e.bucket.model = m
        /\ <<call[r].in.text, e.text>> \in Alike
    BY DEF Hits, Bucket
  <2>2. e.answer \in Answer
    BY <2>1 DEF IInv, TypeOK, Entry
  <2>3. /\ e.answer.for.text = e.text /\ e.answer.for.form = e.bucket.form
        /\ Of(e.answer, m) /\ Passed(e.answer)
    BY <2>1 DEF IInv, SemanticOK
  <2>4. QED
    BY <1>1, <1>2, <2>1, <2>2, <2>3, <1>0, NoneIsNoAnswer, HitKeeps
<1>3. CASE Goto(r, "llm")
  <2>1. /\ disturbed \subseteq disturbed' /\ disturbed' \subseteq Calls
    BY <1>0, ReadMarks DEF IInv, TypeOK
  <2>2. Moves(r)
    BY <1>1, <1>3, <2>1 DEF Moves, Goto, IInv, TypeOK
  <2>3. CallOK(r)'
    BY <1>1, <1>3, <2>1 DEF Goto, IInv, TypeOK, CallOK
  <2>4. /\ call'[r].at = "llm" /\ call'[r].reply = call[r].reply
        /\ call[r].reply = "none"
    BY <1>1, <1>3 DEF Goto, IInv, TypeOK
  <2>5. ReplyOK(r)'
    BY <2>4 DEF ReplyOK, Answered
  <2>6. QED
    BY <1>1, <2>2, <2>3, <2>4, <2>5, CachesKept, MoveKeeps
<1>4. QED
  BY <1>0, <1>2, <1>3

\* A request that ends without an answer.
LEMMA FailureKeeps ==
  ASSUME IInv, NEW r \in Calls, Reply(r, "error", None),
         UNCHANGED <<primary, exact, semantic, disturbed, unmoderated>>,
         call[r].in \in Inputs
  PROVE  IInv'
<1>1. Moves(r)
  <2>1. /\ call' \in [Calls -> Call]
        /\ \A q \in Calls \ {r} : call'[q] = call[q]
    <3>1. call \in [Calls -> Call]
      BY DEF IInv, TypeOK
    <3>2. [call[r] EXCEPT !.at = "done", !.reply = "error", !.answer = None,
                          !.model = Default] \in Call
      BY <3>1, CacheConstantsOK DEF Call
    <3>3. QED
      BY <3>1, <3>2 DEF Reply
  <2>2. QED
    BY <2>1 DEF Moves, IInv, TypeOK
<1>2. /\ call'[r].at = "done" /\ call'[r].reply = "error" /\ call'[r].answer = None
      /\ call'[r].in = call[r].in
  BY DEF Reply, IInv, TypeOK
<1>3. CallOK(r)' /\ ReplyOK(r)'
  BY <1>2 DEF CallOK, ReplyOK, Answered
<1>4. QED
  BY <1>1, <1>2, <1>3, CachesKept, MoveKeeps

LEMMA SemanticFailsKeeps ==
  ASSUME IInv, NEW r \in Calls, SemanticFails(r)
  PROVE  IInv'
BY FailureKeeps DEF SemanticFails, IInv, CallOK

LEMMA GenerateFailsKeeps ==
  ASSUME IInv, NEW r \in Calls, GenerateFails(r)
  PROVE  IInv'
BY FailureKeeps DEF GenerateFails, IInv, CallOK

LEMMA GenerateKeeps ==
  ASSUME IInv, NEW r \in Calls, Generate(r)
  PROVE  IInv'
<1>0. PICK m \in Models :
        /\ Reads(r, m)
        /\ call' = [call EXCEPT ![r].at = "store",
                      ![r].answer = [for |-> call[r].in, by |-> m, from |-> r]]
  BY DEF Generate
<1>1. /\ call[r].at = "llm" /\ call[r].in \in Inputs
      /\ UNCHANGED <<primary, exact, semantic, unmoderated>>
  BY DEF Generate, IInv, CallOK
<1>2. /\ disturbed \subseteq disturbed' /\ disturbed' \subseteq Calls
      /\ m = primary \/ r \in disturbed'
  BY <1>0, ReadMarks DEF IInv, TypeOK
<1>3. [for |-> call[r].in, by |-> m, from |-> r] \in Answer
  BY <1>1 DEF Answer
<1>4. Moves(r)
  <2>1. /\ call' \in [Calls -> Call]
        /\ \A q \in Calls \ {r} : call'[q] = call[q]
    <3>1. call \in [Calls -> Call]
      BY DEF IInv, TypeOK
    <3>2. [call[r] EXCEPT !.at = "store",
                          !.answer = [for |-> call[r].in, by |-> m, from |-> r]] \in Call
      BY <3>1, <1>3 DEF Call
    <3>3. QED
      BY <1>0, <3>1, <3>2
  <2>2. unmoderated' = unmoderated /\ unmoderated \subseteq Calls
    BY <1>1 DEF IInv, TypeOK
  <2>3. QED
    BY <1>2, <2>1, <2>2 DEF Moves
<1>5. /\ call'[r].at = "store" /\ call'[r].in = call[r].in
      /\ call'[r].model = call[r].model /\ call'[r].reply = call[r].reply
      /\ call'[r].answer = [for |-> call[r].in, by |-> m, from |-> r]
  BY <1>0 DEF IInv, TypeOK
<1>6. CallOK(r)'
  <2>1. /\ call[r].in.text \in Flagged => r \in unmoderated
        /\ call[r].model = primary \/ r \in disturbed
    BY <1>1 DEF IInv, CallOK
  <2>2. m = call[r].model \/ r \in disturbed'
    BY <1>2, <2>1
  <2>3. QED
    BY <1>1, <1>2, <1>3, <1>5, <2>1, <2>2 DEF CallOK
<1>7. call[r].reply = "none"
  BY <1>1 DEF IInv, TypeOK
<1>8. ReplyOK(r)'
  BY <1>5 DEF ReplyOK, Answered
<1>9. QED
  BY <1>1, <1>4, <1>5, <1>6, <1>7, <1>8, CachesKept, MoveKeeps

LEMMA StoreExactKeeps ==
  ASSUME IInv, NEW r \in Calls, StoreExact(r)
  PROVE  IInv'
<1> DEFINE k == <<call[r].in, call[r].model>>
           a == call[r].answer
<1>1. /\ call[r].at = "store" /\ call[r].in \in Inputs /\ call[r].model \in Models
      /\ call[r].reply = "none"
      /\ UNCHANGED <<primary, semantic, disturbed, unmoderated>>
  BY DEF StoreExact, IInv, TypeOK, CallOK
<1>2. /\ a \in Answer /\ a.for = call[r].in /\ a.from = r
      /\ a.by = call[r].model \/ r \in disturbed
      /\ call[r].in.text \in Flagged => r \in unmoderated
  BY <1>1 DEF IInv, CallOK
<1>3. Of(a, call[r].model) /\ Passed(a)
  BY <1>2 DEF Of, Passed
<1>4. exact' = [exact EXCEPT ![k] = a] \/ exact' = exact
  BY DEF StoreExact, ExactKey
<1>5. /\ exact \in [Inputs \X Models -> Answer \cup {None}]
      /\ exact' \in [Inputs \X Models -> Answer \cup {None}]
  BY <1>1, <1>2, <1>4 DEF IInv, TypeOK
<1>6. ExactOK'
  <2> SUFFICES ASSUME NEW i \in Inputs, NEW m \in Models, exact'[<<i, m>>] # None
               PROVE  /\ exact'[<<i, m>>].for = i
                      /\ Of(exact'[<<i, m>>], m) /\ Passed(exact'[<<i, m>>])
    BY <1>1 DEF ExactOK, Of, Passed
  <2>1. CASE exact'[<<i, m>>] = exact[<<i, m>>]
    BY <2>1 DEF IInv, ExactOK
  <2>2. CASE exact'[<<i, m>>] = a /\ <<i, m>> = k
    BY <2>2, <1>2, <1>3
  <2>3. QED
    BY <1>4, <1>5, <2>1, <2>2
<1>7. SemanticOK' /\ semantic' \subseteq Entry
  BY <1>1 DEF IInv, TypeOK, SemanticOK, Of, Passed
<1>8. Moves(r)
  BY <1>1 DEF StoreExact, Goto, Moves, IInv, TypeOK
<1>9. /\ call'[r].at = "store_semantic" /\ call'[r].in = call[r].in
      /\ call'[r].model = call[r].model /\ call'[r].answer = a
      /\ call'[r].reply = "none"
  BY <1>1 DEF StoreExact, Goto, IInv, TypeOK
<1>10. CallOK(r)'
  BY <1>1, <1>9 DEF IInv, CallOK
<1>11. ReplyOK(r)'
  BY <1>9 DEF ReplyOK, Answered
<1>12. QED
  BY <1>1, <1>5, <1>6, <1>7, <1>8, <1>9, <1>10, <1>11, MoveKeeps

\* What the semantic cache gains is filed under the model primary when it is
\* stored, which the call has read as well or else is disturbed.
LEMMA StoreSemanticKeeps ==
  ASSUME IInv, NEW r \in Calls, StoreSemantic(r)
  PROVE  IInv'
<1> DEFINE a == call[r].answer
<1>1. /\ call[r].at = "store_semantic" /\ call[r].in \in Inputs
      /\ UNCHANGED <<primary, exact, unmoderated>>
      /\ Reply(r, "fresh", a)
  BY DEF StoreSemantic, IInv, CallOK
<1>2. /\ a \in Answer /\ a.for = call[r].in /\ a.from = r
      /\ a.by = primary \/ r \in disturbed
      /\ call[r].in.text \in Flagged => r \in unmoderated
  BY <1>1 DEF IInv, CallOK
<1>3. PICK m \in Models :
        /\ Reads(r, m)
        /\ \/ semantic' = semantic \cup {[text |-> call[r].in.text,
                                          bucket |-> Bucket(call[r].in, m), answer |-> a]}
           \/ RedisFails /\ semantic' = semantic
  BY DEF StoreSemantic
<1>4. /\ disturbed \subseteq disturbed' /\ disturbed' \subseteq Calls
      /\ m = primary \/ r \in disturbed'
  BY <1>3, ReadMarks DEF IInv, TypeOK
<1>5. /\ call'[r].at = "done" /\ call'[r].in = call[r].in
      /\ call'[r].answer = a /\ call'[r].reply = "fresh"
  BY <1>1 DEF Reply, IInv, TypeOK
<1>6. (a.by = m \/ a.from \in disturbed') /\ (a.for.text \in Flagged => a.from \in unmoderated)
  BY <1>2, <1>4
<1>7. Moves(r)
  <2>1. call \in [Calls -> Call] /\ unmoderated \subseteq Calls
    BY DEF IInv, TypeOK
  <2>2. [call[r] EXCEPT !.at = "done", !.reply = "fresh", !.answer = a,
                        !.model = Default] \in Call
    BY <1>2, <2>1, CacheConstantsOK
  <2>3. call' \in [Calls -> Call] /\ \A q \in Calls \ {r} : call'[q] = call[q]
    BY <1>1, <2>1, <2>2 DEF Reply
  <2>4. unmoderated' = unmoderated
    BY <1>1
  <2>5. QED
    BY <1>4, <2>1, <2>3, <2>4 DEF Moves
<1>8. semantic' \subseteq Entry
  <2>1. semantic \subseteq Entry
    BY DEF IInv, TypeOK
  <2>2. [text |-> call[r].in.text, bucket |-> Bucket(call[r].in, m),
         answer |-> a] \in Entry
    BY <1>1, <1>2 DEF Entry, Texts
  <2>3. QED
    BY <1>3, <2>1, <2>2
<1>9. SemanticOK'
  <2> SUFFICES ASSUME NEW e \in semantic'
               PROVE  /\ e.answer.for.text = e.text /\ e.answer.for.form = e.bucket.form
                      /\ e.answer.by = e.bucket.model \/ e.answer.from \in disturbed'
                      /\ e.answer.for.text \in Flagged => e.answer.from \in unmoderated
    BY <1>1 DEF SemanticOK, Of, Passed
  <2>1. CASE e \in semantic
    BY <1>4, <2>1 DEF IInv, SemanticOK, Of, Passed
  <2>2. CASE e = [text |-> call[r].in.text, bucket |-> Bucket(call[r].in, m),
                  answer |-> a]
    BY <1>2, <1>6, <2>2 DEF Bucket
  <2>3. QED
    BY <1>3, <2>1, <2>2
<1>10. ExactOK' /\ exact' \in [Inputs \X Models -> Answer \cup {None}]
  <2>1. exact' = exact /\ unmoderated' = unmoderated
    BY <1>1
  <2>2. QED
    BY <1>4, <2>1 DEF IInv, TypeOK, ExactOK, Of, Passed
<1>11. CallOK(r)'
  BY <1>1, <1>5 DEF CallOK
<1>12. ReplyOK(r)'
  <2>1. <<call[r].in.text, call[r].in.text>> \in Alike
    BY <1>1, CacheConstantsOK DEF Texts
  <2>2. unmoderated' = unmoderated
    BY <1>1
  <2>3. QED
    BY <1>2, <1>5, <1>6, <2>1, <2>2 DEF ReplyOK, Passed
<1>13. QED
  BY <1>1, <1>5, <1>7, <1>8, <1>9, <1>10, <1>11, <1>12, MoveKeeps

-----------------------------------------------------------------------------
(* The two steps that no request takes.                                    *)

\* Every call in flight becomes disturbed, so what it read does not matter.
LEMMA SetPrimaryKeeps ==
  ASSUME IInv, NEW m \in Models, SetPrimary(m)
  PROVE  IInv'
<1>1. /\ primary' = m /\ disturbed' = disturbed \cup InFlight
      /\ UNCHANGED <<exact, semantic, call, unmoderated>>
  BY DEF SetPrimary
<1>2. TypeOK'
  BY <1>1 DEF IInv, TypeOK, InFlight
<1>3. ExactOK' /\ SemanticOK'
  BY <1>1 DEF IInv, ExactOK, SemanticOK, Of, Passed
<1>4. ASSUME NEW r \in Calls PROVE CallOK(r)'
  <2>1. call[r].at \in {"exact", "semantic", "llm", "store", "store_semantic"}
          => r \in disturbed'
    BY <1>1 DEF InFlight
  <2>2. CallOK(r)
    BY DEF IInv
  <2>3. QED
    BY <1>1, <2>1, <2>2 DEF CallOK
<1>5. ASSUME NEW r \in Calls PROVE ReplyOK(r)'
  BY <1>1 DEF IInv, ReplyOK, Answered, Of, Passed
<1>6. \A r \in Calls : call'[r].reply = "cached" => call'[r].answer # None
  BY <1>1 DEF IInv
<1>7. QED
  BY <1>2, <1>3, <1>4, <1>5, <1>6 DEF IInv

LEMMA ExpireKeeps ==
  ASSUME IInv, Expire
  PROVE  IInv'
<1>1. UNCHANGED <<primary, call, disturbed, unmoderated>>
  BY DEF Expire
<1>2. /\ exact' \in [Inputs \X Models -> Answer \cup {None}]
      /\ \A i \in Inputs, m \in Models :
           exact'[<<i, m>>] # None => exact'[<<i, m>>] = exact[<<i, m>>]
  BY DEF Expire, IInv, TypeOK
<1>3. semantic' \subseteq semantic
  BY DEF Expire
<1>4. TypeOK' /\ ExactOK' /\ SemanticOK'
  BY <1>1, <1>2, <1>3 DEF IInv, TypeOK, ExactOK, SemanticOK, Of, Passed
<1>5. ASSUME NEW r \in Calls PROVE CallOK(r)' /\ ReplyOK(r)'
  BY <1>1 DEF IInv, CallOK, ReplyOK, Answered, Of, Passed
<1>6. QED
  BY <1>1, <1>4, <1>5 DEF IInv

-----------------------------------------------------------------------------
(* The invariant, and what it gives.                                       *)

LEMMA StepKeeps == IInv /\ [Next]_vars => IInv'
<1> SUFFICES ASSUME IInv, [Next]_vars PROVE IInv'
  OBVIOUS
<1>1. CASE UNCHANGED vars
  BY <1>1 DEF vars, IInv, TypeOK, ExactOK, SemanticOK, CallOK, ReplyOK, Answered, Of, Passed
<1>2. ASSUME NEW m \in Models, SetPrimary(m) PROVE IInv'
  BY <1>2, SetPrimaryKeeps
<1>3. ASSUME NEW r \in Calls, Step(r) PROVE IInv'
  BY <1>3, AskKeeps, CheckKeeps, ExactLookupKeeps, SemanticLookupKeeps, SemanticFailsKeeps,
     GenerateKeeps, GenerateFailsKeeps, StoreExactKeeps, StoreSemanticKeeps
  DEF Step
<1>4. QED
  BY <1>1, <1>2, <1>3, ExpireKeeps DEF Next

\* Both caches hold every answer under its own question, and under its own
\* model but for disturbed calls, at every step of the endpoint.
THEOREM CacheInvariant == Spec => []IInv
BY InitIInv, StepKeeps, PTL DEF Spec

\* Type correctness of the caches and requests.
THEOREM TypeCorrect == Spec => []TypeOK
<1>1. IInv => TypeOK
  BY DEF IInv
<1>2. QED
  BY <1>1, CacheInvariant, PTL

\* EstimationService.estimate never answers with an estimate of another form
\* or of a text beyond the similarity threshold.
THEOREM FittingAnswers == Spec => []AnswerFits
<1>1. IInv => AnswerFits
  BY DEF IInv, AnswerFits, ReplyOK
<1>2. QED
  BY <1>1, CacheInvariant, PTL

\* Only a model change, or a read that failed, under the generating call makes
\* a cached answer differ from the model the lookup read.
THEOREM HonestModel == Spec => []ModelHonest
<1>1. ASSUME IInv, NEW r \in Calls, call[r].reply = "cached"
      PROVE  call[r].answer.by = call[r].model \/ call[r].answer.from \in disturbed
  <2>1. call[r].answer # None /\ call[r].at = "done"
    BY <1>1 DEF IInv, TypeOK
  <2>2. QED
    BY <1>1, <2>1 DEF IInv, ReplyOK, Answered, Of
<1>2. IInv => ModelHonest
  BY <1>1 DEF ModelHonest
<1>3. QED
  BY <1>2, CacheInvariant, PTL

\* No path to an answer, cached or not, avoids the input guardrail.
THEOREM ModeratedAnswers == Spec => []Moderated
<1>1. IInv => Moderated
  BY DEF IInv, Moderated, ReplyOK, Passed
<1>2. QED
  BY <1>1, CacheInvariant, PTL
=============================================================================
