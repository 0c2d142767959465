----------------------------- MODULE RagEstimate -----------------------------
(***************************************************************************)
(* POST /v1/estimate/from-transcript: the grounded estimation pipeline of  *)
(* generation/rag/estimator.py together with the idempotency store it      *)
(* reads and writes (generation/rag/idempotency.py).                       *)
(*                                                                         *)
(* The endpoint is a coroutine.  Every `await` hands the event loop to the *)
(* other requests, so a request is a process whose steps are the stretches *)
(* of code between two awaits: each action below is one awaited call that  *)
(* returned, together with all the synchronous code up to the next await.  *)
(* pc[r] names the call r is waiting for.                                  *)
(*                                                                         *)
(* What the LLM writes is data: an estimate is abstracted to what the      *)
(* checks after generation can tell apart.                                 *)
(***************************************************************************)
EXTENDS Naturals, FiniteSets

CONSTANTS
  Requests,     \* HTTP requests; each one is served once
  Keys,         \* idempotency keys the clients use
  NoKey,        \* "the request carries no idempotency_key"
  ChunkIds,     \* every id a citation may name, retrieved or invented
  Drafts,       \* the estimates the LLM may return
  RedisBacked,  \* TRUE: REDIS_URL is set; FALSE: the in-process dict only
  Leftover,     \* keys whose entry in Redis no longer parses as an Estimate
  TTLElapses,   \* whether IDEMPOTENCY_TTL may pass while the model runs
  GateDefault,  \* Settings.HALLUCINATION_GATE_ENABLED
  NoEntry,      \* the store holds nothing under a key
  Unreadable,   \* the store holds text that fails validation
  NoEstimate    \* a request has no estimate yet

Confidence == {"high", "medium", "low", "insufficient"}

(***************************************************************************)
(* An Estimate as the LLM returns it.  lines: chunk ids cited by its       *)
(* tasks; refs: ids in the estimate-global `sources`; overage: some        *)
(* grounded task claims more days than the chunks it cites record, by more *)
(* than the tolerance; bare: no totals, no modules, and an explanation.    *)
(* TaskItem's validator makes a task cite something iff it is grounded.    *)
(***************************************************************************)
Draft ==
  {d \in [confidence : Confidence, lines : SUBSET ChunkIds,
          refs : SUBSET ChunkIds, overage : BOOLEAN, bare : BOOLEAN] :
     /\ d.bare => d.lines = {}
     /\ d.overage => d.lines # {}}

\* Which generation call wrote an estimate.
Stages == {"soft_fail", "draft", "retry", "repair"}

\* Where the idempotency entries live: in Redis, or in a dict of the process
\* when there is no Redis or it did not answer the ping at start-up.
Backends == {"redis", "dict"}

Reachable == IF RedisBacked THEN Backends ELSE {"dict"}

\* A draft inside the pipeline.  said, by, stage and gated are history: the
\* confidence the model itself wrote, the request and call it came from, and
\* whether the hallucination gate graded this very text.
Estimate ==
  [confidence : Confidence, said : Confidence, lines : SUBSET ChunkIds,
   refs : SUBSET ChunkIds, overage : BOOLEAN, bare : BOOLEAN,
   by : Requests, stage : Stages, gated : BOOLEAN]

ASSUME ConstantsOK ==
  /\ Drafts \subseteq Draft
  /\ {RedisBacked, TTLElapses, GateDefault} \subseteq BOOLEAN
  /\ Leftover \subseteq Keys
  /\ Leftover # {} => RedisBacked
  /\ NoKey \notin Keys
  /\ NoEntry \notin Estimate
  /\ Unreadable \notin Estimate
  /\ NoEstimate \notin Estimate
  /\ NoEntry # Unreadable

VARIABLES
  pc,       \* the call each request is waiting for, or how it ended
  key,      \* its idempotency key
  kept,     \* ids of the chunks placed in its context block
  est,      \* its local variable `estimate`
  paid,     \* generation calls it has paid for
  backend,  \* the store this process of the service uses
  store,    \* the idempotency entries, per backend
  gateOn,   \* the runtime override of the hallucination gate
  settled,  \* history: <<b, k>> is there while a client holds an answer under k
            \* that went to b, is younger than the TTL, and b still exists
  owed      \* history: the request was sent while its key was settled in the
            \* backend that serves it

vars == <<pc, key, kept, est, paid, backend, store, gateOn, settled, owed>>

Waiting == {"lookup", "evict", "reformulate", "embed", "retrieve", "generate",
            "retry", "judge", "repair", "store", "reply"}
Ended   == {"answered", "error502", "error500", "lost"}

TypeOK ==
  /\ pc \in [Requests -> {"idle"} \cup Waiting \cup Ended]
  /\ key \in [Requests -> Keys \cup {NoKey}]
  /\ kept \in [Requests -> SUBSET ChunkIds]
  /\ est \in [Requests -> Estimate \cup {NoEstimate}]
  /\ paid \in [Requests -> 0..3]
  /\ backend \in Reachable
  /\ store \in [Backends -> [Keys -> Estimate \cup {NoEntry, Unreadable}]]
  /\ gateOn \in BOOLEAN
  /\ settled \in SUBSET (Backends \X Keys)
  /\ owed \in [Requests -> BOOLEAN]

Init ==
  /\ pc = [r \in Requests |-> "idle"]
  /\ key = [r \in Requests |-> NoKey]
  /\ kept = [r \in Requests |-> {}]
  /\ est = [r \in Requests |-> NoEstimate]
  /\ paid = [r \in Requests |-> 0]
  /\ backend \in Reachable
  /\ store = [b \in Backends |->
                [k \in Keys |-> IF b = "redis" /\ k \in Leftover THEN Unreadable ELSE NoEntry]]
  /\ gateOn = GateDefault
  /\ settled = {}
  /\ owed = [r \in Requests |-> FALSE]

-----------------------------------------------------------------------------
(* The checks, as pure operators on an estimate.                           *)

Stamp(d, r, s) ==
  [confidence |-> d.confidence, said |-> d.confidence, lines |-> d.lines,
   refs |-> d.refs, overage |-> d.overage, bare |-> d.bare,
   by |-> r, stage |-> s, gated |-> FALSE]

Insufficient(r) ==
  [confidence |-> "insufficient", said |-> "insufficient", lines |-> {},
   refs |-> {}, overage |-> FALSE, bare |-> TRUE,
   by |-> r, stage |-> "soft_fail", gated |-> FALSE]

\* verify_citations(...).has_dangling: line and global citations alike.
HasDangling(e, ids) == ~((e.lines \cup e.refs) \subseteq ids)

\* gate_line's numeric half: the anchor only sums chunks that were retrieved.
NumericFail(e, ids) == e.overage /\ e.lines \cap ids # {}

Coherent(e) == e.confidence = "insufficient" => e.bare

Downgrade(e) == [e EXCEPT !.confidence = "low"]

\* A read of the override falls back to the default while Redis is down.
GateRead == {gateOn, GateDefault}

-----------------------------------------------------------------------------
(* Control flow shared by several steps.                                   *)

Goto(r, l) == pc' = [pc EXCEPT ![r] = l]

Hold(r, e) == est' = [est EXCEPT ![r] = e]

\* estimator.py 343-347 and 253-255: store under the key, if there is one.
Deliver(r, e) ==
  /\ Hold(r, e)
  /\ Goto(r, IF key[r] = NoKey THEN "reply" ELSE "store")

CheckCoherence(r, e) ==
  \/ Coherent(e) /\ Deliver(r, e)
  \/ ~Coherent(e) /\ Hold(r, e) /\ Goto(r, "repair")

\* After the citation checks: the gate, if the override read now says so.
AfterCitations(r, e) ==
  \E on \in GateRead :
    \/ on /\ Hold(r, e) /\ Goto(r, "judge")
    \/ ~on /\ CheckCoherence(r, e)

Pay(r) == paid' = [paid EXCEPT ![r] = @ + 1]

-----------------------------------------------------------------------------
(* One request.                                                            *)

Submit(r, k) ==
  /\ pc[r] = "idle"
  /\ key' = [key EXCEPT ![r] = k]
  /\ owed' = [owed EXCEPT ![r] = <<backend, k>> \in settled]
  /\ Goto(r, IF k = NoKey THEN "reformulate" ELSE "lookup")
  /\ UNCHANGED <<kept, est, paid, backend, store, gateOn, settled>>

LookupHit(r) ==
  /\ pc[r] = "lookup"
  /\ store[backend][key[r]] \in Estimate
  /\ Hold(r, store[backend][key[r]])
  /\ Goto(r, "reply")
  /\ UNCHANGED <<key, kept, paid, backend, store, gateOn, settled, owed>>

\* A miss, or an entry that does not parse: then get() deletes the key in a
\* second call to the store.
LookupMiss(r) ==
  /\ pc[r] = "lookup"
  /\ store[backend][key[r]] \notin Estimate
  /\ Goto(r, IF store[backend][key[r]] = Unreadable THEN "evict" ELSE "reformulate")
  /\ UNCHANGED <<key, kept, est, paid, backend, store, gateOn, settled, owed>>

Evict(r) ==
  /\ pc[r] = "evict"
  /\ store' = [store EXCEPT ![backend][key[r]] = NoEntry]
  /\ Goto(r, "reformulate")
  /\ UNCHANGED <<key, kept, est, paid, backend, gateOn, settled, owed>>

Reformulate(r) ==
  /\ pc[r] = "reformulate"
  /\ Goto(r, "embed")
  /\ UNCHANGED <<key, kept, est, paid, backend, store, gateOn, settled, owed>>

Embed(r) ==
  /\ pc[r] = "embed"
  /\ Goto(r, "retrieve")
  /\ UNCHANGED <<key, kept, est, paid, backend, store, gateOn, settled, owed>>

\* Mutant: the soft-fail branch forgets to store its answer.
SoftFail_Unstored(r) ==
  /\ pc[r] = "retrieve"
  /\ Hold(r, Insufficient(r))
  /\ Goto(r, "reply")
  /\ UNCHANGED <<key, kept, paid, backend, store, gateOn, settled, owed>>

\* Nothing retrieved: the canonical insufficient estimate, without an LLM call.
SoftFail(r) ==
  /\ pc[r] = "retrieve"
  /\ Deliver(r, Insufficient(r))
  /\ UNCHANGED <<key, kept, paid, backend, store, gateOn, settled, owed>>

\* The leading chunks that fit the token budget: possibly none, when the
\* first one already overflows it.  Augmentation keeps the ids.
Retrieve(r) ==
  /\ pc[r] = "retrieve"
  /\ \E ids \in SUBSET ChunkIds : kept' = [kept EXCEPT ![r] = ids]
  /\ Goto(r, "generate")
  /\ UNCHANGED <<key, est, paid, backend, store, gateOn, settled, owed>>

Generate(r) ==
  /\ pc[r] = "generate"
  /\ \E d \in Drafts :
       LET e == Stamp(d, r, "draft") IN
         \/ HasDangling(e, kept[r]) /\ Hold(r, e) /\ Goto(r, "retry")
         \/ ~HasDangling(e, kept[r]) /\ AfterCitations(r, e)
  /\ Pay(r)
  /\ UNCHANGED <<key, kept, backend, store, gateOn, settled, owed>>

\* Mutant: the retried text is trusted.
CitationRetry_Trusting(r) ==
  /\ pc[r] = "retry"
  /\ \E d \in Drafts : AfterCitations(r, Stamp(d, r, "retry"))
  /\ Pay(r)
  /\ UNCHANGED <<key, kept, backend, store, gateOn, settled, owed>>

\* The one corrective retry; citations still dangling are downgraded.
CitationRetry(r) ==
  /\ pc[r] = "retry"
  /\ \E d \in Drafts :
       LET e == Stamp(d, r, "retry") IN
         AfterCitations(r, IF HasDangling(e, kept[r]) THEN Downgrade(e) ELSE e)
  /\ Pay(r)
  /\ UNCHANGED <<key, kept, backend, store, gateOn, settled, owed>>

\* gate_estimate: a numeric miss degrades a line whatever the judge says; a
\* judge that fails, or skips the line, rejects nothing.
HallucinationGate(r) ==
  /\ pc[r] = "judge"
  /\ \E rejected \in BOOLEAN :
       LET e == [est[r] EXCEPT !.gated = TRUE]
           degraded == NumericFail(e, kept[r]) \/ rejected
       IN /\ rejected => e.lines # {}
          /\ CheckCoherence(r, IF degraded /\ e.confidence \in {"high", "medium"}
                               THEN Downgrade(e) ELSE e)
  /\ UNCHANGED <<key, kept, paid, backend, store, gateOn, settled, owed>>

\* Mutant: the repaired text is not checked for coherence again.
CoherenceRepair_Unchecked(r) ==
  /\ pc[r] = "repair"
  /\ \E d \in Drafts : Deliver(r, Stamp(d, r, "repair"))
  /\ Pay(r)
  /\ UNCHANGED <<key, kept, backend, store, gateOn, settled, owed>>

\* The one regeneration of an incoherent estimate; it is checked for
\* coherence again and for nothing else.
CoherenceRepair(r) ==
  /\ pc[r] = "repair"
  /\ \E d \in Drafts :
       LET e == Stamp(d, r, "repair") IN
         \/ Coherent(e) /\ Deliver(r, e)
         \/ ~Coherent(e) /\ Hold(r, e) /\ Goto(r, "error502")
  /\ Pay(r)
  /\ UNCHANGED <<key, kept, backend, store, gateOn, settled, owed>>

\* Mutant: every entry lives under the bare prefix, whatever the key.
Persist_SharedEntry(r) ==
  /\ pc[r] = "store"
  /\ store' = [store EXCEPT ![backend] = [k \in Keys |-> est[r]]]
  /\ Goto(r, "reply")
  /\ UNCHANGED <<key, kept, est, paid, backend, gateOn, settled, owed>>

Persist(r) ==
  /\ pc[r] = "store"
  /\ store' = [store EXCEPT ![backend][key[r]] = est[r]]
  /\ Goto(r, "reply")
  /\ UNCHANGED <<key, kept, est, paid, backend, gateOn, settled, owed>>

Reply(r) ==
  /\ pc[r] = "reply"
  /\ Goto(r, "answered")
  /\ settled' = settled \cup ({backend} \X {k \in Keys : k = key[r]})
  /\ UNCHANGED <<key, kept, est, paid, backend, store, gateOn, owed>>

-----------------------------------------------------------------------------
(* Failures.  The router turns a RagError, and nothing else, into a 502.   *)

RagErrorAt == {"reformulate", "embed", "retrieve", "generate", "retry", "repair"}

PipelineError(r) ==
  /\ pc[r] \in RagErrorAt
  /\ Goto(r, "error502")
  /\ UNCHANGED <<key, kept, est, paid, backend, store, gateOn, settled, owed>>

\* The embedding API, the cross-encoder and Redis raise their own exceptions.
ForeignErrorAt == {"embed", "retrieve"} \cup
                  (IF backend = "redis" THEN {"lookup", "evict", "store"} ELSE {})

ForeignError(r) ==
  /\ pc[r] \in ForeignErrorAt
  /\ Goto(r, "error500")
  /\ UNCHANGED <<key, kept, est, paid, backend, store, gateOn, settled, owed>>

\* The SET reached Redis but its reply did not reach us.
PersistUnconfirmed(r) ==
  /\ backend = "redis"
  /\ pc[r] = "store"
  /\ store' = [store EXCEPT ![backend][key[r]] = est[r]]
  /\ Goto(r, "error500")
  /\ UNCHANGED <<key, kept, est, paid, backend, gateOn, settled, owed>>

-----------------------------------------------------------------------------
(* The environment.                                                        *)

\* The TTL of an entry passes: nothing is owed under its key any more.  It
\* does not pass between a call to the store and the reply right after it.
Expire(b, k) ==
  /\ TTLElapses
  /\ store[b][k] # NoEntry
  /\ \A r \in Requests : pc[r] = "reply" => <<backend, key[r]>> # <<b, k>>
  /\ store' = [store EXCEPT ![b][k] = NoEntry]
  /\ settled' = settled \ {<<b, k>>}
  /\ owed' = [r \in Requests |-> owed[r] /\ <<backend, key[r]>> # <<b, k>>]
  /\ UNCHANGED <<pc, key, kept, est, paid, backend, gateOn>>

\* The service restarts: requests in flight die, and the dict with them.  The
\* new process pings Redis and takes the dict if nothing answers.
Restart ==
  /\ pc' = [r \in Requests |-> IF pc[r] \in Waiting THEN "lost" ELSE pc[r]]
  /\ backend' \in Reachable
  /\ store' = [store EXCEPT !["dict"] = [k \in Keys |-> NoEntry]]
  /\ settled' = {x \in settled : x[1] = "redis"}
  /\ UNCHANGED <<key, kept, est, paid, gateOn, owed>>

\* PUT /api/v1/config/retrieval.
SetGate ==
  /\ gateOn' \in BOOLEAN
  /\ UNCHANGED <<pc, key, kept, est, paid, backend, store, settled, owed>>

Succeed(r) ==
  \/ LookupHit(r) \/ LookupMiss(r) \/ Evict(r) \/ Reformulate(r) \/ Embed(r)
  \/ SoftFail(r) \/ Retrieve(r) \/ Generate(r) \/ CitationRetry(r)
  \/ HallucinationGate(r) \/ CoherenceRepair(r) \/ Persist(r) \/ Reply(r)

Fail(r) == PipelineError(r) \/ ForeignError(r) \/ PersistUnconfirmed(r)

Next ==
  \/ \E r \in Requests :
       \/ \E k \in Keys \cup {NoKey} : Submit(r, k)
       \/ Succeed(r)
       \/ Fail(r)
  \/ \E b \in Backends, k \in Keys : Expire(b, k)
  \/ Restart
  \/ SetGate

Spec == Init /\ [][Next]_vars
-----------------------------------------------------------------------------
(* Properties.                                                             *)

\* estimates that have left the pipeline: delivered to a client, or waiting
\* in the store to be.
Delivered == {est[r] : r \in {q \in Requests : pc[q] \in {"store", "reply", "answered"}}}
             \cup {e \in UNION {{store[b][k] : k \in Keys} : b \in Backends} : e \in Estimate}

\* Whatever path an estimate took (soft fail, draft, retry, downgrade, gate,
\* repair, replay from the store), "insufficient" never leaves the service
\* with numbers or modules attached (validation.check_coherence).
OnlyCoherentLeaves == \A e \in Delivered : Coherent(e)

\* An estimate that still cites an id its own request never retrieved says
\* "low", however the gate and the coherence check treated it afterwards.
\* The text of a coherence repair is excluded: estimator.py 337 accepts it
\* without verify_citations (see NoConfidentDangling).
CitationsHonest ==
  \A e \in Delivered :
    e.stage # "repair" /\ HasDangling(e, kept[e.by]) => e.confidence = "low"

\* A text the hallucination gate graded, and whose cited chunks contradict
\* its days, is never delivered as high or medium, be it that the judge
\* accepted it, failed or skipped the line.
GateHonest ==
  \A e \in Delivered :
    e.gated /\ NumericFail(e, kept[e.by]) => e.confidence \in {"low", "insufficient"}

\* A client that retries with its key after it was answered, before the TTL,
\* pays no generation call, whatever other requests, failures or restarts of
\* the service happened in between, as long as the store its answer went to is
\* the one the service now uses.  A restart that does not reach Redis starts an
\* empty dict, and the dict dies with its process (idempotency.py 37-54): a
\* retry then pays again.  Keys that started with an unreadable entry are
\* excluded: get() deletes such an entry after it has read it, and may delete
\* the answer stored in between instead.
RetryIsFree ==
  \A r \in Requests : owed[r] /\ key[r] \notin Leftover => paid[r] = 0

\* An answer replayed from the store is, field by field, what the pipeline of
\* another request sent under the same key produced.
ReplayIsVerbatim ==
  \A r \in Requests :
    pc[r] \in {"reply", "answered"} /\ est[r].by # r =>
      LET w == est[r].by IN est[w] = est[r] /\ key[w] = key[r]

(* A claim of the documentation that the code does not keep.               *)

\* "If it persists, degrade the confidence" (arquitectura-actual.md 132-134):
\* no delivered estimate with dangling citations is more confident than low.
NoConfidentDangling ==
  \A e \in Delivered : HasDangling(e, kept[e.by]) => e.confidence = "low"
=============================================================================
