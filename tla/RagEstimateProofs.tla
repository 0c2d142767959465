-------------------------- MODULE RagEstimateProofs --------------------------
(***************************************************************************)
(* What RagEstimate keeps for every set of requests, keys, chunks and      *)
(* drafts, proved with TLAPS.                                              *)
(***************************************************************************)
EXTENDS RagEstimate, TLAPS

Points == {"idle"} \cup Waiting \cup Ended

\* The generation calls a request can have paid for at each point.
Budget == [l \in Points |->
             IF l \in {"idle", "lookup", "evict", "reformulate", "embed",
                       "retrieve", "generate"} THEN 0
             ELSE IF l = "retry" THEN 1
             ELSE IF l \in {"judge", "repair"} THEN 2
             ELSE 3]

\* Points after which kept[r] and what r has generated no longer change.
Finished == {"reply"} \cup Ended
Grounded == Finished \cup {"generate", "retry", "judge", "repair", "store"}

\* What the checks establish about a delivered estimate, ids being the chunks
\* retrieved by the request that generated it.
SoundFor(e, ids) ==
  /\ Coherent(e)
  /\ e.stage # "repair" /\ HasDangling(e, ids) => e.confidence = "low"
  /\ e.gated /\ NumericFail(e, ids) => e.confidence \in {"low", "insufficient"}

KeyInv == \A r \in Requests :
  /\ pc[r] \in {"lookup", "evict", "store"} => key[r] \in Keys
  /\ paid[r] <= Budget[pc[r]]

\* est[r] is r's own between the first draft and the store, and carries what
\* the checks passed so far have established.
OwnInv == \A r \in Requests :
  /\ pc[r] \in {"judge", "store"} => est[r] \in Estimate /\ est[r].by = r
  /\ pc[r] = "judge" =>
       /\ est[r].stage # "repair"
       /\ HasDangling(est[r], kept[r]) => est[r].confidence = "low"
  /\ pc[r] \in {"store", "reply", "answered"} =>
       /\ est[r] \in Estimate
       /\ pc[est[r].by] \in Grounded
       /\ SoundFor(est[r], kept[est[r].by])

Stored(e, k) ==
  /\ pc[e.by] \in Finished
  /\ est[e.by] = e
  /\ key[e.by] = k
  /\ SoundFor(e, kept[e.by])

StoreInv == \A b \in Backends, k \in Keys : store[b][k] \in Estimate => Stored(store[b][k], k)

ReplayInv == \A r \in Requests :
  pc[r] \in {"reply", "answered"} /\ est[r].by # r =>
    /\ pc[est[r].by] \in Finished
    /\ est[est[r].by] = est[r]
    /\ key[est[r].by] = key[r]

\* OnlyCoherentLeaves and its siblings are not inductive: a delivered text
\* keeps its promises only because nothing it depends on (the ids its request
\* retrieved, that request's own copy) changes after delivery.
IInv == TypeOK /\ KeyInv /\ OwnInv /\ StoreInv /\ ReplayInv

USE DEF Waiting, Ended

-----------------------------------------------------------------------------
(* Most actions move one request r to a point l, with a new estimate e,    *)
(* new kept ids and n more paid calls, and leave the store alone.          *)

LocalStep(r, l, e, ids, n) ==
  /\ pc' = [pc EXCEPT ![r] = l]
  /\ est' = [est EXCEPT ![r] = e]
  /\ kept' = [kept EXCEPT ![r] = ids]
  /\ paid' = [paid EXCEPT ![r] = @ + n]
  /\ backend' = backend
  /\ store' = store
  /\ key' = key
  /\ gateOn' = gateOn
  /\ owed' = owed

\* What such a move must satisfy at r itself.
LocallySafe(r, l, e, ids, n) ==
  /\ pc[r] \in Grounded => ids = kept[r] /\ l \in Grounded
  /\ pc[r] \in Finished => l \in Finished /\ e = est[r]
  /\ paid[r] + n <= Budget[l]
  /\ l \in {"lookup", "evict", "store"} => key[r] \in Keys
  /\ l \in {"judge", "store"} => e \in Estimate /\ e.by = r
  /\ l = "judge" =>
       /\ e.stage # "repair"
       /\ HasDangling(e, ids) => e.confidence = "low"
  /\ l \in {"store", "reply", "answered"} =>
       /\ e \in Estimate
       /\ \/ e.by = r /\ SoundFor(e, ids)
          \/ /\ e.by # r
             /\ pc[e.by] \in Finished
             /\ est[e.by] = e
             /\ key[e.by] = key[r]
             /\ SoundFor(e, kept[e.by])

LEMMA LocalStepPreserves ==
  ASSUME IInv,
         NEW r \in Requests, NEW l \in Points,
         NEW e \in Estimate \cup {NoEstimate},
         NEW ids \in SUBSET ChunkIds, NEW n \in 0..1,
         LocalStep(r, l, e, ids, n), LocallySafe(r, l, e, ids, n),
         settled' \in SUBSET (Backends \X Keys)
  PROVE  IInv'
<1>0. /\ Budget \in [Points -> 0..3]
      /\ \A w \in Requests : pc[w] \in Points
  BY DEF Budget, IInv, TypeOK, Points
<1>1. TypeOK'
  <2>1. paid' \in [Requests -> 0..3]
    BY <1>0 DEF IInv, TypeOK, LocalStep, LocallySafe
  <2>2. QED
    BY <2>1 DEF IInv, TypeOK, LocalStep, Points
<1>2. /\ \A w \in Requests \ {r} :
           /\ pc'[w] = pc[w] /\ est'[w] = est[w] /\ kept'[w] = kept[w]
           /\ paid'[w] = paid[w] /\ key'[w] = key[w]
      /\ pc'[r] = l /\ est'[r] = e /\ kept'[r] = ids
      /\ paid'[r] = paid[r] + n /\ key'[r] = key[r]
  BY DEF LocalStep, IInv, TypeOK
<1>3. \A w \in Requests : /\ pc[w] \in Grounded => kept'[w] = kept[w] /\ pc'[w] \in Grounded
                          /\ pc[w] \in Finished => est'[w] = est[w] /\ pc'[w] \in Finished
  BY <1>2 DEF LocallySafe
<1>4. \A f \in Estimate : f.by \in Requests
  BY DEF Estimate
<1>5. Finished \subseteq Grounded /\ {"store", "reply", "answered"} \subseteq Grounded
  BY DEF Finished, Grounded
<1>6. KeyInv'
  BY <1>2 DEF KeyInv, IInv, LocallySafe
<1>7. OwnInv'
  <2> SUFFICES ASSUME NEW w \in Requests
               PROVE  /\ pc'[w] \in {"judge", "store"} => est'[w] \in Estimate /\ est'[w].by = w
                      /\ pc'[w] = "judge" =>
                           /\ est'[w].stage # "repair"
                           /\ HasDangling(est'[w], kept'[w]) => est'[w].confidence = "low"
                      /\ pc'[w] \in {"store", "reply", "answered"} =>
                           /\ est'[w] \in Estimate
                           /\ pc'[est'[w].by] \in Grounded
                           /\ SoundFor(est'[w], kept'[est'[w].by])
    BY DEF OwnInv, HasDangling, SoundFor, Coherent, NumericFail
  <2>1. CASE w # r
    BY <1>2, <1>3, <1>4, <2>1 DEF OwnInv, IInv
  <2>2. CASE w = r
    BY <1>2, <1>3, <1>4, <1>5, <2>2 DEF LocallySafe
  <2>3. QED BY <2>1, <2>2
<1>8. StoreInv'
  <2> SUFFICES ASSUME NEW b \in Backends, NEW k \in Keys, store[b][k] \in Estimate
               PROVE  Stored(store[b][k], k)'
    BY DEF StoreInv, LocalStep, Stored, HasDangling, SoundFor, Coherent, NumericFail
  <2>1. Stored(store[b][k], k)
    BY DEF StoreInv, IInv
  <2>2. store'[b][k] = store[b][k] /\ key' = key
    BY DEF LocalStep
  <2>3. store[b][k].by \in Requests /\ pc[store[b][k].by] \in Grounded
    BY <1>4, <1>5, <2>1 DEF Stored
  <2>4. QED
    BY <1>3, <2>1, <2>2, <2>3
    DEF Stored, SoundFor, HasDangling, Coherent, NumericFail
<1>9. ReplayInv'
  BY <1>2, <1>3, <1>4 DEF ReplayInv, OwnInv, IInv, LocallySafe
<1>10. QED
  BY <1>1, <1>6, <1>7, <1>8, <1>9 DEF IInv

-----------------------------------------------------------------------------
(* The helpers the actions share.                                          *)

LEMMA StampType ==
  ASSUME NEW d \in Drafts, NEW r \in Requests, NEW s \in Stages
  PROVE  /\ Stamp(d, r, s) \in Estimate
         /\ Stamp(d, r, s).by = r
         /\ Stamp(d, r, s).stage = s
         /\ ~Stamp(d, r, s).gated
BY ConstantsOK DEF Stamp, Estimate, Draft

LEMMA DowngradeType ==
  ASSUME NEW e \in Estimate
  PROVE  /\ Downgrade(e) \in Estimate
         /\ Downgrade(e).confidence = "low"
         /\ Downgrade(e).by = e.by
         /\ Downgrade(e).stage = e.stage
         /\ Downgrade(e).gated = e.gated
BY DEF Downgrade, Estimate, Confidence

LEMMA PaidSoFar ==
  ASSUME IInv, NEW r \in Requests
  PROVE  /\ paid[r] \in 0..3 /\ pc[r] \in Points
         /\ pc[r] \in {"retrieve", "generate"} => paid[r] = 0
         /\ pc[r] = "retry" => paid[r] <= 1
         /\ pc[r] \in {"judge", "repair"} => paid[r] <= 2
<1>1. /\ paid[r] \in 0..3 /\ pc[r] \in Points /\ paid[r] <= Budget[pc[r]]
      /\ Budget["retrieve"] = 0 /\ Budget["generate"] = 0
      /\ Budget["retry"] = 1 /\ Budget["judge"] = 2 /\ Budget["repair"] = 2
  BY DEF IInv, TypeOK, KeyInv, Budget, Points
<1>2. QED
  BY <1>1

\* An estimate of r that the checks have accepted may be delivered.
LEMMA DeliverPreserves ==
  ASSUME IInv, NEW r \in Requests, NEW e \in Estimate, NEW n \in 0..1,
         pc[r] \in Points \ Finished,
         paid[r] + n <= 3, e.by = r, SoundFor(e, kept[r]),
         Deliver(r, e), kept' = kept, paid' = [paid EXCEPT ![r] = @ + n],
         UNCHANGED <<key, backend, store, gateOn, settled, owed>>
  PROVE  IInv'
<1> DEFINE l == IF key[r] = NoKey THEN "reply" ELSE "store"
<1>1. LocalStep(r, l, e, kept[r], n)
  BY DEF Deliver, Hold, Goto, LocalStep, IInv, TypeOK
<1>2. Budget[l] = 3 /\ l \in Points
  BY DEF Budget, Points
<1>3. LocallySafe(r, l, e, kept[r], n)
  BY <1>2 DEF LocallySafe, IInv, TypeOK, Finished, Grounded
<1>4. QED
  BY <1>1, <1>2, <1>3, LocalStepPreserves DEF IInv, TypeOK

LEMMA CoherencePreserves ==
  ASSUME IInv, NEW r \in Requests, NEW e \in Estimate, NEW n \in 0..1,
         pc[r] \in {"generate", "retry", "judge"},
         paid[r] + n <= 2, e.by = r,
         Coherent(e) => SoundFor(e, kept[r]),
         CheckCoherence(r, e), kept' = kept, paid' = [paid EXCEPT ![r] = @ + n],
         UNCHANGED <<key, backend, store, gateOn, settled, owed>>
  PROVE  IInv'
<1>1. CASE Coherent(e) /\ Deliver(r, e)
  <2>1. pc[r] \in Points \ Finished /\ paid[r] + n <= 3
    BY DEF Points, Finished, IInv, TypeOK
  <2>2. QED
    BY <1>1, <2>1, DeliverPreserves
<1>2. CASE Hold(r, e) /\ Goto(r, "repair")
  <2>1. LocalStep(r, "repair", e, kept[r], n)
    BY <1>2 DEF Hold, Goto, LocalStep, IInv, TypeOK
  <2>2. Budget["repair"] = 2 /\ "repair" \in Points
    BY DEF Budget, Points
  <2>3. LocallySafe(r, "repair", e, kept[r], n)
    BY <2>2 DEF LocallySafe, Finished, Grounded
  <2>4. QED
    BY <2>1, <2>2, <2>3, LocalStepPreserves DEF IInv, TypeOK
<1>3. QED
  BY <1>1, <1>2 DEF CheckCoherence

LEMMA CitationsPreserve ==
  ASSUME IInv, NEW r \in Requests, NEW e \in Estimate,
         pc[r] \in {"generate", "retry"},
         e.by = r, ~e.gated, e.stage # "repair",
         HasDangling(e, kept[r]) => e.confidence = "low",
         AfterCitations(r, e), kept' = kept, Pay(r),
         UNCHANGED <<key, backend, store, gateOn, settled, owed>>
  PROVE  IInv'
<1>0. paid[r] + 1 <= 2 /\ paid' = [paid EXCEPT ![r] = @ + 1] /\ 1 \in 0..1
  <2>1. Budget[pc[r]] <= 1
    BY DEF Budget, Points
  <2>2. paid[r] \in 0..3 /\ paid[r] <= Budget[pc[r]] /\ Budget[pc[r]] \in Nat
    BY DEF IInv, TypeOK, KeyInv, Budget, Points
  <2>3. QED
    BY <2>1, <2>2 DEF Pay
<1>1. CASE Hold(r, e) /\ Goto(r, "judge")
  <2>1. LocalStep(r, "judge", e, kept[r], 1)
    BY <1>0, <1>1 DEF Hold, Goto, LocalStep, IInv, TypeOK
  <2>2. Budget["judge"] = 2 /\ "judge" \in Points
    BY DEF Budget, Points
  <2>3. LocallySafe(r, "judge", e, kept[r], 1)
    BY <1>0, <2>2 DEF LocallySafe, Finished, Grounded
  <2>4. QED
    BY <2>1, <2>2, <2>3, LocalStepPreserves DEF IInv, TypeOK
<1>2. CASE CheckCoherence(r, e)
  <2>1. Coherent(e) => SoundFor(e, kept[r])
    BY DEF SoundFor
  <2>2. pc[r] \in {"generate", "retry", "judge"}
    OBVIOUS
  <2>3. QED
    BY <1>0, <1>2, <2>1, <2>2, CoherencePreserves
<1>3. QED
  BY <1>1, <1>2 DEF AfterCitations

\* Moves that touch nothing but pc[r].
LEMMA GotoPreserves ==
  ASSUME IInv, NEW r \in Requests, NEW l \in Points,
         pc[r] \notin Finished,
         l \notin {"judge", "store", "reply", "answered"},
         l = "evict" => key[r] \in Keys,
         l # "lookup",
         pc[r] \in Grounded => l \in Grounded,
         Budget[pc[r]] <= Budget[l],
         Goto(r, l),
         UNCHANGED <<key, kept, est, paid, backend, store, gateOn, settled, owed>>
  PROVE  IInv'
<1>1. LocalStep(r, l, est[r], kept[r], 0)
  BY DEF Goto, LocalStep, IInv, TypeOK
<1>2. LocallySafe(r, l, est[r], kept[r], 0)
  <2>1. paid[r] <= Budget[pc[r]] /\ paid[r] \in Nat /\ Budget[pc[r]] \in Nat
        /\ Budget[l] \in Nat
    BY DEF IInv, KeyInv, TypeOK, Budget, Points
  <2>2. QED
    BY <2>1 DEF LocallySafe
<1>3. est[r] \in Estimate \cup {NoEstimate} /\ kept[r] \in SUBSET ChunkIds
      /\ settled' \in SUBSET (Backends \X Keys) /\ 0 \in 0..1
  BY DEF IInv, TypeOK
<1>4. QED
  BY <1>1, <1>2, <1>3, LocalStepPreserves

-----------------------------------------------------------------------------
(* One lemma per action that does more than move pc.                       *)

LEMMA SubmitPreserves ==
  ASSUME IInv, NEW r \in Requests, NEW k \in Keys \cup {NoKey}, Submit(r, k)
  PROVE  IInv'
<1>1. TypeOK'
  BY DEF Submit, Goto, IInv, TypeOK
<1>2. /\ \A w \in Requests \ {r} : pc'[w] = pc[w] /\ key'[w] = key[w]
      /\ pc'[r] \in {"lookup", "reformulate"}
      /\ pc'[r] = "lookup" => key'[r] \in Keys
      /\ pc[r] = "idle"
  BY DEF Submit, Goto, IInv, TypeOK
<1>3. \A f \in Estimate : f.by \in Requests
  BY DEF Estimate
<1>4. \A w \in Requests : pc[w] \in Grounded => w # r
  BY <1>2 DEF Grounded, Finished
<1>5. Finished \subseteq Grounded
  BY DEF Grounded
<1>6. KeyInv'
  BY <1>2 DEF KeyInv, IInv, Submit, Budget, Points
<1>7. OwnInv'
  BY <1>2, <1>3, <1>4 DEF OwnInv, IInv, Submit, SoundFor, HasDangling, Coherent, NumericFail
<1>8. StoreInv'
  <2> SUFFICES ASSUME NEW b \in Backends, NEW k2 \in Keys, store[b][k2] \in Estimate
               PROVE  Stored(store[b][k2], k2)'
    BY DEF Submit, StoreInv, Stored, SoundFor, HasDangling, Coherent, NumericFail
  <2>1. Stored(store[b][k2], k2) /\ store[b][k2].by \in Requests \ {r}
    BY <1>3, <1>4, <1>5 DEF StoreInv, IInv, Stored
  <2>2. QED
    BY <1>2, <2>1 DEF Submit, Stored, SoundFor, HasDangling, Coherent, NumericFail
<1>9. ReplayInv'
  <2> SUFFICES ASSUME NEW w \in Requests, pc'[w] \in {"reply", "answered"}, est'[w].by # w
               PROVE  /\ pc'[est'[w].by] \in Finished
                      /\ est'[est'[w].by] = est'[w]
                      /\ key'[est'[w].by] = key'[w]
    BY DEF ReplayInv
  <2>1. w # r /\ pc[w] \in {"reply", "answered"} /\ est' = est /\ est[w] \in Estimate
    BY <1>2 DEF Submit, IInv, OwnInv
  <2>2. QED
    BY <1>2, <1>3, <1>4, <1>5, <2>1 DEF ReplayInv, IInv
<1>10. QED
  BY <1>1, <1>6, <1>7, <1>8, <1>9 DEF IInv

LEMMA LookupHitPreserves ==
  ASSUME IInv, NEW r \in Requests, LookupHit(r)
  PROVE  IInv'
<1> DEFINE e == store[backend][key[r]]
<1>1. /\ key[r] \in Keys /\ e \in Estimate /\ "reply" \in Points
      /\ backend \in Backends
  BY DEF LookupHit, IInv, TypeOK, KeyInv, Points, Reachable, Backends
<1>2. LocalStep(r, "reply", e, kept[r], 0)
  BY DEF LookupHit, Hold, Goto, LocalStep, IInv, TypeOK
<1>3. /\ pc[e.by] \in Finished /\ est[e.by] = e /\ key[e.by] = key[r]
      /\ SoundFor(e, kept[e.by])
  BY <1>1 DEF IInv, StoreInv, Stored
<1>4. pc[r] = "lookup" /\ paid[r] \in 0..3
  BY DEF LookupHit, IInv, TypeOK
<1>5. e.by # r
  BY <1>3, <1>4 DEF Finished
<1>6. LocallySafe(r, "reply", e, kept[r], 0)
  BY <1>1, <1>3, <1>4, <1>5 DEF LocallySafe, Finished, Grounded, Budget
<1>7. kept[r] \in SUBSET ChunkIds /\ settled' \in SUBSET (Backends \X Keys) /\ 0 \in 0..1
  BY DEF LookupHit, IInv, TypeOK
<1>8. QED
  BY <1>1, <1>2, <1>6, <1>7, LocalStepPreserves

LEMMA RetrievePreserves ==
  ASSUME IInv, NEW r \in Requests, Retrieve(r)
  PROVE  IInv'
<1>1. PICK ids \in SUBSET ChunkIds : kept' = [kept EXCEPT ![r] = ids]
  BY DEF Retrieve
<1>2. LocalStep(r, "generate", est[r], ids, 0)
  BY <1>1 DEF Retrieve, Goto, LocalStep, IInv, TypeOK
<1>3. pc[r] = "retrieve" /\ paid[r] + 0 <= 0
  BY PaidSoFar DEF Retrieve
<1>4. LocallySafe(r, "generate", est[r], ids, 0)
  BY <1>3 DEF LocallySafe, Finished, Grounded, Budget, Points
<1>5. /\ "generate" \in Points /\ est[r] \in Estimate \cup {NoEstimate}
      /\ settled' \in SUBSET (Backends \X Keys) /\ 0 \in 0..1
  BY DEF Retrieve, IInv, TypeOK, Points
<1>6. QED
  BY <1>2, <1>4, <1>5, LocalStepPreserves

LEMMA SoftFailPreserves ==
  ASSUME IInv, NEW r \in Requests, SoftFail(r)
  PROVE  IInv'
<1> DEFINE e == Insufficient(r)
<1>1. e \in Estimate /\ e.by = r
  BY DEF Insufficient, Estimate, Confidence, Stages
<1>2. SoundFor(e, kept[r])
  BY DEF SoundFor, Insufficient, Coherent, HasDangling, NumericFail
<1>3. pc[r] \in Points \ Finished /\ paid[r] + 0 <= 3 /\ 0 \in 0..1
      /\ paid' = [paid EXCEPT ![r] = @ + 0]
  BY DEF SoftFail, Points, Finished, IInv, TypeOK
<1>4. QED
  BY <1>1, <1>2, <1>3, DeliverPreserves DEF SoftFail

LEMMA GeneratePreserves ==
  ASSUME IInv, NEW r \in Requests, Generate(r)
  PROVE  IInv'
<1>1. PICK d \in Drafts :
        \/ /\ HasDangling(Stamp(d, r, "draft"), kept[r])
           /\ Hold(r, Stamp(d, r, "draft")) /\ Goto(r, "retry")
        \/ /\ ~HasDangling(Stamp(d, r, "draft"), kept[r])
           /\ AfterCitations(r, Stamp(d, r, "draft"))
  BY DEF Generate
<1> DEFINE e == Stamp(d, r, "draft")
<1>2. e \in Estimate /\ e.by = r /\ e.stage = "draft" /\ ~e.gated
  BY StampType DEF Stages
<1>3. pc[r] = "generate" /\ kept' = kept /\ Pay(r)
      /\ UNCHANGED <<key, backend, store, gateOn, settled, owed>>
  BY DEF Generate
<1>4. CASE Hold(r, e) /\ Goto(r, "retry")
  <2>1. LocalStep(r, "retry", e, kept[r], 1)
    BY <1>3, <1>4 DEF Hold, Goto, Pay, LocalStep, IInv, TypeOK
  <2>2. paid[r] + 1 <= 1 /\ Budget["retry"] = 1
    BY <1>3, PaidSoFar DEF Budget, Points
  <2>3. LocallySafe(r, "retry", e, kept[r], 1)
    BY <1>3, <2>2 DEF LocallySafe, Finished, Grounded
  <2>4. /\ "retry" \in Points /\ kept[r] \in SUBSET ChunkIds
        /\ settled' \in SUBSET (Backends \X Keys) /\ 1 \in 0..1
    BY <1>3 DEF IInv, TypeOK, Points
  <2>5. QED
    BY <1>2, <2>1, <2>3, <2>4, LocalStepPreserves
<1>5. CASE ~HasDangling(e, kept[r]) /\ AfterCitations(r, e)
  <2>1. pc[r] \in {"generate", "retry"} /\ e.stage # "repair"
    BY <1>2, <1>3
  <2>2. QED
    BY <1>2, <1>3, <1>5, <2>1, CitationsPreserve
<1>6. QED
  BY <1>1, <1>4, <1>5

LEMMA CitationRetryPreserves ==
  ASSUME IInv, NEW r \in Requests, CitationRetry(r)
  PROVE  IInv'
<1>1. PICK d \in Drafts :
        AfterCitations(r, IF HasDangling(Stamp(d, r, "retry"), kept[r])
                          THEN Downgrade(Stamp(d, r, "retry"))
                          ELSE Stamp(d, r, "retry"))
  BY DEF CitationRetry
<1> DEFINE f == Stamp(d, r, "retry")
           e == IF HasDangling(f, kept[r]) THEN Downgrade(f) ELSE f
<1>2. f \in Estimate /\ f.by = r /\ f.stage = "retry" /\ ~f.gated
  BY StampType DEF Stages
<1>3. /\ e \in Estimate /\ e.by = r /\ ~e.gated /\ e.stage # "repair"
      /\ HasDangling(e, kept[r]) => e.confidence = "low"
  BY <1>2, DowngradeType
<1>4. /\ pc[r] \in {"generate", "retry"} /\ kept' = kept /\ Pay(r)
      /\ UNCHANGED <<key, backend, store, gateOn, settled, owed>>
  BY DEF CitationRetry
<1>5. QED
  BY <1>1, <1>3, <1>4, CitationsPreserve

LEMMA HallucinationGatePreserves ==
  ASSUME IInv, NEW r \in Requests, HallucinationGate(r)
  PROVE  IInv'
<1> DEFINE f == [est[r] EXCEPT !.gated = TRUE]
<1>1. PICK rejected \in BOOLEAN :
        CheckCoherence(r, IF (NumericFail(f, kept[r]) \/ rejected)
                             /\ f.confidence \in {"high", "medium"}
                          THEN Downgrade(f) ELSE f)
  BY DEF HallucinationGate
<1> DEFINE e == IF (NumericFail(f, kept[r]) \/ rejected)
                   /\ f.confidence \in {"high", "medium"}
                THEN Downgrade(f) ELSE f
<1>2. /\ pc[r] = "judge" /\ kept' = kept /\ paid' = paid
      /\ UNCHANGED <<key, backend, store, gateOn, settled, owed>>
  BY DEF HallucinationGate
<1>3. /\ est[r] \in Estimate /\ est[r].by = r /\ est[r].stage # "repair"
      /\ HasDangling(est[r], kept[r]) => est[r].confidence = "low"
  BY <1>2 DEF IInv, OwnInv
<1>4. /\ f \in Estimate /\ f.by = r /\ f.stage # "repair"
      /\ f.confidence = est[r].confidence
      /\ HasDangling(f, kept[r]) = HasDangling(est[r], kept[r])
  BY <1>3 DEF Estimate, HasDangling
<1>5. e \in Estimate /\ e.by = r
  BY <1>4, DowngradeType
<1>6. Coherent(e) => SoundFor(e, kept[r])
  <2>1. HasDangling(e, kept[r]) = HasDangling(f, kept[r])
        /\ NumericFail(e, kept[r]) = NumericFail(f, kept[r])
    BY <1>4 DEF Downgrade, Estimate, HasDangling, NumericFail
  <2>2. HasDangling(e, kept[r]) => e.confidence = "low"
    BY <1>3, <1>4, <2>1, DowngradeType
  <2>3. NumericFail(e, kept[r]) => e.confidence \in {"low", "insufficient"}
    <3>1. f.confidence \in {"high", "medium", "low", "insufficient"}
      BY <1>4 DEF Estimate, Confidence
    <3>2. QED
      BY <1>4, <2>1, <3>1, DowngradeType
  <2>4. QED
    BY <2>2, <2>3 DEF SoundFor
<1>7. /\ paid[r] + 0 <= 2 /\ 0 \in 0..1 /\ paid' = [paid EXCEPT ![r] = @ + 0]
      /\ pc[r] \in {"generate", "retry", "judge"}
  BY <1>2, PaidSoFar DEF IInv, TypeOK
<1>8. QED
  BY <1>1, <1>2, <1>5, <1>6, <1>7, CoherencePreserves

LEMMA CoherenceRepairPreserves ==
  ASSUME IInv, NEW r \in Requests, CoherenceRepair(r)
  PROVE  IInv'
<1>1. PICK d \in Drafts :
        \/ Coherent(Stamp(d, r, "repair")) /\ Deliver(r, Stamp(d, r, "repair"))
        \/ Hold(r, Stamp(d, r, "repair")) /\ Goto(r, "error502")
  BY DEF CoherenceRepair
<1> DEFINE e == Stamp(d, r, "repair")
<1>2. e \in Estimate /\ e.by = r /\ e.stage = "repair" /\ ~e.gated
  BY StampType DEF Stages
<1>3. /\ pc[r] = "repair" /\ kept' = kept /\ paid' = [paid EXCEPT ![r] = @ + 1]
      /\ UNCHANGED <<key, backend, store, gateOn, settled, owed>>
  BY DEF CoherenceRepair, Pay
<1>4. /\ paid[r] + 1 <= 3 /\ 1 \in 0..1 /\ pc[r] \in Points \ Finished
      /\ Budget["error502"] = 3 /\ "error502" \in Points
      /\ kept[r] \in SUBSET ChunkIds /\ settled' \in SUBSET (Backends \X Keys)
  BY <1>3, PaidSoFar DEF IInv, TypeOK, Budget, Points, Finished
<1>5. CASE Coherent(e) /\ Deliver(r, e)
  BY <1>2, <1>3, <1>4, <1>5, DeliverPreserves DEF SoundFor
<1>6. CASE Hold(r, e) /\ Goto(r, "error502")
  <2>1. LocalStep(r, "error502", e, kept[r], 1)
    BY <1>3, <1>6 DEF Hold, Goto, LocalStep, IInv, TypeOK
  <2>2. LocallySafe(r, "error502", e, kept[r], 1)
    BY <1>3, <1>4 DEF LocallySafe, Finished, Grounded
  <2>3. QED
    BY <1>2, <1>4, <2>1, <2>2, LocalStepPreserves
<1>7. QED
  BY <1>1, <1>5, <1>6

\* The entry written is the writer's own finished estimate.
LEMMA PersistPreserves ==
  ASSUME IInv, NEW r \in Requests, NEW l \in {"reply", "error500"},
         pc[r] = "store", store' = [store EXCEPT ![backend][key[r]] = est[r]], Goto(r, l),
         UNCHANGED <<key, kept, est, paid, backend, gateOn, settled, owed>>
  PROVE  IInv'
<1>1. key[r] \in Keys /\ est[r] \in Estimate /\ est[r].by = r /\ SoundFor(est[r], kept[r])
  BY DEF IInv, KeyInv, OwnInv
<1>2. TypeOK'
  <2>1. store' \in [Backends -> [Keys -> Estimate \cup {NoEntry, Unreadable}]]
    BY <1>1 DEF IInv, TypeOK
  <2>2. QED
    BY <2>1 DEF IInv, TypeOK, Goto
<1>3. /\ \A w \in Requests \ {r} : pc'[w] = pc[w]
      /\ pc'[r] = l
  BY DEF Goto, IInv, TypeOK
<1>4. \A f \in Estimate : f.by \in Requests
  BY DEF Estimate
<1>5. r \in Requests /\ l \in Finished /\ pc[r] \notin Finished /\ Finished \subseteq Grounded
  BY DEF Finished, Grounded
<1>6. KeyInv'
  <2>1. paid[r] <= Budget[l]
    BY PaidSoFar DEF Budget, Points
  <2>2. QED
    BY <1>3, <2>1 DEF KeyInv, IInv
<1>7. OwnInv'
  BY <1>1, <1>3, <1>4, <1>5
  DEF OwnInv, IInv, SoundFor, HasDangling, Coherent, NumericFail
<1>8. StoreInv'
  <2> SUFFICES ASSUME NEW b \in Backends, NEW k \in Keys, store'[b][k] \in Estimate
               PROVE  Stored(store[b][k], k)'
    BY DEF StoreInv
  <2>0. store \in [Backends -> [Keys -> Estimate \cup {NoEntry, Unreadable}]]
    BY DEF IInv, TypeOK
  <2>1. CASE b = backend /\ k = key[r]
    <3>1. store'[b][k] = est[r]
      BY <2>0, <2>1
    <3>2. QED
      BY <1>1, <1>3, <1>5, <2>1, <3>1
      DEF Stored, SoundFor, HasDangling, Coherent, NumericFail
  <2>2. CASE ~(b = backend /\ k = key[r])
    <3>1. store'[b][k] = store[b][k]
      BY <2>0, <2>2
    <3>2. Stored(store[b][k], k) /\ store[b][k].by \in Requests \ {r}
      BY <1>4, <1>5, <3>1 DEF StoreInv, IInv, Stored
    <3>3. QED
      BY <1>3, <3>1, <3>2 DEF Stored, SoundFor, HasDangling, Coherent, NumericFail
  <2>3. QED
    BY <2>1, <2>2
<1>9. ReplayInv'
  BY <1>1, <1>3, <1>4, <1>5 DEF ReplayInv, OwnInv, IInv
<1>10. QED
  BY <1>2, <1>6, <1>7, <1>8, <1>9 DEF IInv

LEMMA ReplyPreserves ==
  ASSUME IInv, NEW r \in Requests, Reply(r)
  PROVE  IInv'
<1>1. LocalStep(r, "answered", est[r], kept[r], 0)
  BY DEF Reply, Goto, LocalStep, IInv, TypeOK
<1>2. /\ pc[r] = "reply" /\ est[r] \in Estimate /\ est[r].by \in Requests
      /\ SoundFor(est[r], kept[est[r].by])
      /\ est[r].by # r => pc[est[r].by] \in Finished /\ est[est[r].by] = est[r]
                          /\ key[est[r].by] = key[r]
  BY DEF Reply, IInv, OwnInv, ReplayInv, Estimate
<1>3. paid[r] + 0 <= Budget["answered"] /\ "answered" \in Points
  BY PaidSoFar DEF Budget, Points
<1>4. LocallySafe(r, "answered", est[r], kept[r], 0)
  BY <1>2, <1>3 DEF LocallySafe, Finished, Grounded
<1>5. kept[r] \in SUBSET ChunkIds /\ settled' \in SUBSET (Backends \X Keys) /\ 0 \in 0..1
  <2>1. backend \in Backends /\ settled \in SUBSET (Backends \X Keys)
    BY DEF IInv, TypeOK, Reachable, Backends
  <2>2. settled' = settled \cup ({backend} \X {k \in Keys : k = key[r]})
    BY DEF Reply
  <2>3. {backend} \X {k \in Keys : k = key[r]} \subseteq Backends \X Keys
    BY <2>1
  <2>4. QED
    BY <2>1, <2>2, <2>3 DEF IInv, TypeOK
<1>6. QED
  BY <1>1, <1>2, <1>3, <1>4, <1>5, LocalStepPreserves

\* Entries may vanish at any time, one by one or all at once.
LEMMA ForgottenStore ==
  ASSUME IInv, NEW b \in Backends, NEW k \in Keys,
         store' = [store EXCEPT ![b][k] = NoEntry]
  PROVE  /\ store' \in [Backends -> [Keys -> Estimate \cup {NoEntry, Unreadable}]]
         /\ \A c \in Backends, j \in Keys :
              /\ store'[c][j] \in Estimate => store'[c][j] = store[c][j]
              /\ <<c, j>> # <<b, k>> => store'[c][j] = store[c][j]
<1>1. store \in [Backends -> [Keys -> Estimate \cup {NoEntry, Unreadable}]]
  BY DEF IInv, TypeOK
<1>2. store' \in [Backends -> [Keys -> Estimate \cup {NoEntry, Unreadable}]]
  BY <1>1
<1>3. ASSUME NEW c \in Backends, NEW j \in Keys
      PROVE  store'[c][j] = IF c = b /\ j = k THEN NoEntry ELSE store[c][j]
  BY <1>1
<1>4. QED
  BY <1>2, <1>3, ConstantsOK

LEMMA ForgetPreserves ==
  ASSUME IInv, NEW b \in Backends, NEW k \in Keys,
         store' = [store EXCEPT ![b][k] = NoEntry],
         settled' \in SUBSET (Backends \X Keys), owed' \in [Requests -> BOOLEAN],
         UNCHANGED <<pc, key, kept, est, paid, backend, gateOn>>
  PROVE  IInv'
<1>1. TypeOK' /\ KeyInv'
  BY ForgottenStore DEF IInv, TypeOK, KeyInv
<1>2. OwnInv' /\ ReplayInv'
  BY DEF IInv, OwnInv, ReplayInv, SoundFor, HasDangling, Coherent, NumericFail
<1>3. StoreInv'
  <2> SUFFICES ASSUME NEW c \in Backends, NEW j \in Keys, store'[c][j] \in Estimate
               PROVE  Stored(store[c][j], j)'
    BY DEF StoreInv
  <2>1. store'[c][j] = store[c][j]
    BY ForgottenStore
  <2>2. Stored(store[c][j], j)
    BY <2>1 DEF StoreInv, IInv
  <2>3. QED
    BY <2>1, <2>2 DEF Stored, SoundFor, HasDangling, Coherent, NumericFail
<1>4. QED
  BY <1>1, <1>2, <1>3 DEF IInv

LEMMA EvictPreserves ==
  ASSUME IInv, NEW r \in Requests, Evict(r)
  PROVE  IInv'
<1>1. key[r] \in Keys /\ pc[r] = "evict" /\ backend \in Backends
  BY DEF Evict, IInv, TypeOK, KeyInv, Reachable, Backends
<1>0. /\ store' \in [Backends -> [Keys -> Estimate \cup {NoEntry, Unreadable}]]
      /\ \A c \in Backends, j \in Keys :
           store'[c][j] \in Estimate => store'[c][j] = store[c][j]
  BY <1>1, ForgottenStore DEF Evict
<1>2. /\ \A w \in Requests \ {r} : pc'[w] = pc[w]
      /\ pc'[r] = "reformulate"
  BY DEF Evict, Goto, IInv, TypeOK
<1>3. TypeOK'
  BY <1>0, <1>1 DEF Evict, Goto, IInv, TypeOK
<1>4. \A w \in Requests : pc[w] \in Grounded => w # r
  BY <1>1 DEF Grounded, Finished
<1>5. \A f \in Estimate : f.by \in Requests
  BY DEF Estimate
<1>6. Finished \subseteq Grounded
  BY DEF Grounded
<1>7. KeyInv'
  <2>1. Budget["evict"] = Budget["reformulate"]
    BY DEF Budget, Points
  <2>2. QED
    BY <1>1, <1>2, <2>1 DEF KeyInv, IInv, Evict
<1>8. OwnInv'
  BY <1>2, <1>4, <1>5
  DEF OwnInv, IInv, Evict, SoundFor, HasDangling, Coherent, NumericFail
<1>9. StoreInv'
  <2> SUFFICES ASSUME NEW b \in Backends, NEW k \in Keys, store'[b][k] \in Estimate
               PROVE  Stored(store[b][k], k)'
    BY DEF StoreInv
  <2>1. store'[b][k] = store[b][k]
    BY <1>0
  <2>2. Stored(store[b][k], k) /\ store[b][k].by \in Requests \ {r}
    BY <1>4, <1>5, <1>6, <2>1 DEF StoreInv, IInv, Stored
  <2>3. QED
    BY <1>2, <2>1, <2>2
    DEF Evict, Stored, SoundFor, HasDangling, Coherent, NumericFail
<1>10. ReplayInv'
  <2> SUFFICES ASSUME NEW w \in Requests, pc'[w] \in {"reply", "answered"}, est[w].by # w
               PROVE  /\ pc'[est[w].by] \in Finished
                      /\ est[est[w].by] = est[w]
                      /\ key[est[w].by] = key[w]
    BY DEF Evict, ReplayInv
  <2>1. w # r /\ pc[w] \in {"reply", "answered"} /\ est[w] \in Estimate
    BY <1>2 DEF IInv, OwnInv
  <2>2. QED
    BY <1>2, <1>4, <1>5, <1>6, <2>1 DEF ReplayInv, IInv
<1>11. QED
  BY <1>3, <1>7, <1>8, <1>9, <1>10 DEF IInv

LEMMA RestartPreserves ==
  ASSUME IInv, Restart
  PROVE  IInv'
<1>1. /\ \A w \in Requests : pc'[w] = IF pc[w] \in Waiting THEN "lost" ELSE pc[w]
      /\ UNCHANGED <<key, kept, est, paid, gateOn>>
  BY DEF Restart, IInv, TypeOK
<1>0. /\ store' \in [Backends -> [Keys -> Estimate \cup {NoEntry, Unreadable}]]
      /\ \A c \in Backends, j \in Keys :
           store'[c][j] \in Estimate => store'[c][j] = store[c][j]
  <2>1. store \in [Backends -> [Keys -> Estimate \cup {NoEntry, Unreadable}]]
        /\ store' = [store EXCEPT !["dict"] = [k \in Keys |-> NoEntry]]
    BY DEF Restart, IInv, TypeOK
  <2>2. \A c \in Backends, j \in Keys :
          store'[c][j] = IF c = "dict" THEN NoEntry ELSE store[c][j]
    BY <2>1
  <2>3. store' \in [Backends -> [Keys -> Estimate \cup {NoEntry, Unreadable}]]
    BY <2>1
  <2>4. QED
    BY <2>2, <2>3, ConstantsOK
<1>2. TypeOK'
  <2>1. settled' \in SUBSET (Backends \X Keys) /\ backend' \in Reachable
    BY DEF Restart, IInv, TypeOK
  <2>2. QED
    BY <1>0, <2>1 DEF Restart, IInv, TypeOK
<1>3. \A w \in Requests :
        /\ pc[w] \in Grounded => pc'[w] \in Grounded
        /\ pc[w] \in Finished => pc'[w] \in Finished
        /\ pc'[w] \in {"reply", "answered"} => pc[w] = "answered"
        /\ pc'[w] \notin {"lookup", "evict", "store", "judge"}
  BY <1>1 DEF Grounded, Finished
<1>4. \A f \in Estimate : f.by \in Requests
  BY DEF Estimate
<1>5. KeyInv'
  <2>1. \A w \in Requests : paid[w] <= Budget[pc'[w]]
    <3>1. \A w \in Requests : pc'[w] = pc[w] \/ pc'[w] = "lost"
      BY <1>1
    <3>2. Budget["lost"] = 3
      BY DEF Budget, Points
    <3>3. QED
      BY <3>1, <3>2, PaidSoFar DEF IInv, KeyInv
  <2>2. QED
    BY <1>1, <1>3, <2>1 DEF KeyInv, IInv
<1>6. OwnInv'
  BY <1>1, <1>3, <1>4 DEF OwnInv, IInv, SoundFor, HasDangling, Coherent, NumericFail
<1>7. StoreInv'
  BY <1>0, <1>1, <1>3, <1>4
  DEF StoreInv, Stored, IInv, SoundFor, HasDangling, Coherent, NumericFail
<1>8. ReplayInv'
  BY <1>1, <1>3, <1>4 DEF ReplayInv, OwnInv, IInv
<1>9. QED
  BY <1>2, <1>5, <1>6, <1>7, <1>8 DEF IInv

-----------------------------------------------------------------------------
(* The invariant, and what follows from it.                                *)

LEMMA InitIInv == Init => IInv
<1> SUFFICES ASSUME Init PROVE IInv
  OBVIOUS
<1>1. TypeOK
  BY ConstantsOK DEF Init, TypeOK, Backends
<1>2. KeyInv /\ OwnInv /\ ReplayInv
  BY DEF Init, KeyInv, OwnInv, ReplayInv, Budget, Points
<1>3. StoreInv
  BY ConstantsOK DEF Init, StoreInv, Backends
<1>4. QED
  BY <1>1, <1>2, <1>3 DEF IInv

LEMMA SucceedPreserves ==
  ASSUME IInv, NEW r \in Requests, Succeed(r)
  PROVE  IInv'
<1>0. /\ \A l \in {"evict", "reformulate", "embed", "retrieve", "lookup"} : Budget[l] = 0
      /\ {"evict", "reformulate", "embed", "retrieve"} \subseteq Points
  BY DEF Budget, Points
<1>1. CASE LookupHit(r)
  BY <1>1, LookupHitPreserves
<1>2. CASE LookupMiss(r)
  <2> DEFINE l == IF store[backend][key[r]] = Unreadable THEN "evict" ELSE "reformulate"
  <2>1. pc[r] = "lookup" /\ Goto(r, l) /\ key[r] \in Keys /\ pc[r] \notin Grounded
        /\ pc[r] \notin Finished
        /\ UNCHANGED <<key, kept, est, paid, backend, store, gateOn, settled, owed>>
    BY <1>2 DEF LookupMiss, IInv, KeyInv, Grounded, Finished
  <2>2. l \in Points /\ Budget[pc[r]] <= Budget[l] /\ l \in {"evict", "reformulate"}
    BY <1>0, <2>1
  <2>3. QED
    BY <2>1, <2>2, GotoPreserves
<1>3. CASE Evict(r)
  BY <1>3, EvictPreserves
<1>4. CASE Reformulate(r) \/ Embed(r)
  <2>1. PICK l \in {"embed", "retrieve"} :
          /\ pc[r] \in {"reformulate", "embed"} /\ Goto(r, l)
          /\ UNCHANGED <<key, kept, est, paid, backend, store, gateOn, settled, owed>>
    BY <1>4 DEF Reformulate, Embed
  <2>2. l \in Points /\ Budget[pc[r]] <= Budget[l] /\ pc[r] \notin Grounded
        /\ pc[r] \notin Finished
    BY <1>0, <2>1 DEF Grounded, Finished
  <2>3. QED
    BY <2>1, <2>2, GotoPreserves
<1>5. CASE SoftFail(r)
  BY <1>5, SoftFailPreserves
<1>6. CASE Retrieve(r)
  BY <1>6, RetrievePreserves
<1>7. CASE Generate(r)
  BY <1>7, GeneratePreserves
<1>8. CASE CitationRetry(r)
  BY <1>8, CitationRetryPreserves
<1>9. CASE HallucinationGate(r)
  BY <1>9, HallucinationGatePreserves
<1>10. CASE CoherenceRepair(r)
  BY <1>10, CoherenceRepairPreserves
<1>11. CASE Persist(r)
  BY <1>11, PersistPreserves DEF Persist
<1>12. CASE Reply(r)
  BY <1>12, ReplyPreserves
<1>13. QED
  BY <1>1, <1>2, <1>3, <1>4, <1>5, <1>6, <1>7, <1>8, <1>9, <1>10, <1>11, <1>12 DEF Succeed

LEMMA FailPreserves ==
  ASSUME IInv, NEW r \in Requests, Fail(r)
  PROVE  IInv'
<1>1. CASE PipelineError(r) \/ ForeignError(r)
  <2>1. PICK l \in {"error502", "error500"} :
          /\ pc[r] \in RagErrorAt \cup ForeignErrorAt /\ Goto(r, l)
          /\ UNCHANGED <<key, kept, est, paid, backend, store, gateOn, settled, owed>>
    BY <1>1 DEF PipelineError, ForeignError
  <2>2. l \in Points /\ l \in Grounded /\ Budget[l] = 3 /\ pc[r] \notin Finished
    BY <2>1 DEF Points, Grounded, Finished, Budget, RagErrorAt, ForeignErrorAt
  <2>3. Budget[pc[r]] <= Budget[l]
    BY <2>2, PaidSoFar DEF Budget
  <2>4. QED
    BY <2>1, <2>2, <2>3, GotoPreserves
<1>2. CASE PersistUnconfirmed(r)
  BY <1>2, PersistPreserves DEF PersistUnconfirmed
<1>3. QED
  BY <1>1, <1>2 DEF Fail

LEMMA NextPreserves == IInv /\ [Next]_vars => IInv'
<1> SUFFICES ASSUME IInv, [Next]_vars PROVE IInv'
  OBVIOUS
<1>1. ASSUME NEW r \in Requests, NEW k \in Keys \cup {NoKey}, Submit(r, k)
      PROVE  IInv'
  BY <1>1, SubmitPreserves
<1>2. ASSUME NEW r \in Requests, Succeed(r)
      PROVE  IInv'
  BY <1>2, SucceedPreserves
<1>3. ASSUME NEW r \in Requests, Fail(r)
      PROVE  IInv'
  BY <1>3, FailPreserves
<1>4. ASSUME NEW b \in Backends, NEW k \in Keys, Expire(b, k)
      PROVE  IInv'
  <2>1. settled' \in SUBSET (Backends \X Keys) /\ owed' \in [Requests -> BOOLEAN]
    BY <1>4 DEF Expire, IInv, TypeOK
  <2>2. QED
    BY <1>4, <2>1, ForgetPreserves DEF Expire
<1>5. CASE Restart
  BY <1>5, RestartPreserves
<1>6. CASE SetGate
  BY <1>6 DEF SetGate, IInv, TypeOK, KeyInv, OwnInv, StoreInv, Stored, ReplayInv,
              SoundFor, HasDangling, Coherent, NumericFail
<1>7. CASE UNCHANGED vars
  BY <1>7 DEF vars, IInv, TypeOK, KeyInv, OwnInv, StoreInv, Stored, ReplayInv,
              SoundFor, HasDangling, Coherent, NumericFail
<1>8. QED
  BY <1>1, <1>2, <1>3, <1>4, <1>5, <1>6, <1>7 DEF Next

\* Every reachable state satisfies the inductive invariant.
THEOREM InductiveInvariant == Spec => []IInv
BY InitIInv, NextPreserves, PTL DEF Spec

\* The state keeps its types; in particular no request pays for more than
\* three generation calls.
THEOREM TypeCorrect == Spec => []TypeOK
<1>1. IInv => TypeOK
  BY DEF IInv
<1>2. QED
  BY <1>1, InductiveInvariant, PTL

\* What the checks established still holds of every delivered estimate.
LEMMA DeliveredSound ==
  ASSUME IInv, NEW e \in Delivered
  PROVE  SoundFor(e, kept[e.by])
<1>1. CASE \E r \in Requests : pc[r] \in {"store", "reply", "answered"} /\ e = est[r]
  BY <1>1 DEF IInv, OwnInv
<1>2. CASE \E b \in Backends, k \in Keys : store[b][k] \in Estimate /\ e = store[b][k]
  BY <1>2 DEF IInv, StoreInv, Stored
<1>3. QED
  BY <1>1, <1>2 DEF Delivered

\* No path delivers an "insufficient" estimate with content attached.
THEOREM CoherentAnswers == Spec => []OnlyCoherentLeaves
<1>1. IInv => OnlyCoherentLeaves
  BY DeliveredSound DEF OnlyCoherentLeaves, SoundFor
<1>2. QED
  BY <1>1, InductiveInvariant, PTL

\* Outside the coherence repair, unresolved citations always show as "low".
THEOREM HonestCitations == Spec => []CitationsHonest
<1>1. IInv => CitationsHonest
  BY DeliveredSound DEF CitationsHonest, SoundFor
<1>2. QED
  BY <1>1, InductiveInvariant, PTL

\* A graded text that its own sources contradict is never delivered as sure.
THEOREM HonestGate == Spec => []GateHonest
<1>1. IInv => GateHonest
  BY DeliveredSound DEF GateHonest, SoundFor
<1>2. QED
  BY <1>1, InductiveInvariant, PTL

\* A replayed answer is the answer its own request produced.
THEOREM VerbatimReplay == Spec => []ReplayIsVerbatim
<1>1. IInv => ReplayIsVerbatim
  BY DEF IInv, ReplayInv, ReplayIsVerbatim
<1>2. QED
  BY <1>1, InductiveInvariant, PTL

-----------------------------------------------------------------------------
(* Retries are free under every key whose entry can be read.               *)

RetryInv ==
  /\ \A b \in Backends, k \in Keys : store[b][k] = Unreadable => k \in Leftover
  /\ \A r \in Requests : pc[r] = "evict" => key[r] \in Leftover
  /\ \A b \in Backends, k \in Keys \ Leftover :
       <<b, k>> \in settled => store[b][k] \in Estimate
  /\ \A r \in Requests :
       pc[r] = "reply" /\ key[r] \in Keys \ Leftover => store[backend][key[r]] \in Estimate
  /\ \A r \in Requests : owed[r] /\ key[r] \notin Leftover =>
       /\ paid[r] = 0
       /\ pc[r] \in {"lookup"} \cup Finished
       /\ pc[r] = "lookup" => <<backend, key[r]>> \in settled

LEMMA RetryStep ==
  ASSUME IInv, RetryInv, [Next]_vars
  PROVE  RetryInv'
<1> USE DEF RetryInv, Finished
<1>0. /\ Unreadable \notin Estimate /\ NoEntry # Unreadable /\ NoKey \notin Keys
      /\ backend \in Backends
      /\ store \in [Backends -> [Keys -> Estimate \cup {NoEntry, Unreadable}]]
  BY ConstantsOK DEF IInv, TypeOK, Reachable, Backends
<1>1. ASSUME NEW r \in Requests, NEW k \in Keys \cup {NoKey}, Submit(r, k)
      PROVE  RetryInv'
  <2>1. pc[r] = "idle" /\ paid[r] = 0
    <3>1. pc[r] = "idle" /\ paid[r] \in 0..3 /\ paid[r] <= Budget["idle"] /\ Budget["idle"] = 0
      BY <1>1 DEF Submit, IInv, TypeOK, KeyInv, Budget, Points
    <3>2. QED
      BY <3>1
  <2>2. /\ pc'[r] \in {"lookup", "reformulate"}
        /\ pc'[r] = "lookup" => owed'[r] = (<<backend, key'[r]>> \in settled)
        /\ pc'[r] = "reformulate" => key'[r] = NoKey /\ ~owed'[r]
        /\ \A w \in Requests \ {r} :
             pc'[w] = pc[w] /\ key'[w] = key[w] /\ owed'[w] = owed[w]
        /\ UNCHANGED <<paid, backend, store, settled>>
    <3>1. <<backend, NoKey>> \notin settled
      BY <1>0 DEF IInv, TypeOK
    <3>2. QED
      BY <1>1, <3>1 DEF Submit, Goto, IInv, TypeOK
  <2>3. QED
    BY <1>0, <2>1, <2>2
<1>2. ASSUME NEW r \in Requests, LookupHit(r)
      PROVE  RetryInv'
  BY <1>2 DEF LookupHit, Goto, IInv, TypeOK
<1>3. ASSUME NEW r \in Requests, LookupMiss(r)
      PROVE  RetryInv'
  <2>1. /\ key[r] \in Keys /\ pc[r] = "lookup"
        /\ store[backend][key[r]] \notin Estimate
        /\ UNCHANGED <<key, paid, backend, store, settled, owed>>
    BY <1>3 DEF LookupMiss, IInv, KeyInv
  <2>2. owed[r] => key[r] \in Leftover
    BY <1>0, <2>1
  <2>3. /\ pc'[r] \in {"evict", "reformulate"}
        /\ pc'[r] = "evict" => store[backend][key[r]] = Unreadable
        /\ \A w \in Requests \ {r} : pc'[w] = pc[w]
    BY <1>3 DEF LookupMiss, Goto, IInv, TypeOK
  <2>4. pc'[r] = "evict" => key[r] \in Leftover
    BY <1>0, <2>1, <2>3
  <2>5. QED
    BY <2>1, <2>2, <2>3, <2>4
<1>4. ASSUME NEW r \in Requests, Evict(r)
      PROVE  RetryInv'
  <2>1. pc[r] = "evict" /\ key[r] \in Leftover
    BY <1>4 DEF Evict
  <2>2. QED
    BY <1>0, <1>4, <2>1 DEF Evict, Goto, IInv, TypeOK
<1>5. ASSUME NEW r \in Requests, Reformulate(r) \/ Embed(r) \/ Retrieve(r)
      PROVE  RetryInv'
  BY <1>5 DEF Reformulate, Embed, Retrieve, Goto, IInv, TypeOK
<1>6. ASSUME NEW r \in Requests,
             SoftFail(r) \/ Generate(r) \/ CitationRetry(r) \/ HallucinationGate(r)
               \/ CoherenceRepair(r)
      PROVE  RetryInv'
  <2>1. PICK l \in Points \ {"evict"} :
          /\ pc' = [pc EXCEPT ![r] = l]
          /\ l = "reply" => key[r] = NoKey
    BY <1>6 DEF SoftFail, Generate, CitationRetry, HallucinationGate, CoherenceRepair,
                AfterCitations, CheckCoherence, Deliver, Goto, Points
  <2>2. /\ pc[r] \in {"retrieve", "generate", "retry", "judge", "repair"}
        /\ \E n \in 0..1 : paid' = [paid EXCEPT ![r] = @ + n]
        /\ UNCHANGED <<key, backend, store, settled, owed>>
    <3>1. paid = [paid EXCEPT ![r] = @ + 0]
      BY DEF IInv, TypeOK
    <3>2. QED
      BY <1>6, <3>1 DEF SoftFail, Generate, CitationRetry, HallucinationGate,
                        CoherenceRepair, Pay
  <2>3. owed[r] => key[r] \in Leftover
    BY <2>2
  <2>4. /\ pc'[r] = l
        /\ \A w \in Requests \ {r} : pc'[w] = pc[w]
    <3>1. DOMAIN pc = Requests
      BY DEF IInv, TypeOK
    <3>2. QED
      BY <2>1, <3>1
  <2>5. ASSUME NEW w \in Requests, pc'[w] = "reply", key'[w] \in Keys \ Leftover
        PROVE  store'[backend'][key'[w]] \in Estimate
    <3>1. w # r
      BY <1>0, <2>1, <2>2, <2>4, <2>5
    <3>2. QED
      BY <2>2, <2>4, <2>5, <3>1
  <2>6. ASSUME NEW w \in Requests, owed'[w], key'[w] \notin Leftover
        PROVE  paid'[w] = 0 /\ pc'[w] = pc[w] /\ key'[w] = key[w] /\ owed[w]
    <3>1. w # r
      BY <2>2, <2>3, <2>6
    <3>2. paid'[w] = paid[w]
      BY <2>2, <3>1 DEF IInv, TypeOK
    <3>3. QED
      BY <2>2, <2>4, <2>6, <3>1, <3>2
  <2>7. settled' = settled /\ store' = store /\ backend' = backend
    BY <2>2
  <2>8. ASSUME NEW w \in Requests, pc'[w] = "evict"
        PROVE  key'[w] \in Leftover
    BY <2>1, <2>2, <2>4, <2>8
  <2>9. QED
    BY <2>5, <2>6, <2>7, <2>8
<1>7. ASSUME NEW r \in Requests, Persist(r) \/ PersistUnconfirmed(r)
      PROVE  RetryInv'
  <2>1. pc[r] = "store" /\ est[r] \in Estimate /\ key[r] \in Keys
    BY <1>7 DEF Persist, PersistUnconfirmed, IInv, OwnInv, KeyInv
  <2>2. /\ pc'[r] \in {"reply", "error500"}
        /\ \A w \in Requests \ {r} : pc'[w] = pc[w]
        /\ \A c \in Backends, j \in Keys :
             store'[c][j] = IF c = backend /\ j = key[r] THEN est[r] ELSE store[c][j]
        /\ UNCHANGED <<key, paid, backend, settled, owed>>
    BY <1>0, <1>7 DEF Persist, PersistUnconfirmed, Goto, IInv, TypeOK
  <2>3. \A c \in Backends, j \in Keys : store'[c][j] = Unreadable => j \in Leftover
    BY <1>0, <2>1, <2>2
  <2>4. \A c \in Backends, j \in Keys \ Leftover :
          <<c, j>> \in settled => store'[c][j] \in Estimate
    BY <2>1, <2>2
  <2>5. \A w \in Requests : pc'[w] = "reply" /\ key[w] \in Keys \ Leftover =>
          store'[backend][key[w]] \in Estimate
    BY <1>0, <2>1, <2>2
  <2>6. \A w \in Requests : owed[w] /\ key[w] \notin Leftover =>
          /\ paid[w] = 0
          /\ pc'[w] \in {"lookup"} \cup Finished
          /\ pc'[w] = "lookup" => <<backend, key[w]>> \in settled
    BY <2>1, <2>2
  <2>7. \A w \in Requests : pc'[w] = "evict" => key[w] \in Leftover
    BY <2>2
  <2>8. QED
    BY <2>2, <2>3, <2>4, <2>5, <2>6, <2>7
<1>8. ASSUME NEW r \in Requests, Reply(r)
      PROVE  RetryInv'
  BY <1>8 DEF Reply, Goto, IInv, TypeOK
<1>9. ASSUME NEW r \in Requests, PipelineError(r) \/ ForeignError(r)
      PROVE  RetryInv'
  BY <1>9 DEF PipelineError, ForeignError, Goto, IInv, TypeOK
<1>10. ASSUME NEW b \in Backends, NEW k \in Keys, Expire(b, k)
      PROVE  RetryInv'
  <2>1. /\ \A c \in Backends, j \in Keys :
             store'[c][j] = IF c = b /\ j = k THEN NoEntry ELSE store[c][j]
        /\ settled' = settled \ {<<b, k>>}
    BY <1>10 DEF Expire, IInv, TypeOK
  <2>2. /\ \A r \in Requests : owed'[r] => owed[r] /\ <<backend, key[r]>> # <<b, k>>
        /\ \A r \in Requests : pc[r] = "reply" => <<backend, key[r]>> # <<b, k>>
        /\ UNCHANGED <<pc, key, paid, backend>>
    BY <1>10 DEF Expire
  <2>3. \A c \in Backends, j \in Keys : store'[c][j] = Unreadable => j \in Leftover
    BY <1>0, <2>1
  <2>4. \A c \in Backends, j \in Keys \ Leftover :
          <<c, j>> \in settled' => store'[c][j] \in Estimate
    BY <2>1
  <2>5. \A r \in Requests :
          pc[r] = "reply" /\ key[r] \in Keys \ Leftover => store'[backend][key[r]] \in Estimate
    BY <1>0, <2>1, <2>2
  <2>6. \A r \in Requests : owed'[r] /\ key[r] \notin Leftover /\ pc[r] = "lookup" =>
          <<backend, key[r]>> \in settled'
    BY <2>1, <2>2
  <2>7. QED
    BY <2>2, <2>3, <2>4, <2>5, <2>6
<1>11. CASE Restart
  <2>1. \A r \in Requests : /\ pc'[r] \notin {"evict", "reply", "lookup"}
                            /\ pc[r] \in {"lookup"} \cup Finished => pc'[r] \in Finished
    BY <1>11 DEF Restart, IInv, TypeOK
  <2>2. /\ \A c \in Backends, j \in Keys :
             store'[c][j] = IF c = "dict" THEN NoEntry ELSE store[c][j]
        /\ \A c \in Backends, j \in Keys :
             <<c, j>> \in settled' => <<c, j>> \in settled /\ c = "redis"
        /\ UNCHANGED <<key, paid, owed>>
    <3>1. store' = [store EXCEPT !["dict"] = [k \in Keys |-> NoEntry]]
          /\ store \in [Backends -> [Keys -> Estimate \cup {NoEntry, Unreadable}]]
      BY <1>11 DEF Restart, IInv, TypeOK
    <3>2. QED
      BY <1>11, <3>1 DEF Restart
  <2>3. QED
    BY <1>0, <2>1, <2>2
<1>12. CASE SetGate
  BY <1>12 DEF SetGate
<1>13. CASE UNCHANGED vars
  BY <1>13 DEF vars
<1>14. QED
  BY <1>1, <1>2, <1>3, <1>4, <1>5, <1>6, <1>7, <1>8, <1>9, <1>10, <1>11, <1>12, <1>13
  DEF Next, Succeed, Fail

\* A retry inside the TTL never pays, in any interleaving with other requests,
\* failures and restarts, under a key that held no unreadable entry.
THEOREM FreeRetries == Spec => []RetryIsFree
<1>1. Init => RetryInv
  BY ConstantsOK DEF Init, RetryInv
<1>2. IInv /\ RetryInv /\ [Next]_vars => RetryInv'
  BY RetryStep
<1>3. RetryInv => RetryIsFree
  BY DEF RetryInv, RetryIsFree
<1>4. QED
  BY <1>1, <1>2, <1>3, InductiveInvariant, PTL DEF Spec

=============================================================================
