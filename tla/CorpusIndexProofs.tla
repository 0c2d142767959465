-------------------------- MODULE CorpusIndexProofs --------------------------
(***************************************************************************)
(* What CorpusIndex keeps for every set of jobs, clients, documents and    *)
(* batches and every pattern of faults, and IndexRuns on top of it for     *)
(* every set of polls, proved with TLAPS.                                  *)
(***************************************************************************)
EXTENDS IndexRuns, FiniteSetTheorems, TLAPS

\* Where a worker stands in its batch, and that the corpus holds what it has
\* passed.
Placed(w) ==
  /\ pc[w] = "idle" => pos[w] = 0
  /\ pc[w] \in {"check", "embed"} => pos[w] < Len(batch[w])
  /\ \A i \in 1..Len(batch[w]) : i <= pos[w] => rows[batch[w][i]] > 0
  /\ w \in Clients => pc[w] \notin {"start", "progress", "finish", "fail"}

\* Somebody ingested a path of j's batch twice.
Poisoned(j) == \E i \in 1..Len(batch[j]) : rows[batch[j][i]] > 1

\* The row of a job, at each call of its task.
RowAt(j) ==
  /\ pc[j] = "idle" => job[j].status = "none" /\ job[j].processed = 0
  /\ pc[j] = "start" => /\ job[j].status = "pending" /\ job[j].processed = 0
                        /\ pos[j] = 0 /\ Len(batch[j]) > 0
  /\ pc[j] \in {"check", "embed", "finish"} =>
       job[j].status = "running" /\ job[j].processed = pos[j]
  /\ pc[j] = "progress" => job[j].status = "running" /\ job[j].processed + 1 = pos[j]
  /\ pc[j] = "finish" => pos[j] = Len(batch[j])
  /\ pc[j] = "fail" => \/ job[j].status = "running"
                       \/ LostAcks /\ job[j].status = "completed" /\ "finish" \in raised[j]
  /\ job[j].status = "completed" => pos[j] = Len(batch[j])
  /\ job[j].processed <= pos[j]
  /\ pc[j] = "fail" \/ job[j].status = "failed" => raised[j] # {} \/ Poisoned(j)

\* A path is in the corpus twice, or about to be, only after a race on it.
Races ==
  /\ \A d \in Docs : rows[d] > 1 => d \in raced
  /\ \A w \in Workers : pc[w] = "embed" => rows[Current(w)] = 0 \/ Current(w) \in raced
  /\ \A v, w \in Workers :
       v # w /\ pc[v] = "embed" /\ pc[w] = "embed" /\ Current(v) = Current(w)
         => Current(v) \in raced

IInv ==
  /\ TypeOK
  /\ \A w \in Workers : Placed(w)
  /\ \A j \in Jobs : RowAt(j)
  /\ Races

USE DEF Live, FaultPoints, Status

-----------------------------------------------------------------------------
(* A step is one worker's, and documents are only ever added.              *)

OnlyMoves(w) ==
  /\ \A v \in Workers \ {w} : /\ pc'[v] = pc[v] /\ batch'[v] = batch[v]
                              /\ pos'[v] = pos[v] /\ raised'[v] = raised[v]
  /\ \A j \in Jobs \ {w} : job'[j] = job[j]
  /\ \A d \in Docs : rows'[d] >= rows[d]

LEMMA OthersKeep ==
  ASSUME IInv, TypeOK', NEW w \in Workers, OnlyMoves(w)
  PROVE  /\ \A v \in Workers \ {w} : Placed(v)'
         /\ \A j \in Jobs \ {w} : RowAt(j)'
<1>1. \A v \in Workers : /\ batch[v] \in Seq(Docs) /\ Len(batch[v]) \in Nat
                         /\ \A i \in 1..Len(batch[v]) : batch[v][i] \in Docs
  BY DEF IInv, TypeOK
<1>2. \A d \in Docs : rows[d] \in Nat /\ rows'[d] \in Nat
  BY DEF IInv, TypeOK
<1>3. ASSUME NEW v \in Workers \ {w} PROVE Placed(v)'
  BY <1>1, <1>2 DEF IInv, Placed, OnlyMoves
<1>4. ASSUME NEW j \in Jobs \ {w} PROVE RowAt(j)'
  <2>1. j \in Workers \ {w} /\ RowAt(j)
    BY DEF IInv, Workers
  <2>2. Poisoned(j) => Poisoned(j)'
    BY <1>1, <1>2, <2>1 DEF Poisoned, OnlyMoves
  <2>3. QED
    BY <2>1, <2>2 DEF RowAt, OnlyMoves
<1>5. QED
  BY <1>3, <1>4

\* Who does not reach the embedding call, nor adds a row, races with nobody.
LEMMA RacesKeep ==
  ASSUME IInv, UNCHANGED <<rows, raced>>,
         \A v \in Workers : pc'[v] = "embed" =>
           pc[v] = "embed" /\ batch'[v] = batch[v] /\ pos'[v] = pos[v]
  PROVE  Races'
BY DEF IInv, Races, Current

\* The document of a transaction is one of its batch.
LEMMA CurrentIsDoc ==
  ASSUME IInv, NEW w \in Workers, pc[w] \in {"check", "embed"}
  PROVE  /\ pos[w] + 1 \in 1..Len(batch[w])
         /\ Current(w) \in Docs
<1>1. batch[w] \in Seq(Docs) /\ pos[w] \in Nat /\ pos[w] < Len(batch[w])
  BY DEF IInv, TypeOK, Placed
<1>2. pos[w] + 1 \in 1..Len(batch[w])
  BY <1>1
<1>3. QED
  BY <1>1, <1>2 DEF Current

-----------------------------------------------------------------------------
(* The actions.                                                            *)

LEMMA CreateKeeps ==
  ASSUME IInv, CorpusConstantsOK, NEW j \in Jobs, NEW b \in Batches,
         CreateRun(j, b) \/ CreateFails(j, b)
  PROVE  IInv'
<1>0. j \in Workers /\ b \in Seq(Docs) /\ Len(b) \in Nat /\ Len(b) > 0
  BY DEF CorpusConstantsOK, Workers
<1>1. pc[j] = "idle" /\ pos[j] = 0 /\ job[j].status = "none"
  BY <1>0 DEF IInv, CreateRun, CreateFails, Placed, RowAt
<1>2. TypeOK'
  <2>1. /\ job' \in [Jobs -> [status : Status, processed : Nat]]
        /\ pc' \in [Workers -> Live \cup {"idle", "ended", "killed"}]
        /\ raised' \in [Workers -> SUBSET FaultPoints]
    <3>1. CASE CreateRun(j, b)
      BY <1>0, <3>1 DEF IInv, TypeOK, CreateRun, Goto
    <3>2. CASE CreateFails(j, b)
      <4>1. job' \in [Jobs -> [status : Status, processed : Nat]]
        BY <3>2 DEF IInv, TypeOK, CreateFails
      <4>2. pc' \in [Workers -> Live \cup {"idle", "ended", "killed"}]
        BY <1>0, <3>2 DEF IInv, TypeOK, CreateFails, Goto
      <4>3. raised[j] \cup {"create"} \in SUBSET FaultPoints
        BY <1>0 DEF IInv, TypeOK
      <4>4. raised' \in [Workers -> SUBSET FaultPoints]
        BY <3>2, <4>3 DEF IInv, TypeOK, CreateFails, Blame
      <4>5. QED
        BY <4>1, <4>2, <4>4
    <3>3. QED
      BY <3>1, <3>2
  <2>2. batch' \in [Workers -> Seq(Docs)] /\ batch' = [batch EXCEPT ![j] = b]
    BY <1>0 DEF IInv, TypeOK, CreateRun, CreateFails
  <2>3. UNCHANGED <<rows, pos, indexed, raced>>
    BY DEF CreateRun, CreateFails
  <2>4. \A w \in Workers : indexed'[w] <= pos'[w] /\ pos'[w] <= Len(batch'[w])
    BY <1>0, <1>1, <2>2, <2>3 DEF IInv, TypeOK
  <2>5. QED
    BY <2>1, <2>2, <2>3, <2>4 DEF IInv, TypeOK
<1>3. OnlyMoves(j)
  BY <1>0 DEF IInv, TypeOK, OnlyMoves, CreateRun, CreateFails, Goto, Blame
<1>4. /\ pc'[j] \in {"start", "ended"} /\ batch'[j] = b /\ pos'[j] = 0
      /\ job'[j] = [status |-> "pending", processed |-> 0]
      /\ UNCHANGED <<rows, raced>>
  BY <1>0, <1>1 DEF IInv, TypeOK, CreateRun, CreateFails, Goto
<1>5. Placed(j)' /\ RowAt(j)'
  BY <1>0, <1>4 DEF CorpusConstantsOK, Placed, RowAt
<1>6. Races'
  BY <1>0, <1>3, <1>4, RacesKeep DEF OnlyMoves
<1>7. QED
  BY <1>2, <1>3, <1>5, <1>6, <1>0, OthersKeep DEF IInv

LEMMA SubmitKeeps ==
  ASSUME IInv, CorpusConstantsOK, NEW c \in Clients, NEW d \in Docs, SubmitIngest(c, d)
  PROVE  IInv'
<1>0. c \in Workers /\ c \notin Jobs
  BY DEF CorpusConstantsOK, Workers
<1>1. pc[c] = "idle" /\ pos[c] = 0
  BY <1>0 DEF IInv, SubmitIngest, Placed
<1>2. TypeOK'
  <2>1. <<d>> \in Seq(Docs) /\ Len(<<d>>) = 1
    OBVIOUS
  <2>2. QED
    BY <1>0, <1>1, <2>1 DEF IInv, TypeOK, SubmitIngest, Goto
<1>3. OnlyMoves(c)
  BY <1>0 DEF IInv, TypeOK, OnlyMoves, SubmitIngest, Goto
<1>4. /\ pc'[c] = "check" /\ batch'[c] = <<d>> /\ pos'[c] = 0
      /\ UNCHANGED <<rows, raced>>
  BY <1>0, <1>1 DEF IInv, TypeOK, SubmitIngest, Goto
<1>5. Placed(c)'
  BY <1>4 DEF Placed
<1>6. Races'
  BY <1>0, <1>3, <1>4, RacesKeep DEF OnlyMoves
<1>7. QED
  BY <1>2, <1>3, <1>5, <1>6, <1>0, OthersKeep DEF IInv

LEMMA CheckKeeps ==
  ASSUME IInv, CorpusConstantsOK, NEW w \in Workers, CheckDuplicate(w)
  PROVE  IInv'
<1> DEFINE d == Current(w)
           rivals == {v \in Workers \ {w} : pc[v] = "embed" /\ Current(v) = d}
<1>0. pc[w] = "check" /\ UNCHANGED <<rows, job, batch, indexed, raised>>
  BY DEF CheckDuplicate
<1>1. /\ pos[w] + 1 \in 1..Len(batch[w]) /\ d \in Docs /\ d = batch[w][pos[w] + 1]
      /\ rows[d] \in Nat /\ pos[w] \in Nat /\ Len(batch[w]) \in Nat
      /\ Placed(w)
  BY <1>0, CurrentIsDoc DEF IInv, TypeOK, Current
<1>2. \/ /\ rows[d] = 0 /\ pc' = [pc EXCEPT ![w] = "embed"] /\ pos' = pos
         /\ raced' = IF rivals = {} THEN raced ELSE raced \cup {d}
      \/ /\ rows[d] = 1 /\ w \in Jobs /\ raced' = raced
         /\ pos' = [pos EXCEPT ![w] = @ + 1] /\ pc' = [pc EXCEPT ![w] = "progress"]
      \/ /\ rows[d] = 1 /\ w \notin Jobs /\ raced' = raced /\ pos' = pos
         /\ pc' = [pc EXCEPT ![w] = "ended"]
      \/ /\ rows[d] > 1 /\ raced' = raced /\ pos' = pos
         /\ pc' = [pc EXCEPT ![w] = IF w \in Jobs THEN "fail" ELSE "ended"]
  BY DEF CheckDuplicate, Goto, Raise
<1>3. TypeOK'
  <2>1. pc' \in [Workers -> Live \cup {"idle", "ended", "killed"}]
    BY <1>2 DEF IInv, TypeOK
  <2>2. raced' = raced \/ raced' = raced \cup {d}
    BY <1>2
  <2>3. raced' \subseteq Docs
    BY <1>1, <2>2 DEF IInv, TypeOK
  <2>4. pos' = pos \/ pos' = [pos EXCEPT ![w] = @ + 1]
    BY <1>2
  <2>5. pos' \in [Workers -> Nat]
    BY <1>1, <2>4 DEF IInv, TypeOK
  <2>6. \A v \in Workers : indexed'[v] <= pos'[v] /\ pos'[v] <= Len(batch'[v])
    <3>1. \A v \in Workers : /\ indexed[v] \in Nat /\ pos[v] \in Nat /\ Len(batch[v]) \in Nat
                             /\ indexed[v] <= pos[v] /\ pos[v] <= Len(batch[v])
      BY DEF IInv, TypeOK
    <3>2. \A v \in Workers : pos'[v] = pos[v] \/ (v = w /\ pos'[v] = pos[v] + 1)
      BY <2>4 DEF IInv, TypeOK
    <3>3. QED
      BY <1>0, <1>1, <3>1, <3>2
  <2>7. QED
    BY <1>0, <2>1, <2>3, <2>5, <2>6 DEF IInv, TypeOK
<1>4. OnlyMoves(w)
  BY <1>0, <1>2 DEF IInv, TypeOK, OnlyMoves
<1>5. Placed(w)'
  <2>1. \A i \in 1..Len(batch[w]) : i <= pos'[w] => rows[batch[w][i]] > 0
    BY <1>1, <1>2 DEF Placed, IInv, TypeOK
  <2>2. QED
    BY <1>0, <1>1, <1>2, <2>1 DEF Placed, IInv, TypeOK, CorpusConstantsOK
<1>6. ASSUME w \in Jobs PROVE RowAt(w)'
  <2>1. RowAt(w) /\ job[w].processed \in Nat
    BY <1>6 DEF IInv, TypeOK
  <2>2. rows[d] > 1 => Poisoned(w)'
    BY <1>0, <1>1 DEF Poisoned
  <2>3. Poisoned(w) => Poisoned(w)'
    BY <1>0 DEF Poisoned
  <2>4. QED
    BY <1>0, <1>1, <1>2, <1>6, <2>1, <2>2, <2>3 DEF RowAt, IInv, TypeOK
<1>7. Races'
  <2>1. CASE raced' = raced /\ pc'[w] # "embed"
    BY <1>0, <1>4, <2>1, RacesKeep DEF OnlyMoves
  <2>2. CASE /\ rows[d] = 0 /\ pc' = [pc EXCEPT ![w] = "embed"] /\ pos' = pos
             /\ raced' = IF rivals = {} THEN raced ELSE raced \cup {d}
    <3>1. \A v \in Workers : Current(v)' = Current(v)
      BY <1>0, <2>2 DEF Current
    <3>2. raced \subseteq raced'
      BY <2>2
    <3>3. \A v \in Workers \ {w} : pc'[v] = "embed" /\ Current(v) = d => d \in raced'
      BY <2>2 DEF IInv, TypeOK
    <3>4. \A v \in Workers : pc'[v] = "embed" =>
            rows[Current(v)] = 0 \/ Current(v) \in raced'
      BY <2>2, <3>2 DEF IInv, Races, TypeOK
    <3>5. \A u, v \in Workers :
            u # v /\ pc'[u] = "embed" /\ pc'[v] = "embed" /\ Current(u) = Current(v)
              => Current(u) \in raced'
      BY <2>2, <3>2, <3>3 DEF IInv, Races, TypeOK
    <3>6. QED
      BY <1>0, <3>1, <3>2, <3>4, <3>5 DEF IInv, Races
  <2>3. QED
    BY <1>2, <2>1, <2>2 DEF IInv, TypeOK
<1>8. QED
  BY <1>3, <1>4, <1>5, <1>6, <1>7, OthersKeep DEF IInv

\* A document is committed by w, whose transaction ends.
LEMMA CommitKeepsRaces ==
  ASSUME IInv, NEW w \in Workers, pc[w] = "embed", pc'[w] # "embed", OnlyMoves(w),
         rows' = [rows EXCEPT ![Current(w)] = @ + 1], raced' = raced
  PROVE  Races'
<1> DEFINE d == Current(w)
<1>1. d \in Docs /\ rows[d] \in Nat
  BY CurrentIsDoc DEF IInv, TypeOK
<1>2. \A e \in Docs : rows'[e] = IF e = d THEN rows[e] + 1 ELSE rows[e]
  BY <1>1 DEF IInv, TypeOK
<1>3. rows[d] = 0 \/ d \in raced
  BY DEF IInv, Races
<1>4. \A e \in Docs : rows'[e] > 1 => e \in raced'
  BY <1>1, <1>2, <1>3 DEF IInv, Races
<1>5. \A v \in Workers : pc'[v] = "embed" =>
        v # w /\ pc[v] = "embed" /\ Current(v)' = Current(v) /\ Current(v) \in Docs
  BY CurrentIsDoc DEF OnlyMoves, Current
<1>6. \A v \in Workers : pc'[v] = "embed" =>
        rows'[Current(v)] = 0 \/ Current(v) \in raced'
  <2> SUFFICES ASSUME NEW v \in Workers, pc'[v] = "embed"
               PROVE  rows'[Current(v)] = 0 \/ Current(v) \in raced'
    OBVIOUS
  <2>1. CASE Current(v) = d
    BY <1>5, <2>1 DEF IInv, Races
  <2>2. CASE Current(v) # d
    BY <1>2, <1>5, <2>2 DEF IInv, Races
  <2>3. QED
    BY <2>1, <2>2
<1>7. QED
  BY <1>4, <1>5, <1>6 DEF IInv, Races

LEMMA PersistKeeps ==
  ASSUME IInv, CorpusConstantsOK, NEW w \in Workers, Persist(w)
  PROVE  IInv'
<1> DEFINE d == Current(w)
<1>0. pc[w] = "embed" /\ UNCHANGED <<job, batch, raced, raised>>
  BY DEF Persist
<1>1. /\ pos[w] + 1 \in 1..Len(batch[w]) /\ d \in Docs /\ d = batch[w][pos[w] + 1]
      /\ pos[w] \in Nat /\ indexed[w] \in Nat /\ Len(batch[w]) \in Nat
      /\ Placed(w)
  BY <1>0, CurrentIsDoc DEF IInv, TypeOK, Current
<1>2. /\ rows' = [rows EXCEPT ![d] = @ + 1]
      /\ pos' = [pos EXCEPT ![w] = @ + 1]
      /\ indexed' = [indexed EXCEPT ![w] = @ + 1]
      /\ pc' = [pc EXCEPT ![w] = IF w \in Jobs THEN "progress" ELSE "ended"]
  BY DEF Persist, Goto
<1>3. \A e \in Docs : /\ rows[e] \in Nat
                      /\ rows'[e] = IF e = d THEN rows[e] + 1 ELSE rows[e]
  BY <1>1, <1>2 DEF IInv, TypeOK
<1>4. TypeOK'
  BY <1>0, <1>1, <1>2 DEF IInv, TypeOK
<1>5. OnlyMoves(w)
  BY <1>0, <1>2, <1>3 DEF IInv, TypeOK, OnlyMoves
<1>6. \A i \in 1..Len(batch[w]) : batch[w][i] \in Docs
  BY DEF IInv, TypeOK
<1>7. Placed(w)'
  <2>1. \A i \in 1..Len(batch[w]) : i <= pos'[w] => rows'[batch[w][i]] > 0
    BY <1>1, <1>2, <1>3, <1>6 DEF Placed, IInv, TypeOK
  <2>2. QED
    BY <1>0, <1>1, <1>2, <2>1 DEF Placed, IInv, TypeOK, CorpusConstantsOK
<1>8. ASSUME w \in Jobs PROVE RowAt(w)'
  <2>1. RowAt(w) /\ job[w].processed \in Nat
    BY <1>8 DEF IInv, TypeOK
  <2>2. Poisoned(w) => Poisoned(w)'
    BY <1>0, <1>3, <1>6 DEF Poisoned
  <2>3. QED
    BY <1>0, <1>1, <1>2, <1>8, <2>1, <2>2 DEF RowAt, IInv, TypeOK
<1>9. Races'
  <2>1. pc'[w] # "embed"
    BY <1>2 DEF IInv, TypeOK
  <2>2. QED
    BY <1>0, <1>2, <1>5, <2>1, CommitKeepsRaces
<1>10. QED
  BY <1>4, <1>5, <1>7, <1>8, <1>9, OthersKeep DEF IInv

LEMMA FailKeeps ==
  ASSUME IInv, CorpusConstantsOK, NEW w \in Workers, IngestFails(w)
  PROVE  IInv'
<1> DEFINE d == Current(w)
           grown == [rows EXCEPT ![d] = @ + 1]
<1>0. pc[w] \in {"check", "embed"} /\ UNCHANGED <<job, batch, pos, indexed, raced>>
  BY DEF IngestFails
<1>1. d \in Docs /\ rows[d] \in Nat
  BY <1>0, CurrentIsDoc DEF IInv, TypeOK
<1>2. /\ rows' = rows \/ (pc[w] = "embed" /\ rows' = grown)
      /\ pc' = [pc EXCEPT ![w] = IF w \in Jobs THEN "fail" ELSE "ended"]
      /\ raised' = [raised EXCEPT ![w] = @ \cup {pc[w]}]
  BY DEF IngestFails, Raise, Goto, Blame
<1>3. rows' \in [Docs -> Nat] /\ \A e \in Docs : rows'[e] >= rows[e]
  <2>1. CASE rows' = rows
    BY <2>1 DEF IInv, TypeOK
  <2>2. CASE rows' = grown
    BY <1>1, <2>2 DEF IInv, TypeOK
  <2>3. QED
    BY <1>2, <2>1, <2>2
<1>4. TypeOK'
  <2>2. raised[w] \cup {pc[w]} \in SUBSET FaultPoints
    BY <1>0 DEF IInv, TypeOK
  <2>3. raised' \in [Workers -> SUBSET FaultPoints]
    BY <1>2, <2>2 DEF IInv, TypeOK
  <2>4. pc' \in [Workers -> Live \cup {"idle", "ended", "killed"}]
    BY <1>2 DEF IInv, TypeOK
  <2>5. QED
    BY <1>0, <1>3, <2>3, <2>4 DEF IInv, TypeOK
<1>5. OnlyMoves(w)
  BY <1>0, <1>2, <1>3 DEF IInv, TypeOK, OnlyMoves
<1>6. \A i \in 1..Len(batch[w]) : batch[w][i] \in Docs
  BY DEF IInv, TypeOK
<1>7. Placed(w)'
  BY <1>0, <1>2, <1>3, <1>6 DEF Placed, IInv, TypeOK, CorpusConstantsOK
<1>8. ASSUME w \in Jobs PROVE RowAt(w)'
  <2>1. raised'[w] # {} /\ pc'[w] = "fail"
    BY <1>2, <1>8 DEF IInv, TypeOK
  <2>2. QED
    BY <1>0, <1>8, <2>1 DEF RowAt, IInv, TypeOK
<1>9. Races'
  <2>1. pc'[w] # "embed"
    BY <1>2 DEF IInv, TypeOK
  <2>2. CASE rows' = rows
    BY <1>0, <1>5, <2>1, <2>2, RacesKeep DEF OnlyMoves
  <2>3. CASE pc[w] = "embed" /\ rows' = grown
    BY <1>0, <1>5, <2>1, <2>3, CommitKeepsRaces
  <2>4. QED
    BY <1>2, <2>2, <2>3
<1>10. QED
  BY <1>4, <1>5, <1>7, <1>8, <1>9, OthersKeep DEF IInv

\* What an update of the job row may leave behind.
LEMMA UpdateEffect ==
  ASSUME IInv, NEW j \in Jobs, pc[j] \in Live,
         NEW written \in [status : Status, processed : Nat],
         NEW next \in Live \cup {"ended"}, NEW handler \in {"fail", "ended"},
         JobUpdate(j, written, next, handler),
         UNCHANGED <<rows, batch, pos, indexed, raced>>
  PROVE  /\ TypeOK' /\ OnlyMoves(j)
         /\ \/ /\ pc'[j] = next /\ job'[j] = written /\ raised'[j] = raised[j]
            \/ /\ pc'[j] = handler /\ raised'[j] # {} /\ pc[j] \in raised'[j]
               /\ job'[j] = job[j] \/ (LostAcks /\ job'[j] = written)
<1>0. j \in Workers
  BY DEF Workers
<1>1. CASE /\ job' = [job EXCEPT ![j] = written]
           /\ pc' = [pc EXCEPT ![j] = next] /\ raised' = raised
  BY <1>0, <1>1 DEF IInv, TypeOK, OnlyMoves
<1>2. CASE /\ job' = job \/ (LostAcks /\ job' = [job EXCEPT ![j] = written])
           /\ pc' = [pc EXCEPT ![j] = handler]
           /\ raised' = [raised EXCEPT ![j] = @ \cup {pc[j]}]
  <2>1. raised[j] \cup {pc[j]} \in SUBSET FaultPoints
    BY <1>0 DEF IInv, TypeOK
  <2>2. /\ raised' \in [Workers -> SUBSET FaultPoints]
        /\ raised'[j] # {} /\ pc[j] \in raised'[j]
    BY <1>0, <1>2, <2>1 DEF IInv, TypeOK
  <2>3. /\ job' \in [Jobs -> [status : Status, processed : Nat]]
        /\ job'[j] = job[j] \/ (LostAcks /\ job'[j] = written)
    BY <1>2 DEF IInv, TypeOK
  <2>4. /\ pc' \in [Workers -> Live \cup {"idle", "ended", "killed"}]
        /\ pc'[j] = handler
    BY <1>0, <1>2 DEF IInv, TypeOK
  <2>5. TypeOK'
    BY <2>2, <2>3, <2>4 DEF IInv, TypeOK
  <2>6. OnlyMoves(j)
    BY <1>0, <1>2 DEF IInv, TypeOK, OnlyMoves
  <2>7. QED
    BY <2>2, <2>3, <2>4, <2>5, <2>6
<1>3. QED
  BY <1>1, <1>2 DEF JobUpdate, Goto, Blame

\* The four calls that update it.
LEMMA UpdateKeeps ==
  ASSUME IInv, CorpusConstantsOK, NEW j \in Jobs,
         Start(j) \/ Progress(j) \/ Finish(j) \/ MarkFailed(j)
  PROVE  IInv'
<1>0. j \in Workers /\ j \notin Clients /\ UNCHANGED <<rows, batch, pos, indexed, raced>>
  BY DEF CorpusConstantsOK, Workers, Start, Progress, Finish, MarkFailed
<1>1. /\ RowAt(j) /\ Placed(j) /\ job[j] \in [status : Status, processed : Nat]
      /\ pos[j] \in Nat /\ indexed[j] \in Nat /\ Len(batch[j]) \in Nat
      /\ indexed[j] <= pos[j] /\ pos[j] <= Len(batch[j])
  BY <1>0 DEF IInv, TypeOK
<1>2. Poisoned(j)' <=> Poisoned(j)
  BY <1>0 DEF Poisoned
<1>3. SUFFICES /\ TypeOK' /\ OnlyMoves(j) /\ RowAt(j)' /\ pc'[j] \notin {"idle", "embed"}
               /\ pc'[j] = "check" => pos[j] < Len(batch[j])
  <2>1. Placed(j)'
    BY <1>0, <1>1, <1>3 DEF Placed
  <2>2. Races'
    BY <1>0, <1>3, RacesKeep DEF OnlyMoves
  <2>3. QED
    BY <1>0, <1>3, <2>1, <2>2, OthersKeep DEF IInv
<1>4. CASE Start(j)
  <2> DEFINE written == [job[j] EXCEPT !.status = "running"]
  <2>1. /\ pc[j] = "start" /\ JobUpdate(j, written, "check", "ended")
        /\ written \in [status : Status, processed : Nat]
        /\ written.status = "running" /\ written.processed = job[j].processed
    BY <1>1, <1>4 DEF Start
  <2>2. /\ TypeOK' /\ OnlyMoves(j)
        /\ \/ /\ pc'[j] = "check" /\ job'[j] = written /\ raised'[j] = raised[j]
           \/ /\ pc'[j] = "ended" /\ raised'[j] # {}
              /\ job'[j] = job[j] \/ (LostAcks /\ job'[j] = written)
    <3> HIDE DEF written
    <3>1. QED
      BY <1>0, <2>1, UpdateEffect
  <2>3. QED
    BY <1>0, <1>1, <2>1, <2>2 DEF RowAt
<1>5. CASE Progress(j)
  <2> DEFINE written == [job[j] EXCEPT !.processed = pos[j]]
             next == IF pos[j] < Len(batch[j]) THEN "check" ELSE "finish"
  <2>1. /\ pc[j] = "progress" /\ JobUpdate(j, written, next, "fail")
        /\ written \in [status : Status, processed : Nat]
        /\ written.status = job[j].status /\ written.processed = pos[j]
    BY <1>1, <1>5 DEF Progress
  <2>2. next \in {"check", "finish"} /\ (next = "check" <=> pos[j] < Len(batch[j]))
    OBVIOUS
  <2>3. /\ TypeOK' /\ OnlyMoves(j)
        /\ \/ /\ pc'[j] = next /\ job'[j] = written /\ raised'[j] = raised[j]
           \/ /\ pc'[j] = "fail" /\ raised'[j] # {}
              /\ job'[j] = job[j] \/ (LostAcks /\ job'[j] = written)
    <3> HIDE DEF written, next
    <3>1. QED
      BY <1>0, <2>1, <2>2, UpdateEffect
  <2> HIDE DEF written, next
  <2>4. RowAt(j)'
    BY <1>0, <1>1, <1>2, <2>1, <2>2, <2>3 DEF RowAt
  <2>5. QED
    BY <2>2, <2>3, <2>4
<1>6. CASE Finish(j)
  <2> DEFINE written == [status |-> "completed", processed |-> indexed[j]]
  <2>1. /\ pc[j] = "finish" /\ JobUpdate(j, written, "ended", "fail")
        /\ written \in [status : Status, processed : Nat]
        /\ written.status = "completed" /\ written.processed = indexed[j]
    BY <1>1, <1>6 DEF Finish
  <2>2. /\ TypeOK' /\ OnlyMoves(j)
        /\ \/ /\ pc'[j] = "ended" /\ job'[j] = written /\ raised'[j] = raised[j]
           \/ /\ pc'[j] = "fail" /\ raised'[j] # {} /\ "finish" \in raised'[j]
              /\ job'[j] = job[j] \/ (LostAcks /\ job'[j] = written)
    <3> HIDE DEF written
    <3>1. QED
      BY <1>0, <2>1, UpdateEffect
  <2>3. QED
    BY <1>0, <1>1, <2>1, <2>2 DEF RowAt
<1>7. CASE MarkFailed(j)
  <2> DEFINE written == [job[j] EXCEPT !.status = "failed"]
  <2>1. /\ pc[j] = "fail" /\ JobUpdate(j, written, "ended", "ended")
        /\ written \in [status : Status, processed : Nat]
        /\ written.status = "failed" /\ written.processed = job[j].processed
    BY <1>1, <1>7 DEF MarkFailed
  <2>2. /\ TypeOK' /\ OnlyMoves(j)
        /\ \/ /\ pc'[j] = "ended" /\ job'[j] = written /\ raised'[j] = raised[j]
           \/ /\ pc'[j] = "ended" /\ raised'[j] # {}
              /\ job'[j] = job[j] \/ (LostAcks /\ job'[j] = written)
    <3> HIDE DEF written
    <3>1. QED
      BY <1>0, <2>1, UpdateEffect
  <2>3. QED
    BY <1>0, <1>1, <1>2, <2>1, <2>2 DEF RowAt
<1>8. QED
  BY <1>4, <1>5, <1>6, <1>7

LEMMA RestartKeeps ==
  ASSUME IInv, CorpusConstantsOK, Restart
  PROVE  IInv'
<1>1. /\ UNCHANGED <<rows, job, batch, pos, indexed, raced, raised>>
      /\ \A w \in Workers : pc'[w] = IF pc[w] \in Live THEN "killed" ELSE pc[w]
      /\ pc' \in [Workers -> Live \cup {"idle", "ended", "killed"}]
  BY DEF Restart, IInv, TypeOK
<1>2. TypeOK'
  BY <1>1 DEF IInv, TypeOK
<1>3. ASSUME NEW w \in Workers PROVE Placed(w)'
  BY <1>1 DEF IInv, Placed
<1>4. ASSUME NEW j \in Jobs PROVE RowAt(j)'
  <2>1. j \in Workers /\ RowAt(j)
    BY DEF IInv, Workers
  <2>2. Poisoned(j) => Poisoned(j)'
    BY <1>1 DEF Poisoned
  <2>3. QED
    BY <1>1, <2>1, <2>2 DEF RowAt
<1>5. Races'
  BY <1>1, RacesKeep
<1>6. QED
  BY <1>2, <1>3, <1>4, <1>5 DEF IInv

-----------------------------------------------------------------------------
(* The theorems.                                                           *)

LEMMA Inductive == Spec => []IInv
<1> USE CorpusConstantsOK
<1>1. Init => IInv
  <2> SUFFICES ASSUME Init PROVE IInv
    OBVIOUS
  <2>1. TypeOK
    <3>1. <<>> \in Seq(Docs) /\ Len(<<>>) = 0
      OBVIOUS
    <3>2. QED
      BY <3>1 DEF Init, TypeOK
  <2>2. \A w \in Workers : Placed(w)
    BY DEF Init, Placed
  <2>3. \A j \in Jobs : RowAt(j)
    BY DEF Init, RowAt, Workers
  <2>4. Races
    BY DEF Init, Races
  <2>5. QED
    BY <2>1, <2>2, <2>3, <2>4 DEF IInv
<1>2. IInv /\ [Next]_vars => IInv'
  <2> SUFFICES ASSUME IInv, [Next]_vars PROVE IInv'
    OBVIOUS
  <2>1. ASSUME NEW j \in Jobs, NEW b \in Batches, CreateRun(j, b) \/ CreateFails(j, b)
        PROVE  IInv'
    BY <2>1, CreateKeeps
  <2>2. ASSUME NEW c \in Clients, NEW d \in Docs, SubmitIngest(c, d) PROVE IInv'
    BY <2>2, SubmitKeeps
  <2>3. ASSUME NEW w \in Workers, WorkerStep(w) PROVE IInv'
    <3>1. CASE CheckDuplicate(w)
      BY <3>1, CheckKeeps
    <3>2. CASE Persist(w)
      BY <3>2, PersistKeeps
    <3>3. CASE IngestFails(w)
      BY <3>3, FailKeeps
    <3>4. CASE w \in Jobs /\ (Start(w) \/ Progress(w) \/ Finish(w) \/ MarkFailed(w))
      BY <3>4, UpdateKeeps
    <3>5. QED
      BY <2>3, <3>1, <3>2, <3>3, <3>4 DEF WorkerStep
  <2>4. CASE Restart
    BY <2>4, RestartKeeps
  <2>5. CASE UNCHANGED vars
    BY <2>5 DEF vars, IInv, TypeOK, Placed, RowAt, Poisoned, Races, Current
  <2>6. QED
    BY <2>1, <2>2, <2>3, <2>4, <2>5 DEF Next
<1>3. QED
  BY <1>1, <1>2, PTL DEF Spec

\* The state stays typed: in particular no task ever passes the end of its
\* batch or counts more documents indexed than handled.
THEOREM TypeCorrect == Spec => []TypeOK
<1>1. IInv => TypeOK
  BY DEF IInv
<1>2. QED
  BY <1>1, Inductive, PTL

\* A completed job's documents are all in the corpus, also when later updates
\* of its row fail (corpus_index.py 75-84).
THEOREM CompletionIsReal == Spec => []CompletedIsIndexed
<1>1. IInv => CompletedIsIndexed
  BY DEF IInv, TypeOK, Placed, RowAt, CompletedIsIndexed, Workers
<1>2. QED
  BY <1>1, Inductive, PTL

\* What a poller has seen counted is in the corpus (index_service.py 76-77).
THEOREM CountsAreReal == Spec => []ProgressIsReal
<1>1. IInv => ProgressIsReal
  <2> SUFFICES ASSUME IInv, NEW j \in Jobs, NEW i \in 1..Len(batch[j]),
                      i <= job[j].processed
               PROVE  rows[batch[j][i]] > 0
    BY DEF ProgressIsReal
  <2>1. job[j].processed \in Nat /\ pos[j] \in Nat /\ job[j].processed <= pos[j]
    BY DEF IInv, TypeOK, RowAt, Workers
  <2>2. i <= pos[j] /\ Placed(j)
    BY <2>1 DEF IInv, Workers
  <2>3. QED
    BY <2>2 DEF Placed
<1>2. QED
  BY <1>1, Inductive, PTL

\* Only overlapping transactions leave a path with two documents
\* (ingest_service.py 62-67).
THEOREM DuplicatesAreRaces == Spec => []DuplicatesNeedRace
<1>1. IInv => DuplicatesNeedRace
  BY DEF IInv, Races, DuplicatesNeedRace
<1>2. QED
  BY <1>1, Inductive, PTL

\* No job fails over documents that are merely present (index_service.py 73).
THEOREM FailuresAreCaused == Spec => []FailuresHaveCause
<1>1. IInv => FailuresHaveCause
  BY DEF IInv, RowAt, Poisoned, FailuresHaveCause
<1>2. QED
  BY <1>1, Inductive, PTL

\* The expansion's rows implement JobLifecycle, step by step.
THEOREM RefinesLifecycle == Spec => LifecycleKept
<1> USE CorpusConstantsOK
<1> DEFINE S == [j \in Jobs |-> job[j].status]
           P == [j \in Jobs |-> job[j].processed]
<1>1. Init => Lifecycle!Init
  BY DEF Init, Lifecycle!Init
<1>2. IInv /\ [Next]_vars => [Lifecycle!Next]_<<S, P>>
  <2> SUFFICES ASSUME IInv, [Next]_vars PROVE Lifecycle!Next \/ UNCHANGED <<S, P>>
    OBVIOUS
  <2>1. ASSUME UNCHANGED job PROVE UNCHANGED <<S, P>>
    BY <2>1
  <2>2. \A j \in Jobs : /\ job[j] \in [status : Status, processed : Nat]
                        /\ S[j] = job[j].status /\ P[j] = job[j].processed
                        /\ pos[j] \in Nat /\ indexed[j] \in Nat /\ RowAt(j)
    BY DEF IInv, TypeOK, Workers
  <2>3. ASSUME NEW j \in Jobs, NEW b \in Batches, CreateRun(j, b) \/ CreateFails(j, b)
        PROVE  Lifecycle!Create(j)
    <3>1. /\ job' = [job EXCEPT ![j] = [status |-> "pending", processed |-> 0]]
          /\ pc[j] = "idle"
      BY <2>3 DEF CreateRun, CreateFails
    <3>2. S[j] = "none" /\ P[j] = 0
      BY <2>2, <3>1 DEF RowAt
    <3>3. S' = [S EXCEPT ![j] = "pending"] /\ P' = [P EXCEPT ![j] = 0]
      BY <3>1 DEF IInv, TypeOK
    <3>4. P' = P
      BY <3>2, <3>3
    <3>5. QED
      BY <3>2, <3>3, <3>4 DEF Lifecycle!Create, Lifecycle!Move
  <2>4. ASSUME NEW j \in Jobs, Start(j)
        PROVE  Lifecycle!Start(j) \/ UNCHANGED <<S, P>>
    <3>1. \/ job' = job
          \/ job' = [job EXCEPT ![j] = [job[j] EXCEPT !.status = "running"]]
      BY <2>4 DEF Start, JobUpdate
    <3>2. S[j] = "pending"
      BY <2>2, <2>4 DEF RowAt, Start
    <3>3. CASE job' = [job EXCEPT ![j] = [job[j] EXCEPT !.status = "running"]]
      <4>1. S' = [S EXCEPT ![j] = "running"] /\ P' = P
        BY <2>2, <3>3 DEF IInv, TypeOK
      <4>2. QED
        BY <3>2, <4>1 DEF Lifecycle!Start, Lifecycle!Move
    <3>4. QED
      BY <2>1, <3>1, <3>3
  <2>5. ASSUME NEW j \in Jobs, Progress(j)
        PROVE  Lifecycle!Advance(j) \/ UNCHANGED <<S, P>>
    <3>1. \/ job' = job
          \/ job' = [job EXCEPT ![j] = [job[j] EXCEPT !.processed = pos[j]]]
      BY <2>5 DEF Progress, JobUpdate
    <3>2. S[j] = "running" /\ pos[j] = P[j] + 1
      BY <2>2, <2>5 DEF RowAt, Progress
    <3>3. CASE job' = [job EXCEPT ![j] = [job[j] EXCEPT !.processed = pos[j]]]
      <4>1. S' = S /\ P' = [P EXCEPT ![j] = P[j] + 1]
        BY <2>2, <3>2, <3>3 DEF IInv, TypeOK
      <4>2. QED
        BY <3>2, <4>1 DEF Lifecycle!Advance
    <3>4. QED
      BY <2>1, <3>1, <3>3
  <2>6. ASSUME NEW j \in Jobs, Finish(j)
        PROVE  Lifecycle!Complete(j) \/ UNCHANGED <<S, P>>
    <3>1. \/ job' = job
          \/ job' = [job EXCEPT ![j] = [status |-> "completed", processed |-> indexed[j]]]
      BY <2>6 DEF Finish, JobUpdate
    <3>2. S[j] = "running"
      BY <2>2, <2>6 DEF RowAt, Finish
    <3>3. CASE job' = [job EXCEPT ![j] = [status |-> "completed", processed |-> indexed[j]]]
      <4>1. /\ S' = [S EXCEPT ![j] = "completed"]
            /\ P' \in [Jobs -> Nat]
            /\ \A i \in Jobs \ {j} : P'[i] = P[i]
        BY <2>2, <3>3 DEF IInv, TypeOK
      <4>2. QED
        BY <3>2, <4>1 DEF Lifecycle!Complete, Lifecycle!Move
    <3>4. QED
      BY <2>1, <3>1, <3>3
  <2>7. ASSUME NEW j \in Jobs, MarkFailed(j)
        PROVE  Lifecycle!Fail(j) \/ UNCHANGED <<S, P>>
    <3>1. \/ job' = job
          \/ job' = [job EXCEPT ![j] = [job[j] EXCEPT !.status = "failed"]]
      BY <2>7 DEF MarkFailed, JobUpdate
    <3>2. S[j] = "running" \/ (LostAcks /\ S[j] = "completed")
      BY <2>2, <2>7 DEF RowAt, MarkFailed
    <3>3. CASE job' = [job EXCEPT ![j] = [job[j] EXCEPT !.status = "failed"]]
      <4>1. S' = [S EXCEPT ![j] = "failed"] /\ P' = P
        BY <2>2, <3>3 DEF IInv, TypeOK
      <4>2. QED
        BY <3>2, <4>1 DEF Lifecycle!Fail, Lifecycle!Move
    <3>4. QED
      BY <2>1, <3>1, <3>3
  <2>8. ASSUME NEW c \in Clients, NEW d \in Docs, SubmitIngest(c, d) PROVE UNCHANGED job
    BY <2>8 DEF SubmitIngest
  <2>9. ASSUME NEW w \in Workers, CheckDuplicate(w) \/ Persist(w) \/ IngestFails(w)
         PROVE  UNCHANGED job
    BY <2>9 DEF CheckDuplicate, Persist, IngestFails
  <2>10. CASE Restart \/ UNCHANGED vars
    BY <2>1, <2>10 DEF Restart, vars
  <2> HIDE DEF S, P
  <2>11. QED
    BY <2>1, <2>3, <2>4, <2>5, <2>6, <2>7, <2>8, <2>9, <2>10
       DEF Next, WorkerStep, Lifecycle!Next
<1>3. QED
  BY <1>1, <1>2, Inductive, PTL DEF Spec, LifecycleKept, Lifecycle!Spec, Lifecycle!vars

-----------------------------------------------------------------------------
(* Index runs.  The service of IndexRuns takes the steps of CorpusIndex.    *)

\* Whatever is proved of the corpus holds under the Rails client, too.
THEOREM RunsDriveCorpus == SpecRuns => Spec
<1>1. InitRuns => Init
  BY DEF InitRuns
<1>2. [NextRuns]_allVars => [Next]_vars
  <2> SUFFICES ASSUME [NextRuns]_allVars PROVE [Next]_vars
    OBVIOUS
  <2>1. ASSUME NEW j \in Jobs, FetchBefore(j) \/ CreateRow(j) \/ \E g \in Pages : Show(g, j)
        PROVE  UNCHANGED vars
    BY <2>1 DEF FetchBefore, CreateRow, Show
  <2>2. ASSUME NEW j \in Jobs, NEW b \in Batches, StartExpansion(j, b) PROVE [Next]_vars
    BY <2>2 DEF StartExpansion, Next
  <2>3. ASSUME NEW p \in Pollers, PollStep(p) PROVE UNCHANGED vars
    BY <2>3 DEF PollStep, Find, AskJob, FetchStats, CallFails, UpdateRun
  <2>4. CASE ServiceStep
    BY <2>4 DEF ServiceStep, Next
  <2>5. CASE UNCHANGED allVars
    BY <2>5 DEF allVars
  <2>6. QED
    BY <2>1, <2>2, <2>3, <2>4, <2>5 DEF NextRuns
<1>3. QED
  BY <1>1, <1>2, PTL DEF SpecRuns, Spec

\* How many documents j is known to have added since its `before` was taken.
Growth(j) == before[j] + indexed[j]

\* The row of a run, beside the request that created it and the job it follows.
RunSound(j) ==
  /\ form[j] \in {"idle", "post"} => pc[j] = "idle"
  /\ form[j] # "idle" => Growth(j) <= TotalChunks
  /\ form[j] \in {"save", "done"} => job[j].status # "none"
  /\ form[j] # "done" => run[j] = NoRun
  /\ run[j] # NoRun =>
       /\ run[j].before = before[j]
       /\ run[j].after # NoStats => job[j].status \in Terminal /\ run[j].after >= Growth(j)
       /\ run[j].status \in Terminal =>
            run[j].after # NoStats /\ OutcomeOf(run[j].status, j)

\* What a poll holds: it loaded an open run, and what it saw of an ended job is
\* final.
PollSound(p) ==
  LET q == poll[p] IN
  q # Idle =>
    /\ run[q.of] # NoRun
    /\ q.loaded.status \notin Terminal
    /\ q.loaded.after # NoStats => run[q.of].after # NoStats
    /\ q.at = "ask" => q.stats = NoStats
    /\ q.at = "stats" => q.seen.status \in Terminal /\ q.stats = NoStats
    /\ q.at = "update" => (q.stats # NoStats <=> q.seen.status \in Terminal)
    /\ q.at # "ask" /\ q.seen.status \in Terminal =>
         job[q.of].status \in Terminal /\ OutcomeOf(q.seen.status, q.of)
    /\ q.stats # NoStats => q.stats >= Growth(q.of)


\* A page that waits for an answer is open, and shows a run that exists.
PagesOK ==
  /\ page \in [Pages -> Page \cup {Away}]
  /\ caller \in [Pollers -> Pages \cup {NoPage}]
  /\ \A p \in Pollers : caller[p] # NoPage => page[caller[p]] # Away
  /\ \A g \in Pages : page[g] # Away => page[g].of \in Jobs /\ run[page[g].of] # NoRun

RunsInv ==
  /\ IInv
  /\ RunsTypeOK
  /\ PagesOK
  /\ IsFiniteSet(Documents)
  /\ \A j \in Jobs : RunSound(j)
  /\ \A p \in Pollers : PollSound(p)

-----------------------------------------------------------------------------
(* What a step of the corpus means to a run.                               *)

\* Adding a document to a path adds one row to the table.
LEMMA OneMoreRow ==
  ASSUME NEW d \in Docs, rows \in [Docs -> Nat], IsFiniteSet(Documents),
         rows' = [rows EXCEPT ![d] = @ + 1]
  PROVE  IsFiniteSet(Documents') /\ TotalChunks' = TotalChunks + 1
<1>1. Documents' = Documents \cup {<<d, rows[d] + 1>>}
  BY DEF Documents
<1>2. <<d, rows[d] + 1>> \notin Documents
  BY DEF Documents
<1> QED
  BY <1>1, <1>2, FS_AddElement DEF TotalChunks

LEMMA TotalIsNat ==
  ASSUME IsFiniteSet(Documents)
  PROVE  TotalChunks \in Nat
BY FS_CardinalityType DEF TotalChunks

\* What has raised stays on record.
LEMMA RaisedGrows ==
  ASSUME IInv, [Next]_vars
  PROVE  \A w \in Workers : raised[w] \subseteq raised'[w]
<1>1. raised \in [Workers -> SUBSET FaultPoints]
  BY DEF IInv, TypeOK
<1>2. \/ raised' = raised
      \/ \E w \in Workers : \E c : raised' = [raised EXCEPT ![w] = @ \cup {c}]
  <2>1. ASSUME NEW j \in Jobs, NEW b \in Batches, CreateRun(j, b) \/ CreateFails(j, b)
        PROVE  <1>2!1 \/ <1>2!2
    BY <2>1 DEF CreateRun, CreateFails, Blame, Workers
  <2>2. ASSUME NEW w \in Workers, WorkerStep(w)
        PROVE  <1>2!1 \/ <1>2!2
    BY <2>2 DEF WorkerStep, CheckDuplicate, Persist, IngestFails, Start, Progress, Finish,
                MarkFailed, JobUpdate, Blame
  <2>3. ASSUME NEW c \in Clients, NEW d \in Docs, SubmitIngest(c, d)
        PROVE  raised' = raised
    BY <2>3 DEF SubmitIngest
  <2>4. CASE Restart \/ UNCHANGED vars
    BY <2>4 DEF Restart, vars
  <2> QED
    BY <2>1, <2>2, <2>3, <2>4 DEF Next
<1> QED
  BY <1>1, <1>2

\* The outcome of a job stays, but for the acknowledgement of its completion
\* that got lost, and remains what a run may show.
LEMMA OutcomeStays ==
  ASSUME IInv, [Next]_vars, NEW j \in Jobs, job[j].status \in Terminal
  PROVE  /\ job'[j].status \in Terminal
         /\ \A s : OutcomeOf(s, j) => OutcomeOf(s, j)'
<1>1. \A i \in Jobs : RowAt(i) /\ job[i] \in [status : Status, processed : Nat]
  BY DEF IInv, TypeOK
<1>2. ASSUME NEW i \in Jobs, NEW b \in Batches, CreateRun(i, b) \/ CreateFails(i, b)
      PROVE  UNCHANGED job[j]
  <2>1. pc[i] = "idle" /\ job' = [job EXCEPT ![i] = [status |-> "pending", processed |-> 0]]
    BY <1>2 DEF CreateRun, CreateFails
  <2>2. i # j
    BY <1>1, <2>1 DEF RowAt, Terminal
  <2> QED
    BY <2>1, <2>2 DEF IInv, TypeOK
<1>3. ASSUME NEW i \in Jobs, Start(i) \/ Progress(i) \/ Finish(i)
      PROVE  UNCHANGED job[j]
  <2>1. job[i].status \notin Terminal
    BY <1>1, <1>3 DEF RowAt, Terminal, Start, Progress, Finish
  <2>2. \A k \in Jobs \ {i} : job'[k] = job[k]
    BY <1>3 DEF IInv, TypeOK, Start, Progress, Finish, JobUpdate
  <2> QED
    BY <2>1, <2>2
<1>4. ASSUME NEW i \in Jobs, MarkFailed(i)
      PROVE  \/ UNCHANGED job[j]
             \/ /\ job'[j].status = "failed"
                /\ job[j].status = "completed" /\ "finish" \in raised[j]
  <2>1. \/ job[i].status = "running"
        \/ job[i].status = "completed" /\ "finish" \in raised[i]
    BY <1>1, <1>4 DEF RowAt, MarkFailed
  <2>2. \/ UNCHANGED job
        \/ job' = [job EXCEPT ![i] = [job[i] EXCEPT !.status = "failed"]]
    BY <1>4 DEF MarkFailed, JobUpdate
  <2> QED
    BY <1>1, <2>1, <2>2 DEF IInv, TypeOK, Terminal
<1>5. ASSUME NEW w \in Workers, CheckDuplicate(w) \/ Persist(w) \/ IngestFails(w)
      PROVE  UNCHANGED job
  BY <1>5 DEF CheckDuplicate, Persist, IngestFails
<1>6. ASSUME NEW c \in Clients, NEW d \in Docs, SubmitIngest(c, d) PROVE UNCHANGED job
  BY <1>6 DEF SubmitIngest
<1>7. ASSUME Restart \/ UNCHANGED vars PROVE UNCHANGED job
  BY <1>7 DEF Restart, vars
<1>8. \/ UNCHANGED job[j]
      \/ job'[j].status = "failed" /\ job[j].status = "completed" /\ "finish" \in raised[j]
  BY <1>2, <1>3, <1>4, <1>5, <1>6, <1>7 DEF Next, WorkerStep
<1>9. raised[j] \subseteq raised'[j]
  BY RaisedGrows DEF Workers
<1> QED
  BY <1>8, <1>9 DEF OutcomeOf, Terminal

\* A job that was submitted stays so.
LEMMA SubmittedStays ==
  ASSUME IInv, [Next]_vars, NEW j \in Jobs, job[j].status # "none"
  PROVE  job'[j].status # "none"
<1>1. job \in [Jobs -> [status : Status, processed : Nat]]
  BY DEF IInv, TypeOK
<1>2. ASSUME NEW i \in Jobs, NEW b \in Batches, CreateRun(i, b) \/ CreateFails(i, b)
      PROVE  job'[j].status # "none"
  BY <1>1, <1>2 DEF CreateRun, CreateFails
<1>3. ASSUME NEW i \in Jobs, NEW written \in [status : Status \ {"none"}, processed : Nat],
             NEW next, NEW handler, JobUpdate(i, written, next, handler)
      PROVE  job'[j].status # "none"
  BY <1>1, <1>3 DEF JobUpdate
<1>4. ASSUME NEW i \in Jobs, Start(i) \/ Progress(i) \/ Finish(i) \/ MarkFailed(i)
      PROVE  job'[j].status # "none"
  <2>1. /\ [job[i] EXCEPT !.status = "running"] \in [status : Status \ {"none"}, processed : Nat]
        /\ [job[i] EXCEPT !.status = "failed"] \in [status : Status \ {"none"}, processed : Nat]
        /\ [status |-> "completed", processed |-> indexed[i]]
             \in [status : Status \ {"none"}, processed : Nat]
    BY <1>1 DEF IInv, TypeOK, Workers
  <2>2. CASE Progress(i)
    <3>1. job[i].status = "running" /\ pos[i] \in Nat
      BY <2>2 DEF IInv, TypeOK, RowAt, Progress, Workers
    <3>2. [job[i] EXCEPT !.processed = pos[i]] \in [status : Status \ {"none"}, processed : Nat]
      BY <1>1, <3>1
    <3> QED
      BY <1>3, <2>2, <3>2 DEF Progress
  <2>3. CASE Start(i)
    BY <1>3, <2>1, <2>3 DEF Start
  <2>4. CASE Finish(i)
    BY <1>3, <2>1, <2>4 DEF Finish
  <2>5. CASE MarkFailed(i)
    BY <1>3, <2>1, <2>5 DEF MarkFailed
  <2> QED
    BY <1>4, <2>2, <2>3, <2>4, <2>5
<1>5. ASSUME NEW w \in Workers, CheckDuplicate(w) \/ Persist(w) \/ IngestFails(w)
      PROVE  UNCHANGED job
  BY <1>5 DEF CheckDuplicate, Persist, IngestFails
<1>6. ASSUME NEW c \in Clients, NEW d \in Docs, SubmitIngest(c, d) PROVE UNCHANGED job
  BY <1>6 DEF SubmitIngest
<1>7. CASE Restart \/ UNCHANGED vars
  BY <1>7 DEF Restart, vars
<1> QED
  BY <1>2, <1>4, <1>5, <1>6, <1>7 DEF Next, WorkerStep

\* A step that counts a document of a job adds one to the corpus, and the job
\* had not ended; no step takes one away.
LEMMA GrowthStays ==
  ASSUME IInv, IsFiniteSet(Documents), [Next]_vars, CorpusConstantsOK
  PROVE  /\ IsFiniteSet(Documents')
         /\ TotalChunks' >= TotalChunks
         /\ \A j \in Jobs :
              \/ indexed'[j] = indexed[j]
              \/ /\ indexed'[j] = indexed[j] + 1 /\ TotalChunks' = TotalChunks + 1
                 /\ job[j].status \notin Terminal
<1>1. rows \in [Docs -> Nat] /\ indexed \in [Workers -> Nat] /\ TotalChunks \in Nat
  BY TotalIsNat DEF IInv, TypeOK
<1>2. ASSUME UNCHANGED <<rows, indexed>>
      PROVE  /\ UNCHANGED <<Documents, TotalChunks>>
             /\ \A j \in Jobs : indexed'[j] = indexed[j]
  BY <1>2 DEF Documents, TotalChunks
<1>3. ASSUME NEW w \in Workers, Persist(w)
      PROVE  /\ IsFiniteSet(Documents') /\ TotalChunks' = TotalChunks + 1
             /\ \A j \in Jobs : \/ indexed'[j] = indexed[j]
                                \/ /\ indexed'[j] = indexed[j] + 1
                                   /\ job[j].status \notin Terminal
  <2>1. Current(w) \in Docs
    BY <1>3, CurrentIsDoc DEF Persist
  <2>2. IsFiniteSet(Documents') /\ TotalChunks' = TotalChunks + 1
    BY <1>1, <1>3, <2>1, OneMoreRow DEF Persist
  <2>3. w \in Jobs => job[w].status \notin Terminal
    BY <1>3 DEF IInv, RowAt, Persist, Terminal
  <2> QED
    BY <1>1, <1>3, <2>2, <2>3 DEF Persist, Workers
<1>4. ASSUME NEW w \in Workers, IngestFails(w)
      PROVE  /\ IsFiniteSet(Documents') /\ TotalChunks' >= TotalChunks
             /\ indexed' = indexed
  <2>1. Current(w) \in Docs
    BY <1>4, CurrentIsDoc DEF IngestFails
  <2>2. CASE UNCHANGED rows
    BY <1>1, <1>2, <1>4, <2>2 DEF IngestFails
  <2>3. CASE rows' = [rows EXCEPT ![Current(w)] = @ + 1]
    <3>1. IsFiniteSet(Documents') /\ TotalChunks' = TotalChunks + 1
      BY <1>1, <2>1, <2>3, OneMoreRow
    <3> QED
      BY <1>1, <1>4, <3>1 DEF IngestFails
  <2> QED
    BY <1>4, <2>2, <2>3 DEF IngestFails
<1>5. ASSUME NEW w \in Workers, WorkerStep(w), ~Persist(w), ~IngestFails(w)
      PROVE  UNCHANGED <<rows, indexed>>
  BY <1>5 DEF WorkerStep, CheckDuplicate, Start, Progress, Finish, MarkFailed
<1>6. ASSUME NEW j \in Jobs, NEW b \in Batches, CreateRun(j, b) \/ CreateFails(j, b)
      PROVE  UNCHANGED <<rows, indexed>>
  BY <1>6 DEF CreateRun, CreateFails
<1>7. ASSUME NEW c \in Clients, NEW d \in Docs, SubmitIngest(c, d)
      PROVE  UNCHANGED <<rows, indexed>>
  BY <1>7 DEF SubmitIngest
<1>8. CASE Restart \/ UNCHANGED vars
  BY <1>1, <1>2, <1>8 DEF Restart, vars
<1>9. CASE \E w \in Workers : WorkerStep(w)
  BY <1>1, <1>2, <1>3, <1>4, <1>5, <1>9
<1> QED
  BY <1>1, <1>2, <1>6, <1>7, <1>8, <1>9 DEF Next

\* A run, and a poll, that a step of the corpus leaves alone stay sound.
LEMMA RunKept ==
  ASSUME RunsInv, CorpusConstantsOK, IndexRunsConstantsOK, [Next]_vars, NEW j \in Jobs,
         form'[j] = form[j], before'[j] = before[j], run'[j] = run[j],
         form[j] \in {"idle", "post"} => pc'[j] = "idle"
  PROVE  RunSound(j)'
<1>1. /\ IInv /\ IsFiniteSet(Documents) /\ RunSound(j)
      /\ before[j] \in Nat /\ indexed[j] \in Nat /\ TotalChunks \in Nat
      /\ run[j] # NoRun => run[j] \in Run
  BY TotalIsNat DEF RunsInv, RunsTypeOK, IInv, TypeOK, Workers
<1>2. /\ IsFiniteSet(Documents')
      /\ TotalChunks' >= TotalChunks
      /\ \/ indexed'[j] = indexed[j]
         \/ /\ indexed'[j] = indexed[j] + 1 /\ TotalChunks' = TotalChunks + 1
            /\ job[j].status \notin Terminal
  BY <1>1, GrowthStays
<1>3. TotalChunks' \in Nat
  BY <1>2, FS_CardinalityType DEF TotalChunks
<1>4. form[j] # "idle" => Growth(j)' <= TotalChunks'
  BY <1>1, <1>2, <1>3 DEF RunSound, Growth
<1>5. job[j].status \in Terminal =>
        /\ job'[j].status \in Terminal
        /\ \A s : OutcomeOf(s, j) => OutcomeOf(s, j)'
        /\ Growth(j)' = Growth(j)
  BY <1>1, <1>2, OutcomeStays DEF Growth
<1>6. run[j] # NoRun /\ run[j].after # NoStats =>
        job'[j].status \in Terminal /\ run[j].after >= Growth(j)'
  BY <1>1, <1>5 DEF RunSound
<1>7. run[j] # NoRun /\ run[j].status \in Terminal =>
        run[j].after # NoStats /\ OutcomeOf(run[j].status, j)'
  BY <1>1, <1>5 DEF RunSound
<1>8. form[j] \in {"save", "done"} => job'[j].status # "none"
  BY <1>1, SubmittedStays DEF RunSound
<1> QED
  BY <1>1, <1>4, <1>6, <1>7, <1>8 DEF RunSound

LEMMA PollKept ==
  ASSUME RunsInv, CorpusConstantsOK, [Next]_vars, NEW p \in Pollers, poll'[p] = poll[p],
         poll[p] # Idle => LET j == poll[p].of IN
           /\ before'[j] = before[j]
           /\ run'[j] # NoRun /\ (run[j].after # NoStats => run'[j].after # NoStats)
  PROVE  PollSound(p)'
<1> SUFFICES ASSUME poll[p] # Idle PROVE PollSound(p)'
  BY DEF PollSound, Idle
<1> DEFINE j == poll[p].of
<1>1. /\ IInv /\ IsFiniteSet(Documents) /\ PollSound(p) /\ poll[p] \in Poll /\ j \in Jobs
      /\ before[j] \in Nat /\ indexed[j] \in Nat
  BY DEF RunsInv, RunsTypeOK, IInv, TypeOK, Workers, Poll
<1>2. \/ indexed'[j] = indexed[j]
      \/ indexed'[j] = indexed[j] + 1 /\ job[j].status \notin Terminal
  BY <1>1, GrowthStays
<1>3. job[j].status \in Terminal =>
        /\ job'[j].status \in Terminal
        /\ \A s : OutcomeOf(s, j) => OutcomeOf(s, j)'
        /\ Growth(j)' = Growth(j)
  BY <1>1, <1>2, OutcomeStays DEF Growth
<1>4. poll[p].stats # NoStats => job[j].status \in Terminal
  BY <1>1 DEF PollSound, Poll
<1> QED
  BY <1>1, <1>3, <1>4 DEF PollSound

-----------------------------------------------------------------------------
(* The requests of a run.                                                  *)

\* What holds of every step of the client that leaves the service alone.
LEMMA ServiceStays ==
  ASSUME RunsInv, UNCHANGED vars
  PROVE  /\ IInv' /\ IsFiniteSet(Documents') /\ [Next]_vars
         /\ TotalChunks' = TotalChunks
         /\ \A j \in Jobs : pc[j] = "idle" => pc'[j] = "idle"
<1>1. IInv'
  BY DEF RunsInv, vars, IInv, TypeOK, Placed, RowAt, Poisoned, Races, Current
<1>2. UNCHANGED <<Documents, TotalChunks>> /\ IsFiniteSet(Documents)
  BY DEF RunsInv, vars, Documents, TotalChunks
<1>3. [Next]_vars /\ \A j \in Jobs : pc[j] = "idle" => pc'[j] = "idle"
  BY DEF vars
<1> QED
  BY <1>1, <1>2, <1>3

LEMMA FormKeeps ==
  ASSUME RunsInv, CorpusConstantsOK, IndexRunsConstantsOK, NEW j \in Jobs,
         FetchBefore(j) \/ CreateRow(j)
  PROVE  RunsInv'
<1>1. UNCHANGED <<vars, poll, page, caller>>
  BY DEF FetchBefore, CreateRow
<1>1a. PagesOK'
  <2>1. \A i \in Jobs : run[i] # NoRun => run'[i] # NoRun
    <3>1. [status |-> "pending", processed |-> 0, before |-> before[j], after |-> NoStats] \in Run
      BY DEF RunsInv, RunsTypeOK, Run
    <3> QED
      BY <3>1 DEF FetchBefore, CreateRow, RunsInv, RunsTypeOK, IndexRunsConstantsOK
  <2> QED
    BY <1>1, <2>1 DEF RunsInv, PagesOK
<1>2. /\ IInv' /\ IsFiniteSet(Documents') /\ [Next]_vars /\ TotalChunks' = TotalChunks
      /\ \A i \in Jobs : pc[i] = "idle" => pc'[i] = "idle"
  BY <1>1, ServiceStays
<1>3. /\ RunSound(j) /\ Placed(j) /\ TotalChunks \in Nat /\ j \in Workers
      /\ indexed[j] \in Nat /\ pos[j] \in Nat /\ indexed[j] <= pos[j] /\ before[j] \in Nat
  BY TotalIsNat DEF RunsInv, RunsTypeOK, IInv, TypeOK, Workers
<1>4. RunsTypeOK'
  <2>1. CASE FetchBefore(j)
    BY <1>1, <1>3, <2>1 DEF RunsInv, RunsTypeOK, FetchBefore
  <2>2. CASE CreateRow(j)
    <3>1. [status |-> "pending", processed |-> 0, before |-> before[j], after |-> NoStats] \in Run
      BY <1>3 DEF Run
    <3> QED
      BY <1>1, <2>2, <3>1 DEF RunsInv, RunsTypeOK, CreateRow
  <2> QED
    BY <2>1, <2>2
<1>5. /\ run[j] = NoRun
      /\ \A i \in Jobs \ {j} : form'[i] = form[i] /\ before'[i] = before[i] /\ run'[i] = run[i]
  BY <1>3 DEF RunsInv, RunsTypeOK, FetchBefore, CreateRow, RunSound
<1>6. RunSound(j)'
  <2>1. CASE FetchBefore(j)
    <3>1. indexed[j] = 0 /\ pc[j] = "idle"
      BY <1>3, <2>1 DEF FetchBefore, RunSound, Placed
    <3>2. form'[j] = "post" /\ before'[j] = TotalChunks /\ run'[j] = NoRun /\ indexed'[j] = 0
      BY <1>1, <1>5, <2>1, <3>1 DEF FetchBefore, RunsInv, RunsTypeOK, vars
    <3> QED
      BY <1>2, <1>3, <3>1, <3>2 DEF RunSound, Growth
  <2>2. CASE CreateRow(j)
    <3>1. /\ form[j] = "save" /\ form'[j] = "done" /\ before'[j] = before[j]
          /\ run'[j] = [status |-> "pending", processed |-> 0, before |-> before[j], after |-> NoStats]
          /\ indexed'[j] = indexed[j] /\ job'[j] = job[j]
      BY <1>1, <2>2 DEF CreateRow, RunsInv, RunsTypeOK, vars
    <3>2. Growth(j)' <= TotalChunks'
      BY <1>2, <1>3, <3>1 DEF RunSound, Growth
    <3> QED
      BY <1>3, <3>1, <3>2 DEF RunSound, Terminal
  <2> QED
    BY <2>1, <2>2
<1>7. ASSUME NEW i \in Jobs \ {j} PROVE RunSound(i)'
  <2>1. form[i] \in {"idle", "post"} => pc'[i] = "idle"
    BY <1>2 DEF RunsInv, RunSound
  <2> QED
    BY <1>2, <1>5, <2>1, RunKept
<1>8. ASSUME NEW p \in Pollers PROVE PollSound(p)'
  <2>1. poll[p] # Idle => poll[p].of \in Jobs /\ run[poll[p].of] # NoRun
    BY DEF RunsInv, RunsTypeOK, PollSound, Poll
  <2> QED
    BY <1>1, <1>2, <1>5, <2>1, PollKept
<1> QED
  BY <1>1a, <1>2, <1>4, <1>6, <1>7, <1>8 DEF RunsInv

LEMMA StartKeeps ==
  ASSUME RunsInv, IInv', CorpusConstantsOK, IndexRunsConstantsOK, NEW j \in Jobs,
         NEW b \in Batches, StartExpansion(j, b)
  PROVE  RunsInv'
<1>1. [Next]_vars
  BY DEF StartExpansion, Next
<1>2. /\ form[j] = "post" /\ form'[j] \in {"save", "failed"}
      /\ form' = [form EXCEPT ![j] = form'[j]]
      /\ UNCHANGED <<before, run, poll, page, caller>>
      /\ UNCHANGED <<indexed, rows>>
  BY DEF StartExpansion, CreateRun, CreateFails, vars, RunsInv, RunsTypeOK
<1>3. UNCHANGED <<Documents, TotalChunks>>
  BY <1>2 DEF Documents, TotalChunks
<1>4. \A i \in Jobs \ {j} : pc'[i] = pc[i]
  BY DEF StartExpansion, CreateRun, CreateFails, Goto, vars, RunsInv, IInv, TypeOK, Workers
<1>5. RunsTypeOK'
  BY <1>2 DEF RunsInv, RunsTypeOK
<1>6. RunSound(j)'
  <2>1. form'[j] = "save" => job'[j].status # "none"
    BY DEF StartExpansion, CreateRun, RunsInv, RunsTypeOK, IInv, TypeOK
  <2> QED
    BY <1>2, <1>3, <2>1 DEF RunsInv, RunSound, Growth
<1>7. ASSUME NEW i \in Jobs \ {j} PROVE RunSound(i)'
  BY <1>1, <1>2, <1>4, RunKept DEF RunsInv, RunsTypeOK, RunSound
<1>8. ASSUME NEW p \in Pollers PROVE PollSound(p)'
  BY <1>1, <1>2, PollKept DEF RunsInv, PollSound
<1> QED
  BY <1>2, <1>3, <1>5, <1>6, <1>7, <1>8 DEF RunsInv, PagesOK

-----------------------------------------------------------------------------
(* The polls.                                                              *)

\* The row that UpdateRun writes.
LEMMA UpdateRunEffect ==
  ASSUME RunsInv, NEW p \in Pollers, UpdateRun(p), NEW j, j = poll[p].of
  PROVE  LET q == poll[p] IN
         /\ q \in Poll /\ q.at = "update" /\ PollSound(p)
         /\ j \in Jobs /\ run[j] \in Run /\ run[j] # NoRun
         /\ run' \in [Jobs -> Run \cup {NoRun}]
         /\ \A i \in Jobs \ {j} : run'[i] = run[i]
         /\ run'[j] \in Run /\ run'[j].before = run[j].before
         /\ run'[j].status = Write(run[j].status, q.loaded.status, q.seen.status)
         /\ run'[j].after = IF q.seen.status \in Terminal
                            THEN Write(run[j].after, q.loaded.after, q.stats) ELSE run[j].after
<1>1. poll[p] \in Poll /\ poll[p].at = "update" /\ PollSound(p) /\ poll[p] # Idle
  BY DEF UpdateRun, RunsInv, RunsTypeOK, Idle
<1>2. j \in Jobs /\ run[j] # NoRun /\ run \in [Jobs -> Run \cup {NoRun}]
  BY <1>1 DEF RunsInv, RunsTypeOK, PollSound, Poll
<1>3. run[j] \in Run
  BY <1>2
<1> DEFINE q == poll[p]
           n == [run[j] EXCEPT
                   !.status = Write(@, q.loaded.status, q.seen.status),
                   !.processed = Write(@, q.loaded.processed, q.seen.processed),
                   !.after = IF q.seen.status \in Terminal
                             THEN Write(@, q.loaded.after, q.stats) ELSE @]
<1>4. run' = [run EXCEPT ![j] = n]
  BY DEF UpdateRun
<1>5. n \in Run
  <2>1. /\ Write(run[j].status, q.loaded.status, q.seen.status) \in Status \ {"none"}
        /\ Write(run[j].processed, q.loaded.processed, q.seen.processed) \in Nat
        /\ Write(run[j].after, q.loaded.after, q.stats) \in Nat \cup {NoStats}
    BY <1>1, <1>3 DEF Run, Poll, Write
  <2> QED
    BY <1>3, <2>1 DEF Run
<1>6. /\ n.before = run[j].before
      /\ n.status = Write(run[j].status, q.loaded.status, q.seen.status)
      /\ n.after = IF q.seen.status \in Terminal
                   THEN Write(run[j].after, q.loaded.after, q.stats) ELSE run[j].after
  BY <1>3 DEF Run
<1> HIDE DEF n
<1> QED
  BY <1>1, <1>2, <1>3, <1>4, <1>5, <1>6

\* The pages stay typed, and open while a poll may answer them.
LEMMA PagesStay ==
  ASSUME RunsInv, IndexRunsConstantsOK, NEW p \in Pollers, PollStep(p)
  PROVE  PagesOK'
<1>1. PagesOK /\ page \in [Pages -> Page \cup {Away}] /\ caller \in [Pollers -> Pages \cup {NoPage}]
  BY DEF RunsInv, PagesOK
<1>1a. \A j \in Jobs : run[j] # NoRun => run'[j] # NoRun
  <2>1. CASE UpdateRun(p)
    BY <2>1, UpdateRunEffect DEF RunsInv, RunsTypeOK, IndexRunsConstantsOK
  <2>2. CASE UNCHANGED run
    BY <2>2
  <2> QED
    BY <2>1, <2>2 DEF PollStep, Find, AskJob, FetchStats, CallFails
<1>2. ASSUME NEW g \in Pages, page[g] # Away, page' = [page EXCEPT ![g].at = "reload"]
      PROVE  /\ page' \in [Pages -> Page \cup {Away}]
             /\ \A h \in Pages : /\ page[h] # Away <=> page'[h] # Away
                                 /\ page[h] # Away => page'[h].of = page[h].of
  <2>1. page[g] \in Page
    BY <1>1, <1>2
  <2>2. /\ [page[g] EXCEPT !.at = "reload"] \in Page
        /\ [page[g] EXCEPT !.at = "reload"].at = "reload"
        /\ [page[g] EXCEPT !.at = "reload"].of = page[g].of
    BY <2>1 DEF Page
  <2>3. [page[g] EXCEPT !.at = "reload"] # Away
    BY <2>2 DEF Away
  <2> QED
    BY <1>1, <1>2, <2>2, <2>3
<1>3. ASSUME NEW finished, Answer(p, finished) PROVE PagesOK'
  <2>1. caller' \in [Pollers -> Pages \cup {NoPage}]
        /\ \A o \in Pollers : caller'[o] = caller[o] \/ caller'[o] = NoPage
    BY <1>1, <1>3 DEF Answer
  <2>2. CASE page' = page
    BY <1>1, <1>1a, <2>1, <2>2 DEF PagesOK
  <2>3. CASE caller[p] # NoPage /\ page' = [page EXCEPT ![caller[p]].at = "reload"]
    <3>1. caller[p] \in Pages /\ page[caller[p]] # Away
      BY <1>1, <2>3 DEF PagesOK
    <3>2. /\ page' \in [Pages -> Page \cup {Away}]
          /\ \A h \in Pages : /\ page[h] # Away <=> page'[h] # Away
                              /\ page[h] # Away => page'[h].of = page[h].of
      BY <1>2, <2>3, <3>1
    <3>3. ASSUME NEW o \in Pollers, caller'[o] # NoPage PROVE page'[caller'[o]] # Away
      <4>1. caller'[o] = caller[o] /\ caller[o] \in Pages
        BY <1>1, <2>1, <3>3
      <4>2. page[caller[o]] # Away
        BY <1>1, <3>3, <4>1 DEF PagesOK
      <4> QED
        BY <3>2, <4>1, <4>2
    <3>4. ASSUME NEW h \in Pages, page'[h] # Away
          PROVE  page'[h].of \in Jobs /\ run'[page'[h].of] # NoRun
      <4>1. page[h] # Away /\ page'[h].of = page[h].of
        BY <3>2, <3>4
      <4>2. page[h].of \in Jobs /\ run[page[h].of] # NoRun
        BY <1>1, <4>1 DEF PagesOK
      <4> QED
        BY <1>1a, <4>1, <4>2
    <3> QED
      BY <2>1, <3>2, <3>3, <3>4 DEF PagesOK
  <2> QED
    BY <1>3, <2>2, <2>3 DEF Answer
<1>4. ASSUME NEW g \in Pages, NEW j \in Jobs, Find(p, g, j) PROVE PagesOK'
  <2>1. page[g] = [of |-> j, at |-> "polling"] /\ page[g] # Away
    BY <1>4 DEF Find, Away
  <2>2. CASE page' = [page EXCEPT ![g].at = "reload"] /\ caller' = caller
    <3>1. /\ page' \in [Pages -> Page \cup {Away}]
          /\ \A h \in Pages : /\ page[h] # Away <=> page'[h] # Away
                              /\ page[h] # Away => page'[h].of = page[h].of
      BY <1>2, <2>1, <2>2
    <3>2. ASSUME NEW o \in Pollers, caller'[o] # NoPage PROVE page'[caller'[o]] # Away
      <4>1. caller'[o] = caller[o] /\ caller[o] \in Pages
        BY <1>1, <2>2, <3>2
      <4>2. page[caller[o]] # Away
        BY <1>1, <3>2, <4>1, <2>2 DEF PagesOK
      <4> QED
        BY <3>1, <4>1, <4>2
    <3>3. ASSUME NEW h \in Pages, page'[h] # Away
          PROVE  page'[h].of \in Jobs /\ run'[page'[h].of] # NoRun
      <4>1. page[h] # Away /\ page'[h].of = page[h].of
        BY <3>1, <3>3
      <4>2. page[h].of \in Jobs /\ run[page[h].of] # NoRun
        BY <1>1, <4>1 DEF PagesOK
      <4> QED
        BY <1>1a, <4>1, <4>2
    <3>4. caller' \in [Pollers -> Pages \cup {NoPage}]
      BY <1>1, <2>2
    <3> QED
      BY <3>1, <3>2, <3>3, <3>4 DEF PagesOK
  <2>3. CASE page' = page /\ caller' = [caller EXCEPT ![p] = g]
    BY <1>1, <1>1a, <2>1, <2>3 DEF PagesOK
  <2> QED
    BY <1>4, <2>2, <2>3 DEF Find
<1>5. CASE AskJob(p) \/ FetchStats(p)
  BY <1>1, <1>1a, <1>5 DEF AskJob, FetchStats, PagesOK
<1> QED
  BY <1>3, <1>4, <1>5 DEF PollStep, CallFails, UpdateRun

LEMMA ShowKeeps ==
  ASSUME RunsInv, CorpusConstantsOK, IndexRunsConstantsOK, NEW g \in Pages, NEW j \in Jobs,
         Show(g, j)
  PROVE  RunsInv'
<1>1. UNCHANGED <<vars, form, before, run, poll>>
  BY DEF Show
<1>2. /\ IInv' /\ IsFiniteSet(Documents') /\ [Next]_vars
      /\ \A i \in Jobs : pc[i] = "idle" => pc'[i] = "idle"
  BY <1>1, ServiceStays
<1>3. PagesOK'
  <2> DEFINE shown == [of |-> j, at |-> IF run[j].status \in Terminal THEN "stopped" ELSE "polling"]
  <2>1. shown \in Page /\ shown # Away
    BY DEF Page, Away
  <2>2. page' = [page EXCEPT ![g] = shown]
        /\ caller' = [p \in Pollers |-> IF caller[p] = g THEN NoPage ELSE caller[p]]
    BY DEF Show
  <2>3. shown.of = j /\ run[j] # NoRun /\ run' = run
    BY DEF Show
  <2> HIDE DEF shown
  <2> QED
    BY <2>1, <2>2, <2>3 DEF RunsInv, PagesOK
<1>4. RunsTypeOK'
  BY <1>1, <1>3 DEF RunsInv, RunsTypeOK, PagesOK
<1>5. ASSUME NEW i \in Jobs PROVE RunSound(i)'
  BY <1>1, <1>2, RunKept DEF RunsInv, RunSound
<1>6. ASSUME NEW p \in Pollers PROVE PollSound(p)'
  BY <1>1, <1>2, PollKept DEF RunsInv, PollSound
<1> QED
  BY <1>2, <1>3, <1>4, <1>5, <1>6 DEF RunsInv

\* A poll that only changes what it holds itself.
LEMMA PollKeeps ==
  ASSUME RunsInv, CorpusConstantsOK, IndexRunsConstantsOK, NEW p \in Pollers,
         UNCHANGED <<vars, form, before, run>>, NEW q, poll' = [poll EXCEPT ![p] = q],
         q \in Poll \cup {Idle}, PollSound(p)', PagesOK'
  PROVE  RunsInv'
<1>1. /\ IInv' /\ IsFiniteSet(Documents') /\ [Next]_vars
      /\ \A j \in Jobs : pc[j] = "idle" => pc'[j] = "idle"
  BY ServiceStays
<1>2. RunsTypeOK'
  BY DEF RunsInv, RunsTypeOK, PagesOK
<1>3. ASSUME NEW j \in Jobs PROVE RunSound(j)'
  BY <1>1, RunKept DEF RunsInv, RunSound
<1>4. ASSUME NEW o \in Pollers \ {p} PROVE PollSound(o)'
  <2>1. poll'[o] = poll[o]
    BY DEF RunsInv, RunsTypeOK
  <2>2. poll[o] # Idle => run[poll[o].of] # NoRun
    BY DEF RunsInv, PollSound
  <2> QED
    BY <1>1, <2>1, <2>2, PollKept
<1> QED
  BY <1>1, <1>2, <1>3, <1>4 DEF RunsInv

LEMMA ReadKeeps ==
  ASSUME RunsInv, CorpusConstantsOK, IndexRunsConstantsOK, NEW p \in Pollers,
         (\E g \in Pages, j \in Jobs : Find(p, g, j)) \/ AskJob(p) \/ FetchStats(p) \/ CallFails(p)
  PROVE  RunsInv'
<1>0. PagesOK'
  BY PagesStay DEF PollStep
<1>1. UNCHANGED <<vars, form, before, run>> /\ UNCHANGED <<job, indexed, raised>>
  BY DEF Find, AskJob, FetchStats, CallFails, vars
<1>2. /\ poll \in [Pollers -> Poll \cup {Idle}]
      /\ \A j \in Jobs : run[j] # NoRun =>
           /\ run[j] \in Run /\ job[j] \in [status : Status \ {"none"}, processed : Nat]
           /\ Growth(j)' = Growth(j) /\ Growth(j) <= TotalChunks
  BY <1>1 DEF RunsInv, RunsTypeOK, RunSound, IInv, TypeOK, Growth
<1>3. ASSUME NEW g \in Pages, NEW j \in Jobs, Find(p, g, j) PROVE RunsInv'
  <2> DEFINE q == [at |-> "ask", of |-> j, loaded |-> run[j], seen |-> Unseen, stats |-> NoStats]
  <2>1. CASE poll' = poll
    <3>1. poll' = [poll EXCEPT ![p] = Idle] /\ poll'[p] = Idle
      BY <1>2, <1>3, <2>1 DEF Find
    <3> QED
      BY <1>0, <1>1, <3>1, PollKeeps DEF PollSound
  <2>2. CASE poll' = [poll EXCEPT ![p] = q] /\ run[j].status \notin Terminal
    <3>0. run[j] # NoRun /\ run[j] \in Run
      BY <1>2, <1>3 DEF RunsInv, PagesOK, Find, Away
    <3>1. q \in Poll /\ poll'[p] = q
      BY <1>2, <2>2, <3>0 DEF Poll, Unseen
    <3>2. PollSound(p)'
      BY <1>1, <2>2, <3>0, <3>1 DEF PollSound
    <3> QED
      BY <1>0, <1>1, <2>2, <3>1, <3>2, PollKeeps
  <2> QED
    BY <1>3, <2>1, <2>2 DEF Find
<1>4. ASSUME poll[p] # Idle, NEW j \in Jobs, j = poll[p].of, AskJob(p) PROVE RunsInv'
  <2>1. poll[p] \in Poll /\ PollSound(p) /\ run[j] # NoRun
    BY <1>2, <1>4 DEF RunsInv, PollSound
  <2> DEFINE q == [poll[p] EXCEPT !.seen = job[j],
                                  !.at = IF job[j].status \in Terminal THEN "stats" ELSE "update"]
  <2>2. q \in Poll /\ poll' = [poll EXCEPT ![p] = q] /\ poll'[p] = q
    BY <1>2, <1>4, <2>1 DEF AskJob, IndexJobView, Poll
  <2>3. PollSound(p)'
    BY <1>1, <1>4, <2>1, <2>2 DEF PollSound, AskJob, IndexJobView, Poll, OutcomeOf
  <2> QED
    BY <1>0, <1>1, <2>2, <2>3, PollKeeps
<1>5. ASSUME poll[p] # Idle, NEW j \in Jobs, j = poll[p].of, FetchStats(p) PROVE RunsInv'
  <2>1. poll[p] \in Poll /\ PollSound(p) /\ run[j] # NoRun
    BY <1>2, <1>5 DEF RunsInv, PollSound
  <2>2. TotalChunks \in Nat /\ TotalChunks # NoStats
    BY TotalIsNat DEF RunsInv, IndexRunsConstantsOK
  <2> DEFINE q == [poll[p] EXCEPT !.stats = TotalChunks, !.at = "update"]
  <2>3. q \in Poll /\ poll' = [poll EXCEPT ![p] = q] /\ poll'[p] = q
    BY <1>2, <1>5, <2>1, <2>2 DEF FetchStats, Poll
  <2>4. /\ q.of = j /\ q.seen = poll[p].seen /\ q.loaded = poll[p].loaded
        /\ q.stats = TotalChunks /\ q.at = "update"
    BY <1>5, <2>1 DEF Poll
  <2> HIDE DEF q
  <2>5. PollSound(p)'
    BY <1>1, <1>2, <1>5, <2>1, <2>2, <2>3, <2>4 DEF PollSound, FetchStats, OutcomeOf
  <2> QED
    BY <1>0, <1>1, <2>3, <2>5, PollKeeps
<1>6. CASE CallFails(p)
  <2>1. poll' = [poll EXCEPT ![p] = Idle] /\ poll'[p] = Idle
    BY <1>2, <1>6 DEF CallFails
  <2> QED
    BY <1>0, <1>1, <2>1, PollKeeps DEF PollSound
<1>7. poll[p] # Idle => poll[p].of \in Jobs
  BY <1>2 DEF Poll
<1> QED
  BY <1>3, <1>4, <1>5, <1>6, <1>7 DEF AskJob, FetchStats, Idle

LEMMA UpdateRunKeeps ==
  ASSUME RunsInv, CorpusConstantsOK, IndexRunsConstantsOK, NEW p \in Pollers, UpdateRun(p)
  PROVE  RunsInv'
<1>1. PICK j : j = poll[p].of
  OBVIOUS
<1>2. UNCHANGED <<vars, form, before>> /\ UNCHANGED <<job, indexed, raised>>
  BY DEF UpdateRun, vars
<1>3. /\ IInv' /\ IsFiniteSet(Documents') /\ [Next]_vars /\ TotalChunks' = TotalChunks
      /\ \A i \in Jobs : pc[i] = "idle" => pc'[i] = "idle"
  BY <1>2, ServiceStays
<1>4. /\ poll[p] \in Poll /\ poll[p].at = "update" /\ PollSound(p)
      /\ j \in Jobs /\ run[j] \in Run /\ run[j] # NoRun
      /\ \A i \in Jobs \ {j} : run'[i] = run[i]
      /\ run'[j] \in Run /\ run'[j].before = run[j].before
      /\ run'[j].status = Write(run[j].status, poll[p].loaded.status, poll[p].seen.status)
      /\ run'[j].after = IF poll[p].seen.status \in Terminal
                         THEN Write(run[j].after, poll[p].loaded.after, poll[p].stats) ELSE run[j].after
  BY <1>1, UpdateRunEffect
<1>4a. RunSound(j) /\ poll[p] # Idle
  BY <1>4 DEF RunsInv, Idle
<1>5a. PagesOK'
  BY PagesStay DEF PollStep
<1>5. RunsTypeOK'
  <2>1. run' \in [Jobs -> Run \cup {NoRun}]
    BY <1>1, UpdateRunEffect
  <2>2. poll' \in [Pollers -> Poll \cup {Idle}]
    BY DEF RunsInv, RunsTypeOK, UpdateRun
  <2> QED
    BY <1>2, <1>5a, <2>1, <2>2 DEF RunsInv, RunsTypeOK, PagesOK
<1>6. run'[j].after # NoStats \/ run[j].after = NoStats
  BY <1>4, <1>4a DEF PollSound, Write
<1>7. RunSound(j)'
  <2>1. Growth(j)' = Growth(j) /\ form'[j] = form[j] /\ form[j] = "done"
    BY <1>2, <1>4, <1>4a DEF Growth, RunSound
  <2>2. run'[j].after # NoStats => job[j].status \in Terminal /\ run'[j].after >= Growth(j)
    BY <1>1, <1>4, <1>4a DEF RunSound, PollSound, Write
  <2>3. run'[j].status \in Terminal =>
          run'[j].after # NoStats /\ OutcomeOf(run'[j].status, j)
    <3>1. CASE poll[p].seen.status \in Terminal
      BY <1>1, <1>4, <1>4a, <3>1 DEF RunSound, PollSound, Write
    <3>2. CASE poll[p].seen.status \notin Terminal
      BY <1>4, <1>4a, <3>2 DEF RunSound, Write
    <3> QED
      BY <3>1, <3>2
  <2>4. run'[j] # NoRun
    BY <1>4, <1>4a DEF IndexRunsConstantsOK
  <2> QED
    BY <1>2, <1>3, <1>4, <1>4a, <2>1, <2>2, <2>3, <2>4 DEF RunSound, OutcomeOf
<1>8. ASSUME NEW i \in Jobs \ {j} PROVE RunSound(i)'
  BY <1>2, <1>3, <1>4, <1>4a, RunKept DEF RunsInv, RunSound
<1>9. ASSUME NEW o \in Pollers PROVE PollSound(o)'
  <2>1. CASE poll'[o] = Idle
    BY <2>1 DEF PollSound
  <2>2. CASE poll'[o] # Idle
    <3>1. poll'[o] = poll[o]
      BY <2>2 DEF UpdateRun, RunsInv, RunsTypeOK
    <3>2. poll[o].of \in Jobs /\ run[poll[o].of] # NoRun
      BY <2>2, <3>1 DEF RunsInv, RunsTypeOK, PollSound, Poll
    <3>3. run'[poll[o].of] # NoRun /\ (run[poll[o].of].after # NoStats => run'[poll[o].of].after # NoStats)
      BY <1>4, <1>4a, <1>6, <3>2 DEF IndexRunsConstantsOK
    <3> QED
      BY <1>2, <1>3, <3>1, <3>3, PollKept
  <2> QED
    BY <2>1, <2>2
<1> QED
  BY <1>3, <1>5, <1>5a, <1>7, <1>8, <1>9 DEF RunsInv

LEMMA ServiceKeeps ==
  ASSUME RunsInv, IInv', CorpusConstantsOK, IndexRunsConstantsOK, ServiceStep
  PROVE  RunsInv'
<1>1. [Next]_vars /\ UNCHANGED <<form, before, run, poll, page, caller>>
  BY DEF ServiceStep, Next, railsVars
<1>2. IsFiniteSet(Documents')
  BY <1>1, GrowthStays DEF RunsInv
<1>3. ASSUME NEW j \in Jobs, pc[j] = "idle" PROVE pc'[j] = "idle"
  <2>1. \A w \in Workers : WorkerStep(w) => pc[w] # "idle"
    BY DEF WorkerStep, CheckDuplicate, Persist, IngestFails, Start, Progress, Finish, MarkFailed
  <2>2. ASSUME NEW w \in Workers, WorkerStep(w) PROVE pc'[j] = "idle"
    <3>1. \E l : pc' = [pc EXCEPT ![w] = l]
      BY <2>2 DEF WorkerStep, CheckDuplicate, Persist, IngestFails, Start, Progress, Finish,
                  MarkFailed, JobUpdate, Goto, Raise
    <3> QED
      BY <1>3, <2>1, <2>2, <3>1 DEF RunsInv, IInv, TypeOK, Workers
  <2>3. ASSUME NEW c \in Clients, NEW d \in Docs, SubmitIngest(c, d) PROVE pc'[j] = "idle"
    BY <1>3, <2>3 DEF SubmitIngest, Goto, CorpusConstantsOK, RunsInv, IInv, TypeOK, Workers
  <2>4. CASE Restart
    BY <1>3, <2>4 DEF Restart, Workers
  <2> QED
    BY <2>2, <2>3, <2>4 DEF ServiceStep
<1>4. RunsTypeOK'
  BY <1>1 DEF RunsInv, RunsTypeOK
<1>5. ASSUME NEW j \in Jobs PROVE RunSound(j)'
  BY <1>1, <1>3, RunKept DEF RunsInv, RunSound
<1>6. ASSUME NEW p \in Pollers PROVE PollSound(p)'
  BY <1>1, PollKept DEF RunsInv, PollSound
<1> QED
  BY <1>1, <1>2, <1>4, <1>5, <1>6 DEF RunsInv, PagesOK

-----------------------------------------------------------------------------
(* The theorems about runs.                                                *)

LEMMA RunsInductive == SpecRuns => []RunsInv
<1> USE CorpusConstantsOK, IndexRunsConstantsOK
<1>1. InitRuns /\ IInv => RunsInv
  <2> SUFFICES ASSUME InitRuns, IInv PROVE RunsInv
    OBVIOUS
  <2>1. RunsTypeOK
    BY DEF InitRuns, RunsTypeOK
  <2>2. Documents = {}
    BY DEF InitRuns, Init, Documents
  <2>3. IsFiniteSet(Documents)
    BY <2>2, FS_EmptySet
  <2>3a. PagesOK
    BY DEF InitRuns, PagesOK
  <2>4. ASSUME NEW j \in Jobs PROVE RunSound(j)
    BY DEF InitRuns, Init, RunSound, Workers
  <2>5. ASSUME NEW p \in Pollers PROVE PollSound(p)
    BY DEF InitRuns, PollSound
  <2> QED
    BY <2>1, <2>3, <2>3a, <2>4, <2>5 DEF RunsInv
<1>2. RunsInv /\ IInv' /\ [NextRuns]_allVars => RunsInv'
  <2> SUFFICES ASSUME RunsInv, IInv', [NextRuns]_allVars PROVE RunsInv'
    OBVIOUS
  <2>1. ASSUME NEW j \in Jobs, FetchBefore(j) \/ CreateRow(j) PROVE RunsInv'
    BY <2>1, FormKeeps
  <2>2. ASSUME NEW j \in Jobs, NEW b \in Batches, StartExpansion(j, b) PROVE RunsInv'
    BY <2>2, StartKeeps
  <2>2a. ASSUME NEW g \in Pages, NEW j \in Jobs, Show(g, j) PROVE RunsInv'
    BY <2>2a, ShowKeeps
  <2>3. ASSUME NEW p \in Pollers, PollStep(p) PROVE RunsInv'
    BY <2>3, ReadKeeps, UpdateRunKeeps DEF PollStep
  <2>4. CASE ServiceStep
    BY <2>4, ServiceKeeps
  <2>5. CASE UNCHANGED allVars
    <3>1. UNCHANGED <<vars, form, before, run, poll, page, caller>>
      BY <2>5 DEF allVars, railsVars
    <3>2. /\ IsFiniteSet(Documents') /\ [Next]_vars
          /\ \A j \in Jobs : pc[j] = "idle" => pc'[j] = "idle"
      BY <3>1, ServiceStays
    <3>3. RunsTypeOK'
      BY <3>1 DEF RunsInv, RunsTypeOK
    <3>4. ASSUME NEW j \in Jobs PROVE RunSound(j)'
      BY <3>1, <3>2, RunKept DEF RunsInv, RunSound
    <3>5. ASSUME NEW p \in Pollers PROVE PollSound(p)'
      BY <3>1, <3>2, PollKept DEF RunsInv, PollSound
    <3> QED
      BY <3>1, <3>2, <3>3, <3>4, <3>5 DEF RunsInv, PagesOK
  <2> QED
    BY <2>1, <2>2, <2>2a, <2>3, <2>4, <2>5 DEF NextRuns
<1> QED
  BY <1>1, <1>2, RunsDriveCorpus, Inductive, PTL DEF SpecRuns

\* The rows of the runs and what the polls hold stay typed.
THEOREM RunsTypeCorrect == SpecRuns => []RunsTypeOK
<1>1. RunsInv => RunsTypeOK
  BY DEF RunsInv
<1> QED
  BY <1>1, RunsInductive, PTL

\* A finished run shows the outcome its job reached, however the polls overlap
\* and whichever acknowledgements of the database are lost: a job that is marked
\* failed after it was marked completed (corpus_index.py 82-88) may show either.
THEOREM OutcomeFollows == SpecRuns => []RunFollowsJob
<1>1. RunsInv => RunFollowsJob
  BY DEF RunsInv, RunSound, RunFollowsJob, Shown
<1> QED
  BY <1>1, RunsInductive, PTL

\* The growth a completed run shows covers every document its job indexed: the
\* stats before the POST and after the end of the job bracket it, whichever
\* poll writes them (index_runs_controller.rb).
THEOREM GrowthCovers == SpecRuns => []GrowthShown
<1>1. RunsInv => GrowthShown
  BY DEF RunsInv, RunSound, GrowthShown, Growth, Terminal
<1> QED
  BY <1>1, RunsInductive, PTL
=============================================================================
