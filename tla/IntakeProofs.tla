------------------------------ MODULE IntakeProofs ------------------------------
(***************************************************************************)
(* Proofs about the intake: Pseudonyms, for every set of workers, inputs   *)
(* and deletions and every generator; BudgetCleaning, for every batch; and *)
(* Chunking, for all budgets, requests and windows.  They share no state   *)
(* and no lemma: one part is about each, in that order.                    *)
(***************************************************************************)
EXTENDS Pseudonyms, BudgetCleaning, Chunking, WellFoundedInduction, TLAPS

Points == {"idle", "lookup", "insert", "commit", "winner", "done", "failed"}
Held == [of : Keys \cup {None}, name : MaxDraws \cup {None}, seen : 0..MaxForgets]

\* A pseudonym that was applied is in its row as long as nobody forgot the row.
Applied == \A a \in applied :
  /\ a.of \in Keys /\ a.name \in MaxDraws
  /\ a.seen \in Nat /\ a.seen <= forgets[a.of]
  /\ a.seen = forgets[a.of] => table[a.of] = a.name

Converged == \A a, b \in applied : a.of = b.of /\ a.seen = b.seen => a.name = b.name

\* What a worker that found no row knows about it.
Racing(w) ==
  /\ at[w] \in {"insert", "commit", "winner", "failed"} =>
       key[w].of \in Keys /\ key[w].name \in MaxDraws /\ key[w].seen <= forgets[key[w].of]
  /\ at[w] = "commit" => pending[key[w].of] = w
  /\ at[w] = "winner" => table[key[w].of] # None \/ forgets[key[w].of] > key[w].seen
  /\ at[w] = "failed" => forgets[key[w].of] > key[w].seen

\* The inductive invariant.
IInv == TypeOK /\ Applied /\ Converged /\ DOMAIN todo = Workers /\ \A w \in Workers : Racing(w)

LEMMA NoKeyType == PseudonymConstantsOK => NoKey \in Held
  BY DEF PseudonymConstantsOK, NoKey, Held

LEMMA InitIInv == PseudonymConstantsOK /\ Init => IInv
<1> SUFFICES ASSUME PseudonymConstantsOK, Init PROVE IInv
  OBVIOUS
<1>1. TypeOK
  BY NoKeyType DEF Init, TypeOK, Held, PseudonymConstantsOK
<1>2. Applied /\ Converged /\ DOMAIN todo = Workers /\ \A w \in Workers : Racing(w)
  BY DEF Init, Applied, Converged, Racing
<1> QED
  BY <1>1, <1>2 DEF IInv

\* The key of a span that is left is a key of the table.
LEMMA KeyType ==
  ASSUME TypeOK, NEW w \in Workers, NEW r \in todo[w]
  PROVE  KeyOf(w, r) \in Keys
<1>1. r \in input[w].spans
  BY DEF TypeOK
<1>2. input[w] \in Inputs
  BY <1>1 DEF TypeOK, NoInput
<1> QED
  BY <1>1, <1>2 DEF KeyOf, Keys

\* A span is replaced by the pseudonym of a row.
LEMMA ApplyStep ==
  ASSUME PseudonymConstantsOK, TypeOK, NEW w \in Workers, NEW r \in todo[w], NEW k \in Keys,
         NEW n \in MaxDraws, NEW seen \in 0..MaxForgets, Apply(w, r, k, n, seen)
  PROVE  /\ \A v \in Workers : todo'[v] \subseteq input[v].spans
         /\ key' \in [Workers -> Held] /\ \A v \in Workers \ {w} : key'[v] = key[v]
         /\ at' \in [Workers -> Points] /\ at'[w] \in {"lookup", "done"}
         /\ \A v \in Workers \ {w} : at'[v] = at[v]
         /\ \A a \in applied' : a \in applied \/ (a.of = k /\ a.name = n /\ a.seen = seen)
         /\ DOMAIN todo' = DOMAIN todo
<1>1. /\ at \in [Workers -> Points] /\ key \in [Workers -> Held]
      /\ \A v \in Workers : todo[v] \subseteq input[v].spans
  BY DEF TypeOK, Points, Held
<1>2. at' \in [Workers -> Points] /\ at'[w] \in {"lookup", "done"} /\ \A v \in Workers \ {w} : at'[v] = at[v]
  BY <1>1 DEF Apply, Goto, Points
<1>3. key' \in [Workers -> Held] /\ \A v \in Workers \ {w} : key'[v] = key[v]
  BY <1>1, NoKeyType DEF Apply
<1>4. \A v \in Workers : todo'[v] \subseteq input[v].spans
  <2>1. CASE w \in DOMAIN todo
    BY <1>1, <2>1 DEF Apply
  <2>2. CASE w \notin DOMAIN todo
    BY <1>1, <2>2 DEF Apply
  <2> QED
    BY <2>1, <2>2
<1>5. \A a \in applied' : a \in applied \/ (a.of = k /\ a.name = n /\ a.seen = seen)
  BY DEF Apply
<1>6. DOMAIN todo' = DOMAIN todo
  BY DEF Apply
<1> QED
  BY <1>2, <1>3, <1>4, <1>5, <1>6

\* The history stays true when the pseudonym of a row is applied.
LEMMA AppliedKeeps ==
  ASSUME TypeOK, Applied, Converged, NEW k \in Keys, NEW n \in MaxDraws,
         \A a \in applied' : a \in applied \/ (a.of = k /\ a.name = n /\ a.seen = forgets[k]),
         forgets' = forgets, table'[k] = n, \A j \in Keys \ {k} : table'[j] = table[j],
         \A a \in applied : a.of = k /\ a.seen = forgets[k] => a.name = n
  PROVE  Applied' /\ Converged'
<1>1. forgets[k] \in Nat
  BY DEF TypeOK
<1>2. Applied'
  <2> SUFFICES ASSUME NEW a \in applied'
               PROVE  /\ a.of \in Keys /\ a.name \in MaxDraws
                      /\ a.seen \in Nat /\ a.seen <= forgets[a.of]
                      /\ a.seen = forgets[a.of] => table'[a.of] = a.name
    BY DEF Applied
  <2>1. CASE a \in applied
    BY <2>1 DEF Applied
  <2>2. CASE a.of = k /\ a.name = n /\ a.seen = forgets[k]
    BY <1>1, <2>2
  <2> QED
    BY <2>1, <2>2
<1>3. Converged'
  BY DEF Converged
<1> QED
  BY <1>2, <1>3

\* The race of another worker is not disturbed by a step that changes only rows
\* nobody is about to commit.
LEMMA OthersRace ==
  ASSUME NEW w \in Workers, \A v \in Workers : Racing(v), forgets' = forgets,
         \A v \in Workers \ {w} : at'[v] = at[v] /\ key'[v] = key[v],
         \A v \in Workers \ {w}, k \in Keys : pending[k] = v => pending'[k] = v,
         \A k \in Keys : table[k] # None => table'[k] # None
  PROVE  \A v \in Workers \ {w} : Racing(v)'
  BY DEF Racing

LEMMA LookupStep ==
  ASSUME PseudonymConstantsOK, IInv, NEW w \in Workers, NEW r \in todo[w], Lookup(w, r)
  PROVE  IInv'
<1> DEFINE k == KeyOf(w, r)
<1>1. /\ at[w] = "lookup" /\ table' = table /\ pending' = pending /\ input' = input
      /\ texts' = texts /\ forgets' = forgets
  BY DEF Lookup
<1>2. k \in Keys /\ forgets[k] \in 0..MaxForgets /\ table[k] \in MaxDraws \cup {None}
  BY KeyType DEF IInv, TypeOK
<1> HIDE DEF k
<1>3. CASE table[k] # None /\ Apply(w, r, k, table[k], forgets[k]) /\ drawn' = drawn
  <2>1. table[k] \in MaxDraws
    BY <1>2, <1>3
  <2>2. /\ \A v \in Workers : todo'[v] \subseteq input[v].spans
        /\ key' \in [Workers -> Held] /\ \A v \in Workers \ {w} : key'[v] = key[v]
        /\ at' \in [Workers -> Points] /\ at'[w] \in {"lookup", "done"}
        /\ \A v \in Workers \ {w} : at'[v] = at[v]
        /\ \A a \in applied' : a \in applied \/ (a.of = k /\ a.name = table[k] /\ a.seen = forgets[k])
        /\ DOMAIN todo' = Workers
    BY <1>2, <1>3, <2>1, ApplyStep DEF IInv
  <2>3. Applied' /\ Converged'
    <3>1. \A a \in applied : a.of = k /\ a.seen = forgets[k] => a.name = table[k]
      BY DEF IInv, Applied
    <3> QED
      BY <1>1, <1>2, <2>1, <2>2, <3>1, AppliedKeeps DEF IInv
  <2>4. \A v \in Workers : Racing(v)'
    <3>1. Racing(w)'
      BY <2>2 DEF Racing
    <3>2. \A v \in Workers \ {w} : Racing(v)'
      BY <1>1, <2>2, OthersRace DEF IInv
    <3> QED
      BY <3>1, <3>2
  <2>5. \A j \in Keys : pending[j] # None => pending[j] # w /\ pending[j] \in Workers
    BY <1>1 DEF IInv, TypeOK
  <2>6. TypeOK'
    BY <1>1, <1>3, <2>2, <2>5 DEF IInv, TypeOK, Points, Held
  <2> QED
    BY <2>2, <2>3, <2>4, <2>6 DEF IInv
<1>4. CASE /\ table[k] = None /\ drawn[w] + 1 \in MaxDraws
           /\ drawn' = [drawn EXCEPT ![w] = @ + 1]
           /\ key' = [key EXCEPT ![w] = [of |-> k, name |-> drawn[w] + 1, seen |-> forgets[k]]]
           /\ Goto(w, "insert") /\ UNCHANGED <<out, todo, applied>>
  <2>1. /\ key' \in [Workers -> Held] /\ \A v \in Workers \ {w} : key'[v] = key[v]
        /\ key'[w].of = k /\ key'[w].name \in MaxDraws /\ key'[w].seen = forgets[k]
    BY <1>2, <1>4 DEF IInv, TypeOK, Held
  <2>2. /\ at' \in [Workers -> Points] /\ at'[w] = "insert"
        /\ \A v \in Workers \ {w} : at'[v] = at[v]
    BY <1>4 DEF Goto, IInv, TypeOK, Points
  <2>3. Applied' /\ Converged'
    BY <1>1, <1>4 DEF IInv, Applied, Converged
  <2>4. \A v \in Workers : Racing(v)'
    <3>1. Racing(w)'
      BY <1>1, <1>2, <2>1, <2>2 DEF Racing
    <3>2. \A v \in Workers \ {w} : Racing(v)'
      BY <1>1, <2>1, <2>2, OthersRace DEF IInv
    <3> QED
      BY <3>1, <3>2
  <2>5. \A j \in Keys : pending[j] # None => pending[j] # w /\ pending[j] \in Workers
    BY <1>1 DEF IInv, TypeOK
  <2>6. drawn' \in [Workers -> {0} \cup MaxDraws]
    BY <1>4 DEF IInv, TypeOK
  <2>7. TypeOK'
    BY <1>1, <1>4, <2>1, <2>2, <2>5, <2>6 DEF IInv, TypeOK, Points, Held
  <2> QED
    BY <1>4, <2>3, <2>4, <2>7 DEF IInv
<1> QED
  BY <1>3, <1>4 DEF Lookup, k

LEMMA TakeStep ==
  ASSUME PseudonymConstantsOK, IInv, NEW w \in Workers, NEW i \in Inputs, Take(w, i)
  PROVE  IInv'
<1>1. /\ at[w] \in {"idle", "done", "failed"} /\ texts[w] < MaxTexts
      /\ texts' = [texts EXCEPT ![w] = @ + 1] /\ input' = [input EXCEPT ![w] = i]
      /\ todo' = [todo EXCEPT ![w] = i.spans] /\ Goto(w, IF i.spans = {} THEN "done" ELSE "lookup")
      /\ table' = table /\ pending' = pending /\ key' = key /\ drawn' = drawn
      /\ forgets' = forgets /\ applied' = applied
  BY DEF Take
<1>2. /\ at' \in [Workers -> Points] /\ at'[w] \in {"done", "lookup"}
      /\ \A v \in Workers \ {w} : at'[v] = at[v]
  BY <1>1 DEF Goto, IInv, TypeOK, Points
<1>3. \A v \in Workers : Racing(v)'
  <2>1. Racing(w)'
    BY <1>2 DEF Racing
  <2>2. \A v \in Workers \ {w} : Racing(v)'
    BY <1>1, <1>2, OthersRace DEF IInv
  <2> QED
    BY <2>1, <2>2
<1>4. \A j \in Keys : pending[j] # None => pending[j] # w /\ pending[j] \in Workers
  BY <1>1 DEF IInv, TypeOK
<1>5. /\ input' \in [Workers -> Inputs \cup {NoInput}]
      /\ \A v \in Workers : todo'[v] \subseteq input'[v].spans
  <2>1. input' \in [Workers -> Inputs \cup {NoInput}] /\ input'[w] = i
        /\ \A v \in Workers \ {w} : input'[v] = input[v]
    BY <1>1 DEF IInv, TypeOK
  <2>2. todo'[w] = i.spans /\ \A v \in Workers \ {w} : todo'[v] = todo[v]
    BY <1>1 DEF IInv
  <2> QED
    BY <2>1, <2>2 DEF IInv, TypeOK
<1>6. texts' \in [Workers -> 0..MaxTexts]
  BY <1>1 DEF IInv, TypeOK, PseudonymConstantsOK
<1>7. TypeOK'
  BY <1>1, <1>2, <1>4, <1>5, <1>6 DEF IInv, TypeOK, Points
<1>8. DOMAIN todo' = Workers
  BY <1>1 DEF IInv
<1> QED
  BY <1>1, <1>3, <1>7, <1>8 DEF IInv, Applied, Converged

LEMMA InsertStep ==
  ASSUME PseudonymConstantsOK, IInv, NEW w \in Workers, Insert(w)
  PROVE  IInv'
<1> DEFINE k == key[w].of
<1>1. /\ at[w] = "insert" /\ pending[k] = None /\ table' = table /\ key' = key /\ forgets' = forgets
      /\ \/ table[k] = None /\ pending' = [pending EXCEPT ![k] = w] /\ Goto(w, "commit")
         \/ table[k] # None /\ pending' = pending /\ Goto(w, "winner")
      /\ input' = input /\ todo' = todo /\ drawn' = drawn /\ texts' = texts /\ applied' = applied
  BY DEF Insert
<1>2. k \in Keys /\ key[w].name \in MaxDraws /\ key[w].seen <= forgets[k] /\ None \notin Workers
  BY <1>1 DEF IInv, Racing, PseudonymConstantsOK
<1> HIDE DEF k
<1>3. /\ at' \in [Workers -> Points] /\ at'[w] = (IF table[k] = None THEN "commit" ELSE "winner")
      /\ \A v \in Workers \ {w} : at'[v] = at[v]
  BY <1>1 DEF Goto, IInv, TypeOK, Points
<1>4. /\ pending' \in [Keys -> Workers \cup {None}]
      /\ \A j \in Keys \ {k} : pending'[j] = pending[j]
      /\ pending'[k] = IF table[k] = None THEN w ELSE None
  BY <1>1, <1>2 DEF IInv, TypeOK
<1>5. \A v \in Workers : Racing(v)'
  <2>1. Racing(w)'
    BY <1>1, <1>2, <1>3, <1>4 DEF Racing, k
  <2>2. \A v \in Workers \ {w} : Racing(v)'
    BY <1>1, <1>2, <1>3, <1>4, OthersRace DEF IInv
  <2> QED
    BY <2>1, <2>2
<1>6. ASSUME NEW j \in Keys, pending'[j] # None
      PROVE  at'[pending'[j]] = "commit" /\ key'[pending'[j]].of = j /\ table'[j] = None
  <2>1. CASE j = k
    BY <1>1, <1>3, <1>4, <1>6, <2>1 DEF k
  <2>2. CASE j # k
    <3>1. pending[j] # None /\ pending'[j] = pending[j]
      BY <1>4, <1>6, <2>2
    <3>2. pending[j] \in Workers \ {w}
      BY <1>1, <3>1 DEF IInv, TypeOK
    <3> QED
      BY <1>1, <1>3, <3>1, <3>2 DEF IInv, TypeOK
  <2> QED
    BY <2>1, <2>2
<1>7. TypeOK'
  BY <1>1, <1>3, <1>4, <1>6 DEF IInv, TypeOK, Points
<1> QED
  BY <1>1, <1>5, <1>7 DEF IInv, Applied, Converged

LEMMA CommitStep ==
  ASSUME PseudonymConstantsOK, IInv, NEW w \in Workers, Commit(w)
  PROVE  IInv'
<1> DEFINE k == key[w].of
           n == key[w].name
<1>1. /\ at[w] = "commit" /\ table' = [table EXCEPT ![k] = n] /\ pending' = [pending EXCEPT ![k] = None]
      /\ input' = input /\ drawn' = drawn /\ texts' = texts /\ forgets' = forgets
  BY DEF Commit
<1>2. PICK r \in todo[w] : Apply(w, r, k, n, forgets[k])
  BY DEF Commit, Nearest
<1>3. /\ k \in Keys /\ n \in MaxDraws /\ pending[k] = w /\ forgets[k] \in 0..MaxForgets
      /\ None \notin Workers /\ None \notin MaxDraws
  BY <1>1 DEF IInv, Racing, PseudonymConstantsOK, TypeOK
<1>4. table[k] = None
  BY <1>3 DEF IInv, TypeOK
<1>5. \A j \in Keys : pending[j] = w => j = k
  BY <1>3 DEF IInv, TypeOK
<1> HIDE DEF k, n
<1>6. /\ \A v \in Workers : todo'[v] \subseteq input[v].spans
      /\ key' \in [Workers -> Held] /\ \A v \in Workers \ {w} : key'[v] = key[v]
      /\ at' \in [Workers -> Points] /\ at'[w] \in {"lookup", "done"}
      /\ \A v \in Workers \ {w} : at'[v] = at[v]
      /\ \A a \in applied' : a \in applied \/ (a.of = k /\ a.name = n /\ a.seen = forgets[k])
      /\ DOMAIN todo' = Workers
  BY <1>2, <1>3, ApplyStep DEF IInv
<1>7. /\ table' \in [Keys -> MaxDraws \cup {None}] /\ table'[k] = n
      /\ \A j \in Keys \ {k} : table'[j] = table[j]
      /\ pending' \in [Keys -> Workers \cup {None}] /\ pending'[k] = None
      /\ \A j \in Keys \ {k} : pending'[j] = pending[j]
  BY <1>1, <1>3 DEF IInv, TypeOK
<1>8. Applied' /\ Converged'
  <2>1. \A a \in applied : ~(a.of = k /\ a.seen = forgets[k])
    BY <1>3, <1>4 DEF IInv, Applied
  <2> QED
    BY <1>1, <1>3, <1>6, <1>7, <2>1, AppliedKeeps DEF IInv
<1>9. \A v \in Workers : Racing(v)'
  <2>1. Racing(w)'
    BY <1>6 DEF Racing
  <2>2. \A v \in Workers \ {w} : Racing(v)'
    BY <1>1, <1>3, <1>4, <1>6, <1>7, OthersRace DEF IInv
  <2> QED
    BY <2>1, <2>2
<1>10. ASSUME NEW j \in Keys, pending'[j] # None
       PROVE  at'[pending'[j]] = "commit" /\ key'[pending'[j]].of = j /\ table'[j] = None
  <2>1. j # k /\ pending'[j] = pending[j] /\ table'[j] = table[j]
    BY <1>7, <1>10
  <2>2. pending[j] \in Workers \ {w}
    BY <1>5, <1>10, <2>1 DEF IInv, TypeOK
  <2> QED
    BY <1>6, <1>10, <2>1, <2>2 DEF IInv, TypeOK
<1>11. TypeOK'
  BY <1>1, <1>6, <1>7, <1>10 DEF IInv, TypeOK, Points, Held
<1> QED
  BY <1>6, <1>8, <1>9, <1>11 DEF IInv

LEMMA WinnerStep ==
  ASSUME PseudonymConstantsOK, IInv, NEW w \in Workers, Winner(w)
  PROVE  IInv'
<1> DEFINE k == key[w].of
<1>1. /\ at[w] = "winner" /\ table' = table /\ pending' = pending /\ input' = input
      /\ drawn' = drawn /\ texts' = texts /\ forgets' = forgets
  BY DEF Winner
<1>2. /\ k \in Keys /\ forgets[k] \in 0..MaxForgets /\ table[k] \in MaxDraws \cup {None}
      /\ table[k] # None \/ forgets[k] > key[w].seen
  BY <1>1 DEF IInv, Racing, TypeOK
<1>3. \A j \in Keys : pending[j] # None => pending[j] # w /\ pending[j] \in Workers
  BY <1>1 DEF IInv, TypeOK
<1> HIDE DEF k
<1>4. CASE table[k] # None /\ \E r \in Nearest(todo[w]) : Apply(w, r, k, table[k], forgets[k])
  <2>1. PICK r \in todo[w] : Apply(w, r, k, table[k], forgets[k])
    BY <1>4 DEF Nearest
  <2>2. table[k] \in MaxDraws
    BY <1>2, <1>4
  <2>3. /\ \A v \in Workers : todo'[v] \subseteq input[v].spans
        /\ key' \in [Workers -> Held] /\ \A v \in Workers \ {w} : key'[v] = key[v]
        /\ at' \in [Workers -> Points] /\ at'[w] \in {"lookup", "done"}
        /\ \A v \in Workers \ {w} : at'[v] = at[v]
        /\ \A a \in applied' : a \in applied \/ (a.of = k /\ a.name = table[k] /\ a.seen = forgets[k])
        /\ DOMAIN todo' = Workers
    BY <1>2, <2>1, <2>2, ApplyStep DEF IInv
  <2>4. Applied' /\ Converged'
    <3>1. \A a \in applied : a.of = k /\ a.seen = forgets[k] => a.name = table[k]
      BY DEF IInv, Applied
    <3> QED
      BY <1>1, <1>2, <2>2, <2>3, <3>1, AppliedKeeps DEF IInv
  <2>5. \A v \in Workers : Racing(v)'
    <3>1. Racing(w)'
      BY <2>3 DEF Racing
    <3>2. \A v \in Workers \ {w} : Racing(v)'
      BY <1>1, <2>3, OthersRace DEF IInv
    <3> QED
      BY <3>1, <3>2
  <2>6. TypeOK'
    BY <1>1, <1>3, <2>3 DEF IInv, TypeOK, Points, Held
  <2> QED
    BY <2>3, <2>4, <2>5, <2>6 DEF IInv
<1>5. CASE table[k] = None /\ Goto(w, "failed") /\ UNCHANGED <<todo, out, applied, key>>
  <2>1. /\ at' \in [Workers -> Points] /\ at'[w] = "failed"
        /\ \A v \in Workers \ {w} : at'[v] = at[v]
    BY <1>5 DEF Goto, IInv, TypeOK, Points
  <2>2. \A v \in Workers : Racing(v)'
    <3>1. Racing(w)'
      BY <1>1, <1>2, <1>5, <2>1 DEF IInv, Racing, k
    <3>2. \A v \in Workers \ {w} : Racing(v)'
      BY <1>1, <1>5, <2>1, OthersRace DEF IInv
    <3> QED
      BY <3>1, <3>2
  <2>3. TypeOK'
    BY <1>1, <1>3, <1>5, <2>1 DEF IInv, TypeOK, Points
  <2> QED
    BY <1>1, <1>5, <2>2, <2>3 DEF IInv, Applied, Converged
<1> QED
  BY <1>4, <1>5 DEF Winner, k

LEMMA ForgetStep ==
  ASSUME PseudonymConstantsOK, IInv, NEW k \in Keys, Forget(k)
  PROVE  IInv'
<1>1. /\ table[k] # None /\ forgets[k] < MaxForgets
      /\ table' = [table EXCEPT ![k] = None] /\ forgets' = [forgets EXCEPT ![k] = @ + 1]
      /\ pending' = pending /\ at' = at /\ input' = input /\ todo' = todo /\ key' = key
      /\ drawn' = drawn /\ texts' = texts /\ applied' = applied
  BY DEF Forget
<1>2. /\ table' \in [Keys -> MaxDraws \cup {None}] /\ table'[k] = None
      /\ \A j \in Keys \ {k} : table'[j] = table[j] /\ forgets'[j] = forgets[j]
      /\ forgets' \in [Keys -> 0..MaxForgets] /\ forgets'[k] = forgets[k] + 1
      /\ \A j \in Keys : forgets[j] \in Nat
  BY <1>1 DEF IInv, TypeOK, PseudonymConstantsOK
<1>3. Applied'
  BY <1>1, <1>2 DEF IInv, Applied
<1>4. ASSUME NEW w \in Workers PROVE Racing(w)'
  <2>1. key[w].seen \in Nat
    BY DEF IInv, TypeOK
  <2> QED
    BY <1>1, <1>2, <2>1 DEF IInv, Racing
<1>5. TypeOK'
  BY <1>1, <1>2 DEF IInv, TypeOK
<1> QED
  BY <1>1, <1>3, <1>4, <1>5 DEF IInv, Converged

LEMMA DisconnectStep ==
  ASSUME PseudonymConstantsOK, IInv, NEW w \in Workers, Disconnect(w)
  PROVE  IInv'
<1>1. /\ pending' = [k \in Keys |-> IF pending[k] = w THEN None ELSE pending[k]]
      /\ Goto(w, "idle") /\ key' = [key EXCEPT ![w] = NoKey]
      /\ table' = table /\ input' = input /\ todo' = todo /\ drawn' = drawn
      /\ texts' = texts /\ forgets' = forgets /\ applied' = applied
  BY DEF Disconnect
<1>2. /\ at' \in [Workers -> Points] /\ at'[w] = "idle"
      /\ \A v \in Workers \ {w} : at'[v] = at[v]
  BY <1>1 DEF Goto, IInv, TypeOK, Points
<1>3. key' \in [Workers -> Held] /\ \A v \in Workers \ {w} : key'[v] = key[v]
  BY <1>1, NoKeyType DEF IInv, TypeOK, Held
<1>4. \A v \in Workers : Racing(v)'
  <2>1. Racing(w)'
    BY <1>2 DEF Racing
  <2>2. \A v \in Workers \ {w} : Racing(v)'
    BY <1>1, <1>2, <1>3, OthersRace DEF IInv
  <2> QED
    BY <2>1, <2>2
<1>5. pending' \in [Keys -> Workers \cup {None}]
  BY <1>1 DEF IInv, TypeOK
<1>6. ASSUME NEW j \in Keys, pending'[j] # None
      PROVE  at'[pending'[j]] = "commit" /\ key'[pending'[j]].of = j /\ table'[j] = None
  <2>1. pending[j] # None /\ pending[j] # w /\ pending'[j] = pending[j] /\ pending[j] \in Workers
    BY <1>1, <1>6 DEF IInv, TypeOK
  <2> QED
    BY <1>1, <1>2, <1>3, <2>1 DEF IInv, TypeOK
<1>7. TypeOK'
  BY <1>1, <1>2, <1>3, <1>5, <1>6 DEF IInv, TypeOK, Points, Held
<1> QED
  BY <1>1, <1>4, <1>7 DEF IInv, Applied, Converged

LEMMA Inductive ==
  ASSUME PseudonymConstantsOK, IInv, [Next]_vars
  PROVE  IInv'
<1>1. CASE UNCHANGED vars
  BY <1>1 DEF vars, IInv, TypeOK, Applied, Converged, Racing
<1> QED
  BY <1>1, TakeStep, LookupStep, InsertStep, CommitStep, WinnerStep, ForgetStep, DisconnectStep DEF Next

-----------------------------------------------------------------------------
(* What splicing leaves of a text.                                         *)

Cell == [place : Nat, name : MaxDraws \cup {None}]

Replaced(w) == input[w].spans \ todo[w]

Clear(w, x) == \A p \in Replaced(w) : ~(p.start <= x /\ x <= p.end)

\* A cell of a text under way is where it came from, ahead of all that was
\* replaced; or of a pseudonym; or from behind every span that is left.
CellHonest(w, i) ==
  LET x == out[w][i].place
  IN \/ x = i /\ \A p \in Replaced(w) : i < p.start
     \/ x = 0
     \/ Clear(w, x) /\ \A r \in todo[w] : x > r.end

\* Nothing ahead of the spans replaced has moved; and a place outside them is
\* still there if they do not overlap.
PlaceKept(w, x) ==
  /\ (\A p \in Replaced(w) : x < p.start) => x \in DOMAIN out[w] /\ out[w][x].place = x
  /\ (\A r, s \in input[w].spans : ~Overlapping(r, s)) /\ Clear(w, x) =>
       \E i \in DOMAIN out[w] : out[w][i].place = x

SpliceInv(w) ==
  /\ out[w] \in Seq(Cell)
  /\ at[w] = "done" => todo[w] = {}
  /\ \A r \in todo[w], p \in Replaced(w) : r.end <= p.end
  /\ \A i \in DOMAIN out[w] : CellHonest(w, i)
  /\ \A x \in 1..Len(input[w].text) : PlaceKept(w, x)

Spliceable == DOMAIN out = Workers /\ \A w \in Workers : SpliceInv(w)

LEMMA SpanType ==
  ASSUME PseudonymConstantsOK, TypeOK, NEW w \in Workers, NEW r \in input[w].spans
  PROVE  /\ r.start \in Nat \ {0} /\ r.end \in Nat /\ r.start <= r.end
         /\ Len(input[w].text) \in Nat /\ r.end <= Len(input[w].text)
<1>1. input[w] \in Inputs
  BY DEF TypeOK, NoInput
<1> QED
  BY <1>1 DEF PseudonymConstantsOK

LEMMA Concatenated ==
  ASSUME NEW S, NEW A \in Seq(S), NEW B \in Seq(S)
  PROVE  /\ A \o B \in Seq(S) /\ Len(A \o B) = Len(A) + Len(B)
         /\ \A i \in 1..Len(A) : (A \o B)[i] = A[i]
         /\ \A i \in 1..Len(B) : (A \o B)[Len(A) + i] = B[i]
<1>1. A \o B \in Seq(S) /\ Len(A \o B) = Len(A) + Len(B)
  OBVIOUS
<1>2. \A i \in 1..Len(A) : (A \o B)[i] = A[i]
  OBVIOUS
<1>3. \A i \in 1..Len(B) : (A \o B)[Len(A) + i] = B[i]
  OBVIOUS
<1> QED
  BY <1>1, <1>2, <1>3

LEMMA PseudonymCells ==
  ASSUME PseudonymConstantsOK, NEW n \in MaxDraws
  PROVE  /\ Pseudonym(n) \in Seq(Cell)
         /\ \A i \in DOMAIN Pseudonym(n) : Pseudonym(n)[i].place = 0
<1>1. Width[n] \in Nat
  BY DEF PseudonymConstantsOK, MaxDraws
<1>2. [place |-> 0, name |-> n] \in Cell
  BY DEF Cell
<1>3. Pseudonym(n) = [i \in 1..Width[n] |-> [place |-> 0, name |-> n]]
  BY DEF Pseudonym
<1>4. Pseudonym(n) \in [1..Width[n] -> Cell]
  BY <1>2, <1>3
<1>5. Pseudonym(n) \in Seq(Cell)
  BY <1>1, <1>4
<1> QED
  BY <1>3, <1>5

\* Of a text a replacement keeps what is ahead of the span, in its place, and what
\* is behind its end; the rest is the pseudonym's.
Leaves(Q, O, r) ==
  /\ Q \in Seq(Cell)
  /\ \A j \in DOMAIN Q :
       \/ j < r.start /\ j \in DOMAIN O /\ Q[j] = O[j]
       \/ Q[j].place = 0
       \/ \E i \in DOMAIN O : i > r.end /\ Q[j] = O[i]
  /\ \A i \in DOMAIN O : i < r.start => i \in DOMAIN Q /\ Q[i] = O[i]
  /\ \A i \in DOMAIN O : i > r.end => \E j \in DOMAIN Q : Q[j] = O[i]

LEMMA SplicedCells ==
  ASSUME PseudonymConstantsOK, NEW O \in Seq(Cell), NEW r, NEW n \in MaxDraws,
         r.start \in Nat \ {0}, r.end \in Nat, r.start <= r.end
  PROVE  Leaves(Spliced(O, r, n), O, r)
<1> DEFINE b == IF r.start - 1 <= Len(O) THEN r.start - 1 ELSE Len(O)
           L == SubSeq(O, 1, b)
           M == Pseudonym(n)
           R == SubSeq(O, r.end + 1, Len(O))
           LM == L \o M
           Q == LM \o R
<1>1. Q = Spliced(O, r, n)
  BY DEF Spliced
<1>2. Len(O) \in Nat /\ DOMAIN O = 1..Len(O) /\ b \in 0..Len(O) /\ b <= r.start - 1
  OBVIOUS
<1>3. \A i \in 1..Len(O) : i < r.start => i <= b
  OBVIOUS
<1> HIDE DEF b
<1>4. L \in Seq(Cell) /\ Len(L) = b /\ \A i \in 1..b : L[i] = O[i]
  BY <1>2
<1>5. /\ R \in Seq(Cell) /\ Len(R) = IF r.end < Len(O) THEN Len(O) - r.end ELSE 0
      /\ \A i \in 1..Len(R) : r.end + i \in 1..Len(O) /\ R[i] = O[r.end + i]
  BY <1>2
<1>6. M \in Seq(Cell) /\ \A i \in 1..Len(M) : M[i].place = 0
  BY PseudonymCells
<1> HIDE DEF L, M, R
<1>7. /\ LM \in Seq(Cell) /\ Len(LM) = b + Len(M)
      /\ \A i \in 1..b : LM[i] = L[i]
      /\ \A i \in 1..Len(M) : LM[b + i] = M[i]
  <2>1. /\ L \o M \in Seq(Cell) /\ Len(L \o M) = Len(L) + Len(M)
        /\ \A i \in 1..Len(L) : (L \o M)[i] = L[i]
        /\ \A i \in 1..Len(M) : (L \o M)[Len(L) + i] = M[i]
    BY <1>4, <1>6, Concatenated
  <2> QED
    BY <1>4, <2>1
<1> HIDE DEF LM
<1>8. /\ Q \in Seq(Cell) /\ Len(Q) = Len(LM) + Len(R)
      /\ \A i \in 1..Len(LM) : Q[i] = LM[i]
      /\ \A i \in 1..Len(R) : Q[Len(LM) + i] = R[i]
  <2>1. LM \in Seq(Cell) /\ R \in Seq(Cell)
    BY <1>5, <1>7
  <2>2. /\ LM \o R \in Seq(Cell) /\ Len(LM \o R) = Len(LM) + Len(R)
        /\ \A i \in 1..Len(LM) : (LM \o R)[i] = LM[i]
        /\ \A i \in 1..Len(R) : (LM \o R)[Len(LM) + i] = R[i]
    BY <2>1, Concatenated
  <2> QED
    BY <2>2
<1> HIDE DEF Q
<1>9. Len(M) \in Nat /\ Len(R) \in Nat /\ Len(LM) \in Nat /\ DOMAIN Q = 1..Len(Q)
  BY <1>5, <1>6, <1>7, <1>8
<1>10. ASSUME NEW j \in DOMAIN Q
       PROVE  \/ j < r.start /\ j \in DOMAIN O /\ Q[j] = O[j]
              \/ Q[j].place = 0
              \/ \E i \in DOMAIN O : i > r.end /\ Q[j] = O[i]
  <2>1. CASE j <= b
    <3>1. j \in 1..b /\ j \in 1..Len(LM) /\ j < r.start /\ j \in DOMAIN O
      BY <1>2, <1>7, <1>9, <2>1
    <3> QED
      BY <1>4, <1>7, <1>8, <3>1
  <2>2. CASE b < j /\ j <= Len(LM)
    <3>1. j - b \in 1..Len(M) /\ j \in 1..Len(LM) /\ b + (j - b) = j
      BY <1>2, <1>7, <1>9, <2>2
    <3>2. LM[j] = M[j - b]
      BY <1>7, <3>1
    <3> QED
      BY <1>6, <1>8, <3>1, <3>2
  <2>3. CASE j > Len(LM)
    <3> DEFINE i == j - Len(LM)
    <3>1. i \in 1..Len(R) /\ Len(LM) + i = j
      BY <1>8, <1>9, <2>3
    <3>2. Q[j] = R[i]
      BY <1>8, <3>1
    <3>3. r.end + i \in DOMAIN O /\ r.end + i > r.end /\ R[i] = O[r.end + i]
      BY <1>2, <1>5, <1>9, <3>1
    <3> QED
      BY <3>2, <3>3
  <2> QED
    BY <1>2, <1>9, <2>1, <2>2, <2>3
<1>11. ASSUME NEW i \in DOMAIN O, i < r.start PROVE i \in DOMAIN Q /\ Q[i] = O[i]
  <2>1. i \in 1..b /\ i \in 1..Len(LM) /\ i \in 1..Len(Q)
    BY <1>2, <1>3, <1>7, <1>8, <1>9, <1>11
  <2> QED
    BY <1>4, <1>7, <1>8, <1>9, <2>1
<1>12. ASSUME NEW i \in DOMAIN O, i > r.end PROVE \E j \in DOMAIN Q : Q[j] = O[i]
  <2> DEFINE k == i - r.end
  <2>1. k \in 1..Len(R) /\ r.end + k = i
    BY <1>2, <1>5, <1>12
  <2>2. Len(LM) + k \in 1..Len(Q)
    BY <1>8, <1>9, <2>1
  <2>3. Q[Len(LM) + k] = R[k] /\ R[k] = O[i]
    BY <1>5, <1>8, <2>1
  <2> QED
    BY <1>9, <2>2, <2>3
<1> QED
  BY <1>1, <1>8, <1>10, <1>11, <1>12 DEF Leaves

\* A worker whose text and spans stay as they are.
LEMMA SpliceKept ==
  ASSUME NEW w \in Workers, SpliceInv(w), out'[w] = out[w], todo'[w] = todo[w],
         input'[w] = input[w], at'[w] = "done" => todo[w] = {}
  PROVE  SpliceInv(w)'
<1>1. Replaced(w)' = Replaced(w)
  BY DEF Replaced
<1>2. \A i : CellHonest(w, i) => CellHonest(w, i)'
  BY <1>1 DEF CellHonest, Clear
<1>3. \A x : PlaceKept(w, x) => PlaceKept(w, x)'
  BY <1>1 DEF PlaceKept, Clear
<1> QED
  BY <1>1, <1>2, <1>3 DEF SpliceInv

LEMMA TakeSplices ==
  ASSUME PseudonymConstantsOK, IInv, Spliceable, NEW w \in Workers, NEW i \in Inputs, Take(w, i)
  PROVE  Spliceable'
<1>1. /\ input' = [input EXCEPT ![w] = i] /\ todo' = [todo EXCEPT ![w] = i.spans]
      /\ out' = [out EXCEPT ![w] = Cells(i.text)] /\ Goto(w, IF i.spans = {} THEN "done" ELSE "lookup")
  BY DEF Take
<1>2. /\ input'[w] = i /\ todo'[w] = i.spans /\ out'[w] = Cells(i.text)
      /\ DOMAIN out' = Workers
      /\ at'[w] = "done" => i.spans = {}
      /\ \A v \in Workers \ {w} : input'[v] = input[v] /\ todo'[v] = todo[v] /\ out'[v] = out[v] /\ at'[v] = at[v]
  BY <1>1 DEF IInv, TypeOK, Spliceable, Goto
<1>3. Len(i.text) \in Nat
  BY DEF PseudonymConstantsOK
<1>4. /\ Cells(i.text) \in Seq(Cell) /\ DOMAIN Cells(i.text) = 1..Len(i.text)
      /\ \A j \in 1..Len(i.text) : Cells(i.text)[j].place = j
  <2>1. \A j \in 1..Len(i.text) : [place |-> j, name |-> None] \in Cell
    BY <1>3 DEF Cell
  <2>2. Cells(i.text) = [j \in 1..Len(i.text) |-> [place |-> j, name |-> None]]
    BY DEF Cells
  <2>3. Cells(i.text) \in [1..Len(i.text) -> Cell]
    BY <2>1, <2>2
  <2>4. Cells(i.text) \in Seq(Cell)
    BY <1>3, <2>3
  <2> QED
    BY <2>2, <2>4
<1>5. Replaced(w)' = {}
  BY <1>2 DEF Replaced
<1>6. \A j \in 1..Len(i.text) : CellHonest(w, j)'
  BY <1>2, <1>4, <1>5 DEF CellHonest
<1>7. \A x \in 1..Len(i.text) : PlaceKept(w, x)'
  BY <1>2, <1>4, <1>5 DEF PlaceKept
<1>8. SpliceInv(w)'
  <2>1. /\ out'[w] \in Seq(Cell) /\ DOMAIN out'[w] = 1..Len(i.text)
        /\ at'[w] = "done" => todo'[w] = {}
    BY <1>2, <1>4
  <2>2. \A s \in todo'[w], p \in Replaced(w)' : s.end <= p.end
    BY <1>5
  <2>3. \A x \in 1..Len(input'[w].text) : PlaceKept(w, x)'
    BY <1>2, <1>7
  <2> QED
    BY <1>6, <2>1, <2>2, <2>3 DEF SpliceInv
<1>9. \A v \in Workers \ {w} : SpliceInv(v)'
  BY <1>2, SpliceKept DEF Spliceable, SpliceInv
<1>10. DOMAIN out' = Workers
  BY <1>2
<1> QED
  BY <1>8, <1>9, <1>10 DEF Spliceable

\* The nearest span is replaced.
LEMMA ApplySplices ==
  ASSUME PseudonymConstantsOK, IInv, Spliceable, NEW w \in Workers, NEW r \in Nearest(todo[w]),
         NEW k, NEW n \in MaxDraws, NEW seen, Apply(w, r, k, n, seen), input' = input
  PROVE  Spliceable'
<1> DEFINE O == out[w]
<1>1. /\ out'[w] = Spliced(O, r, n) /\ todo'[w] = todo[w] \ {r} /\ DOMAIN out' = Workers
      /\ at'[w] = "done" => todo[w] \ {r} = {}
      /\ \A v \in Workers \ {w} : todo'[v] = todo[v] /\ out'[v] = out[v] /\ at'[v] = at[v]
  BY DEF Apply, Goto, IInv, TypeOK, Spliceable
<1>2. /\ r \in todo[w] /\ r \in input[w].spans /\ todo[w] \subseteq input[w].spans
      /\ \A s \in todo[w] : s.end <= r.end
  BY DEF Nearest, IInv, TypeOK
<1>3. \A s \in input[w].spans :
        /\ s.start \in Nat \ {0} /\ s.end \in Nat /\ s.start <= s.end
        /\ Len(input[w].text) \in Nat /\ s.end <= Len(input[w].text)
  BY SpanType DEF IInv
<1>4. Replaced(w)' = Replaced(w) \cup {r} /\ Replaced(w) \subseteq input[w].spans
  BY <1>1, <1>2 DEF Replaced
<1>5. SpliceInv(w) /\ O \in Seq(Cell)
  BY DEF Spliceable, SpliceInv
<1> HIDE DEF O
<1> DEFINE Q == Spliced(O, r, n)
<1>6. \A i \in DOMAIN O : O[i].place \in Nat /\ i \in Nat
  <2>1. \A i \in DOMAIN O : O[i] \in Cell /\ i \in Nat
    BY <1>5
  <2> QED
    BY <2>1 DEF Cell
<1>7. Leaves(Q, O, r)
  BY <1>2, <1>3, <1>5, SplicedCells
<1>out. out'[w] = Q
  BY <1>1
<1> HIDE DEF Q
<1>8. \A i \in DOMAIN O : \/ O[i].place = i /\ \A p \in Replaced(w) : i < p.start
                          \/ O[i].place = 0
                          \/ Clear(w, O[i].place) /\ \A s \in todo[w] : O[i].place > s.end
  BY <1>5 DEF SpliceInv, CellHonest, O
<1>9. ASSUME NEW j \in DOMAIN Q PROVE CellHonest(w, j)'
  <2> SUFFICES \/ Q[j].place = j /\ \A p \in Replaced(w) \cup {r} : j < p.start
               \/ Q[j].place = 0
               \/ /\ \A p \in Replaced(w) \cup {r} : ~(p.start <= Q[j].place /\ Q[j].place <= p.end)
                  /\ \A s \in todo[w] \ {r} : Q[j].place > s.end
    BY <1>out, <1>1, <1>4 DEF CellHonest, Clear
  <2>1. ASSUME NEW i \in DOMAIN O, Q[j] = O[i], i > r.end \/ O[i].place > r.end, O[i].place # 0
        PROVE  /\ \A p \in Replaced(w) \cup {r} : ~(p.start <= Q[j].place /\ Q[j].place <= p.end)
               /\ \A s \in todo[w] \ {r} : Q[j].place > s.end
    <3>1. O[i].place > r.end
      BY <1>2, <1>8, <2>1
    <3>2. \A s \in todo[w] : O[i].place > s.end
      BY <1>2, <1>3, <1>6, <3>1
    <3>3. Clear(w, O[i].place)
      BY <1>3, <1>4, <1>6, <1>8, <2>1 DEF Clear
    <3> QED
      BY <1>2, <1>3, <1>6, <2>1, <3>1, <3>2, <3>3 DEF Clear
  <2>2. CASE j < r.start /\ j \in DOMAIN O /\ Q[j] = O[j]
    <3>1. CASE O[j].place = j /\ \A p \in Replaced(w) : j < p.start
      BY <2>2, <3>1
    <3>2. CASE O[j].place # 0 /\ \A s \in todo[w] : O[j].place > s.end
      BY <1>2, <2>1, <2>2, <3>2
    <3> QED
      BY <1>8, <2>2, <3>1, <3>2
  <2>3. CASE \E i \in DOMAIN O : i > r.end /\ Q[j] = O[i]
    BY <2>1, <2>3
  <2> QED
    BY <1>7, <2>2, <2>3 DEF Leaves
<1>10. ASSUME NEW x \in 1..Len(input[w].text) PROVE PlaceKept(w, x)'
  <2> DEFINE Apart == \A s, t \in input[w].spans : ~Overlapping(s, t)
  <2>1. /\ (\A p \in Replaced(w) : x < p.start) => x \in DOMAIN O /\ O[x].place = x
        /\ Apart /\ Clear(w, x) => \E i \in DOMAIN O : O[i].place = x
    BY <1>5 DEF SpliceInv, PlaceKept, O
  <2>2. ASSUME \A p \in Replaced(w) \cup {r} : x < p.start
        PROVE  x \in DOMAIN Q /\ Q[x].place = x
    BY <1>7, <2>1, <2>2 DEF Leaves
  <2>3. ASSUME Apart, \A p \in Replaced(w) \cup {r} : ~(p.start <= x /\ x <= p.end)
        PROVE  \E j \in DOMAIN Q : Q[j].place = x
    <3>1. PICK i \in DOMAIN O : O[i].place = x
      BY <2>1, <2>3 DEF Clear
    <3>2. CASE i < r.start \/ i > r.end
      BY <1>7, <3>1, <3>2 DEF Leaves
    <3>3. CASE r.start <= i /\ i <= r.end
      <4>1. \A p \in Replaced(w) : r.end <= p.end /\ p # r
        BY <1>2, <1>5 DEF SpliceInv, Replaced
      <4>2. \A p \in Replaced(w) : ~Overlapping(r, p)
        BY <1>2, <1>4, <2>3
      <4>3. \A p \in Replaced(w) : i < p.start
        BY <1>2, <1>3, <1>4, <1>6, <3>3, <4>1, <4>2 DEF Overlapping
      <4>4. i \in 1..Len(input[w].text)
        BY <1>2, <1>3, <1>6, <3>3
      <4>5. O[i].place = i
        BY <1>5, <4>3, <4>4 DEF SpliceInv, PlaceKept, O
      <4> QED
        BY <2>3, <3>1, <3>3, <4>5
    <3> QED
      BY <1>2, <1>3, <1>6, <3>2, <3>3
  <2> HIDE DEF Apart
  <2> QED
    BY <1>out, <1>1, <1>4, <2>2, <2>3 DEF PlaceKept, Clear, Apart
<1>11. SpliceInv(w)'
  <2>1. \A s \in todo[w] \ {r}, p \in Replaced(w) \cup {r} : s.end <= p.end
    BY <1>2, <1>5 DEF SpliceInv
  <2> QED
    BY <1>out, <1>1, <1>4, <1>7, <1>9, <1>10, <2>1 DEF SpliceInv, Leaves
<1>12. \A v \in Workers \ {w} : SpliceInv(v)'
  BY <1>1, SpliceKept DEF Spliceable, SpliceInv
<1> QED
  BY <1>1, <1>11, <1>12 DEF Spliceable

LEMMA SpliceInductive ==
  ASSUME PseudonymConstantsOK, IInv, Spliceable, [Next]_vars
  PROVE  Spliceable'
<1>1. ASSUME UNCHANGED <<out, todo, input>>, \A w \in Workers : at'[w] = "done" => at[w] = "done"
      PROVE  Spliceable'
  BY <1>1, SpliceKept DEF Spliceable, SpliceInv
<1>2. CASE UNCHANGED vars
  BY <1>1, <1>2 DEF vars
<1>3. ASSUME NEW w \in Workers, NEW r \in todo[w], Lookup(w, r) PROVE Spliceable'
  <2>1. r \in Nearest(todo[w]) /\ input' = input
    BY <1>3 DEF Lookup
  <2>2. CASE table[KeyOf(w, r)] # None /\ Apply(w, r, KeyOf(w, r), table[KeyOf(w, r)], forgets[KeyOf(w, r)])
    <3>1. table[KeyOf(w, r)] \in MaxDraws
      BY <2>2, KeyType DEF IInv, TypeOK
    <3> QED
      BY <2>1, <2>2, <3>1, ApplySplices
  <2>3. CASE Goto(w, "insert") /\ UNCHANGED <<out, todo, applied>>
    BY <1>1, <2>1, <2>3 DEF Goto, IInv, TypeOK
  <2> QED
    BY <1>3, <2>2, <2>3 DEF Lookup
<1>4. ASSUME NEW w \in Workers, Insert(w) PROVE Spliceable'
  BY <1>1, <1>4 DEF Insert, Goto, IInv, TypeOK
<1>5. ASSUME NEW w \in Workers, Commit(w) PROVE Spliceable'
  <2>1. key[w].name \in MaxDraws /\ input' = input
    BY <1>5 DEF Commit, IInv, Racing
  <2> QED
    BY <1>5, <2>1, ApplySplices DEF Commit
<1>6. ASSUME NEW w \in Workers, Winner(w) PROVE Spliceable'
  <2>1. at[w] = "winner" /\ input' = input
    BY <1>6 DEF Winner
  <2>2. CASE /\ table[key[w].of] # None
             /\ \E r \in Nearest(todo[w]) : Apply(w, r, key[w].of, table[key[w].of], forgets[key[w].of])
    <3>1. table[key[w].of] \in MaxDraws
      BY <2>1, <2>2 DEF IInv, Racing, TypeOK
    <3> QED
      BY <2>1, <2>2, <3>1, ApplySplices
  <2>3. CASE Goto(w, "failed") /\ UNCHANGED <<todo, out, applied, key>>
    BY <1>1, <2>1, <2>3 DEF Goto, IInv, TypeOK
  <2> QED
    BY <1>6, <2>2, <2>3 DEF Winner
<1>7. ASSUME NEW k \in Keys, Forget(k) PROVE Spliceable'
  BY <1>1, <1>7 DEF Forget
<1>8. ASSUME NEW w \in Workers, Disconnect(w) PROVE Spliceable'
  BY <1>1, <1>8 DEF Disconnect, Goto, IInv, TypeOK
<1> QED
  BY <1>2, <1>3, <1>4, <1>5, <1>6, <1>7, <1>8, TakeSplices DEF Next

-----------------------------------------------------------------------------
(* The theorems.                                                           *)

LEMMA Invariance ==
  ASSUME PseudonymConstantsOK
  PROVE  Spec => []IInv
<1>1. Init => IInv
  BY InitIInv
<1>2. IInv /\ [Next]_vars => IInv'
  BY Inductive
<1> QED
  BY <1>1, <1>2, PTL DEF Spec

\* The table, its uncommitted rows and the workers have their types, and only one
\* worker is about to commit the row of a key.
THEOREM TypeCorrect ==
  ASSUME PseudonymConstantsOK
  PROVE  Spec => []TypeOK
<1>1. IInv => TypeOK
  BY DEF IInv
<1> QED
  BY <1>1, Invariance, PTL

\* For any number of workers, texts and deletions, one value has one pseudonym
\* between two deletions of its row, and the loser of an insert finds the row of
\* the winner unless it was deleted meanwhile (mappings.py:60-90).
THEOREM OnePseudonym ==
  ASSUME PseudonymConstantsOK
  PROVE  Spec => []MappingsConverge
<1>1. IInv => MappingsConverge
  BY DEF IInv, Converged, Racing, MappingsConverge
<1> QED
  BY <1>1, Invariance, PTL

\* For every text, every set of spans and every length of a pseudonym, no
\* character of a detected value is left in the result, whatever overlaps; and
\* every other character is still there if nothing does
\* (pseudonymizer.py:95-118).
THEOREM SplicesHonestly ==
  ASSUME PseudonymConstantsOK
  PROVE  Spec => []SpliceHonest
<1>1. Init => Spliceable
  <2> SUFFICES ASSUME Init, NEW w \in Workers PROVE SpliceInv(w)
    BY DEF Init, Spliceable
  <2>1. out[w] = <<>> /\ todo[w] = {} /\ input[w] = NoInput /\ at[w] = "idle"
    BY DEF Init
  <2>2. Len(input[w].text) = 0 /\ Replaced(w) = {}
    BY <2>1 DEF NoInput, Replaced
  <2> QED
    BY <2>1, <2>2 DEF SpliceInv
<1>2. IInv /\ Spliceable /\ [Next]_vars => Spliceable'
  BY SpliceInductive
<1>3. ASSUME IInv, Spliceable PROVE SpliceHonest
  <2> SUFFICES ASSUME NEW w \in Workers, at[w] = "done"
      PROVE LET places == {out[w][i].place : i \in DOMAIN out[w]}
            IN /\ places \cap Detected(w) = {}
               /\ (\A r, s \in input[w].spans : ~Overlapping(r, s)) =>
                    (1..Len(input[w].text)) \ Detected(w) \subseteq places
    BY DEF SpliceHonest
  <2>1. SpliceInv(w) /\ Replaced(w) = input[w].spans
    BY <1>3 DEF Spliceable, SpliceInv, Replaced
  <2>2. \A x : x \in Detected(w) <=> \E p \in Replaced(w) : x \in p.start..p.end
    BY <2>1 DEF Detected
  <2>3. \A p \in Replaced(w) : p.start \in Nat \ {0} /\ p.end \in Nat
    BY <1>3, <2>1, SpanType DEF IInv
  <2>4. ASSUME NEW i \in DOMAIN out[w] PROVE out[w][i].place \notin Detected(w)
    <3>1. CellHonest(w, i) /\ i \in Nat
      BY <2>1 DEF SpliceInv
    <3> QED
      BY <2>2, <2>3, <3>1 DEF CellHonest, Clear
  <2>5. ASSUME NEW x \in (1..Len(input[w].text)) \ Detected(w), \A r, s \in input[w].spans : ~Overlapping(r, s)
        PROVE  \E i \in DOMAIN out[w] : out[w][i].place = x
    <3>1. PlaceKept(w, x) /\ x \in Nat
      BY <2>1 DEF SpliceInv
    <3>2. Clear(w, x)
      BY <2>2, <2>3, <2>5, <3>1 DEF Clear
    <3> QED
      BY <2>5, <3>1, <3>2 DEF PlaceKept
  <2> QED
    BY <2>4, <2>5
<1> QED
  BY <1>1, <1>2, <1>3, Invariance, PTL DEF Spec

-----------------------------------------------------------------------------
(* BudgetCleaning.                                                         *)

\* The frame after the cleaning: one row of each id, the most recent one.
Deduplicated ==
  /\ \A i, j \in frame : batch[i].id = batch[j].id => i = j
  /\ \A i \in DOMAIN batch : \E j \in frame :
       batch[j].id = batch[i].id /\ batch[j].date >= batch[i].date

CleaningInv ==
  /\ BatchTypeOK
  /\ stage = "read" => frame = DOMAIN batch
  /\ stage # "read" => IF Deduplicates THEN Deduplicated ELSE frame = DOMAIN batch
  /\ stage = "routed" => result = Routed

\* A nonempty set of numbers has a least one.
LEMMA LeastNumber ==
  ASSUME NEW S \in SUBSET Nat, S # {}
  PROVE  \E x \in S : \A y \in S : x <= y
<1>1. PICK x \in S : \A y \in S : ~ (<<y, x>> \in OpToRel(<, Nat))
  BY NatLessThanWellFounded, WFMin
<1>2. \A y \in S : ~ (y < x)
  BY <1>1 DEF OpToRel
<1> QED
  BY <1>2

LEMMA BatchType ==
  ASSUME CleaningConstantsOK, BatchTypeOK
  PROVE  /\ \E n \in Nat : DOMAIN batch = 1..n
         /\ \A i \in DOMAIN batch : i \in Nat /\ batch[i] \in Records /\ batch[i].date \in Nat
<1>1. PICK n \in 0..MaxBatch : batch \in [1..n -> Records]
  BY DEF BatchTypeOK
<1>2. n \in Nat /\ DOMAIN batch = 1..n
  BY <1>1 DEF CleaningConstantsOK
<1>3. \A i \in 1..n : i \in Nat /\ batch[i] \in Records
  BY <1>1, <1>2
<1>4. \A r \in Records : r.date \in Nat
  BY DEF CleaningConstantsOK, Records
<1> QED
  BY <1>2, <1>3, <1>4

\* Of the rows of one id one comes last: were there a shortest prefix of the
\* batch without a last one, its own last row, or the last one before it, would be.
LEMMA LastRow ==
  ASSUME CleaningConstantsOK, BatchTypeOK,
         NEW S \in SUBSET DOMAIN batch, S # {}
  PROVE  \E x \in S : \A y \in S \ {x} : Before(y, x)
<1>1. PICK n \in Nat : DOMAIN batch = 1..n
  BY BatchType
<1>2. \A i \in S : i \in 1..n /\ batch[i].date \in Nat
  BY <1>1, BatchType
<1> DEFINE Upto(m) == S \cap 1..m
           Last(m) == Upto(m) = {} \/ \E x \in Upto(m) : \A y \in Upto(m) \ {x} : Before(y, x)
           Bad == {m \in 0..n : ~ Last(m)}
<1>3. ASSUME Bad # {} PROVE FALSE
  <2>1. Bad \in SUBSET Nat
    OBVIOUS
  <2>2. PICK m \in Bad : \A k \in Bad : m <= k
    <3> HIDE DEF Bad
    <3> QED
      BY <1>3, <2>1, LeastNumber
  <2>3. m # 0 /\ m \in 1..n /\ m - 1 \in 0..n
    <3>1. Upto(0) = {}
      BY <1>2
    <3> QED
      BY <3>1
  <2>4. Last(m - 1)
    BY <2>2, <2>3
  <2>5. Upto(m) = Upto(m - 1) \cup (S \cap {m})
    BY <1>2, <2>3
  <2>6. \A y \in Upto(m - 1) : y < m /\ y \in 1..n
    BY <1>2, <2>3
  <2>7. CASE m \notin S
    BY <2>4, <2>5, <2>7
  <2>8. CASE m \in S /\ Upto(m - 1) = {}
    BY <2>5, <2>8
  <2>9. CASE m \in S /\ Upto(m - 1) # {}
    <3>1. PICK x \in Upto(m - 1) : \A y \in Upto(m - 1) \ {x} : Before(y, x)
      BY <2>4, <2>9
    <3>2. CASE batch[x].date <= batch[m].date
      <4>1. ASSUME NEW y \in Upto(m - 1) PROVE Before(y, m)
        <5>1. batch[y].date <= batch[x].date
          BY <3>1, <4>1, <1>2 DEF Before
        <5>2. /\ batch[y].date \in Nat /\ batch[x].date \in Nat /\ batch[m].date \in Nat
              /\ y < m
          BY <1>2, <2>6, <2>9, <4>1
        <5>3. batch[y].date < batch[m].date \/ batch[y].date = batch[m].date
          BY <5>1, <5>2, <3>2
        <5> QED
          BY <5>2, <5>3 DEF Before
      <4> QED
        BY <4>1, <2>5, <2>9
    <3>3. CASE batch[m].date < batch[x].date
      <4>1. Before(m, x)
        BY <3>3 DEF Before
      <4> QED
        BY <4>1, <3>1, <2>5, <2>9
    <3> QED
      BY <3>2, <3>3, <1>2, <2>9
  <2> QED
    BY <2>7, <2>8, <2>9
<1>4. Last(n)
  <2>1. n \in 0..n /\ n \notin Bad
    <3> HIDE DEF Bad
    <3> QED
      BY <1>3
  <2> HIDE DEF Last
  <2> QED
    BY <2>1
<1> QED
  BY <1>2, <1>4

LEMMA CleanStep ==
  ASSUME CleaningConstantsOK, CleaningInv, Clean
  PROVE  CleaningInv'
<1>1. /\ frame = DOMAIN batch /\ UNCHANGED <<batch, columns, result>> /\ stage' = "cleaned"
      /\ frame' = {i \in frame : Deduplicates => Kept(i)} /\ Deduplicates' = Deduplicates
  BY DEF CleaningInv, Clean, Deduplicates
<1>2. BatchTypeOK'
  BY <1>1 DEF CleaningInv, BatchTypeOK
<1>3. \A i \in DOMAIN batch : i \in Nat /\ batch[i].date \in Nat
  BY BatchType DEF CleaningInv
<1>4. ASSUME Deduplicates, NEW i \in frame', NEW j \in frame', batch[i].id = batch[j].id PROVE i = j
  <2> SUFFICES ASSUME i # j PROVE FALSE
    OBVIOUS
  <2>1. Before(i, j) /\ Before(j, i)
    BY <1>1, <1>4 DEF Kept
  <2> QED
    BY <2>1, <1>1, <1>3 DEF Before
<1>5. ASSUME Deduplicates, NEW i \in DOMAIN batch
      PROVE  \E j \in frame' : batch[j].id = batch[i].id /\ batch[j].date >= batch[i].date
  <2> DEFINE S == {j \in DOMAIN batch : batch[j].id = batch[i].id}
  <2>1. S # {} /\ S \in SUBSET DOMAIN batch
    OBVIOUS
  <2>2. PICK x \in S : \A y \in S \ {x} : Before(y, x)
    <3> HIDE DEF S
    <3> QED
      BY <2>1, LastRow DEF CleaningInv
  <2>3. Kept(x)
    BY <2>2, <1>1 DEF Kept
  <2>4. i # x => Before(i, x)
    BY <2>2
  <2>5. batch[x].date >= batch[i].date
    BY <2>4, <1>3 DEF Before
  <2> QED
    BY <2>3, <2>5, <1>1
<1> QED
  BY <1>1, <1>2, <1>4, <1>5 DEF CleaningInv, Deduplicated

LEMMA RouteStep ==
  ASSUME CleaningConstantsOK, CleaningInv, Route
  PROVE  CleaningInv'
<1>1. /\ stage = "cleaned" /\ stage' = "routed" /\ UNCHANGED <<batch, columns, frame>>
      /\ result' = Routed
  BY DEF Route
<1>2. Routed \in [DOMAIN NoResult -> SUBSET DOMAIN batch]
  BY DEF Routed, Refused, Nulls, NoResult, CleaningInv, BatchTypeOK
<1>3. BatchTypeOK'
  BY <1>1, <1>2 DEF CleaningInv, BatchTypeOK, NoResult
<1>4. Routed' = Routed
  BY <1>1 DEF Routed, Refused, Nulls
<1> QED
  BY <1>1, <1>3, <1>4 DEF CleaningInv, Deduplicated, Deduplicates

LEMMA CleaningInductive ==
  ASSUME CleaningConstantsOK
  PROVE  BatchSpec => []CleaningInv
<1>1. BatchInit => CleaningInv
  BY DEF CleaningConstantsOK, BatchInit, CleaningInv, BatchTypeOK, NoResult
<1>2. CleaningInv /\ [BatchNext]_(batchVars) => CleaningInv'
  <2> SUFFICES ASSUME CleaningInv, [BatchNext]_(batchVars) PROVE CleaningInv'
    OBVIOUS
  <2>1. CASE UNCHANGED batchVars
    <3>1. Routed' = Routed
      BY <2>1 DEF batchVars, Routed, Refused, Nulls
    <3> QED
      BY <2>1, <3>1 DEF batchVars, CleaningInv, BatchTypeOK, Deduplicated, Deduplicates
  <2> QED
    BY <2>1, CleanStep, RouteStep DEF BatchNext
<1> QED
  BY <1>1, <1>2, PTL DEF BatchSpec

\* Whatever the batch, every record of it is in one partition, or the batch was
\* deduplicated and it gave way to one of its id that is at least as recent and is in
\* one; a valid row has no defect, and has an id of its own and a date where the batch
\* has these columns (clean_budget_records, validate_with_policy).
THEOREM RecordsAreRouted ==
  ASSUME CleaningConstantsOK
  PROVE  BatchSpec => []RecordsRouted
<1>1. CleaningInv => RecordsRouted
  <2> SUFFICES ASSUME CleaningInv, stage = "routed" PROVE RecordsRouted
    BY DEF RecordsRouted
  <2>1. /\ DOMAIN result = {"valid", "quarantined", "discarded"}
        /\ result.discarded = Refused
        /\ result.quarantined = Nulls \ Refused
        /\ result.valid = frame \ (Refused \cup Nulls)
    BY DEF CleaningInv, Routed
  <2>2. /\ Refused \subseteq frame /\ Nulls \subseteq frame
        /\ frame \subseteq DOMAIN batch
    BY DEF Refused, Nulls, CleaningInv, BatchTypeOK
  <2>3. ASSUME NEW i \in frame PROVE \E part \in DOMAIN result : Places(i) = {part}
    BY <2>1, <2>2, <2>3 DEF Places
  <2>4. ASSUME NEW i \in DOMAIN batch, i \notin frame PROVE Places(i) = {}
    BY <2>1, <2>2, <2>4 DEF Places
  <2>5. ASSUME NEW i \in frame PROVE i \in UNION {result[part] : part \in DOMAIN result}
    BY <2>1, <2>2
  <2>6. ASSUME NEW i \in DOMAIN batch, i \notin frame
        PROVE  /\ columns = KeyColumns
               /\ \E j \in UNION {result[part] : part \in DOMAIN result} :
                    batch[j].id = batch[i].id /\ batch[j].date >= batch[i].date
    <3>1. Deduplicates /\ Deduplicated
      BY <2>6 DEF CleaningInv
    <3>2. columns = KeyColumns
      BY <3>1 DEF Deduplicates, CleaningInv, BatchTypeOK
    <3> QED
      BY <2>5, <3>1, <3>2 DEF Deduplicated
  <2>7. ASSUME NEW i \in result.valid
        PROVE  /\ batch[i].defects = {}
               /\ "budget_id" \in columns => batch[i].id \in Ids
               /\ "signed_at" \in columns => batch[i].date # 0
               /\ columns = KeyColumns =>
                    \A j \in result.valid \ {i} : batch[j].id # batch[i].id
    <3>1. i \in frame /\ i \notin Refused /\ i \notin Nulls
      BY <2>1, <2>7
    <3>2. batch[i] \in Records
      BY <2>2, <3>1, BatchType DEF CleaningInv
    <3>3. /\ "budget_id" \in columns => batch[i].id # NoId
          /\ "signed_at" \in columns => batch[i].date # 0
          /\ batch[i].defects = {}
      BY <3>1, <3>2 DEF Refused, Nulls, Records, Defects
    <3>4. "budget_id" \in columns => batch[i].id \in Ids
      BY <3>2, <3>3 DEF Records
    <3>5. ASSUME columns = KeyColumns, NEW j \in result.valid \ {i} PROVE batch[j].id # batch[i].id
      BY <2>1, <3>1, <3>5 DEF CleaningInv, Deduplicated, Deduplicates
    <3> QED
      BY <3>3, <3>4, <3>5
  <2> QED
    BY <2>3, <2>4, <2>6, <2>7 DEF RecordsRouted
<1> QED
  BY <1>1, CleaningInductive, PTL

-----------------------------------------------------------------------------
(* Chunking.                                                               *)

\* The part of the text a chunker is through with.
Behind(i) == IF Now \in Whole THEN corpus[i].budget < reached ELSE i < reached

LabTypes ==
  /\ corpus \in Corpora /\ reached \in Nat \ {0} /\ start \in Nat
  /\ materialized = [name \in DOMAIN materialized |-> materialized[name]]

\* What is behind a chunker is in its chunks.
BehindKept ==
  \A i \in DOMAIN corpus : Behind(i) => \A t \in Owed(Now, i) : HasToken(chunks, i, t)

Cut(i, s) == Verbatim(i, {t \in Tokens(i) : s <= t /\ t < s + Size})

\* The windows begin where a token is, and end short of what the next one brings.
Windows ==
  \A c \in chunks : \E i \in DOMAIN corpus, s \in Nat :
    /\ c = Cut(i, s) /\ s < corpus[i].tokens
    /\ i < reached \/ (i = reached /\ s < start /\ s + Size <= start + Overlap)

Apart(found) == \A c, d \in found : c.tokens \subseteq d.tokens => c = d

\* Within a component, the windows go from its first token to the next one's start.
Sliding ==
  /\ start > 0 => reached \in DOMAIN corpus /\ start + Overlap < corpus[reached].tokens
  /\ \A t \in Nat : t < start => HasToken(chunks, reached, t)

LabInv ==
  /\ LabTypes
  /\ BehindKept
  /\ Now = "fixed_size" => Sliding /\ Windows /\ Apart(chunks)
  /\ Now # "fixed_size" => start = 0
  /\ ChunksSound

LEMMA ComponentFacts ==
  ASSUME ChunkingConstantsOK, LabTypes
  PROVE  /\ Size \in Nat /\ Overlap \in Nat /\ Overlap < Size
         /\ DOMAIN corpus \subseteq Nat \ {0}
         /\ \A i \in DOMAIN corpus :
              /\ corpus[i].tokens \in Nat \ {0} /\ corpus[i].sentences \in Nat
              /\ corpus[i].budget \in Nat \ {0}
              /\ \A b \in 1..corpus[i].budget : b \in Budgets
<1>1. corpus \in Seq(Components)
  BY DEF LabTypes, ChunkingConstantsOK
<1>2. DOMAIN corpus \subseteq Nat \ {0} /\ \A i \in DOMAIN corpus : corpus[i] \in Components
  BY <1>1
<1> QED
  BY <1>2 DEF LabTypes, ChunkingConstantsOK, Components, Budgets

\* What is owed is of the component's tokens.
LEMMA OwedFacts ==
  ASSUME NEW name, NEW i
  PROVE  /\ Owed(name, i) \subseteq Tokens(i)
         /\ name = "sentence_window" => Owed(name, i) = Described(i)
         /\ name \in {"recursive", "semantic"} => Owed(name, i) = Tokens(i) \ Named(i)
BY DEF Owed, Described, Whole

LEMMA TokenKept ==
  ASSUME NEW found, NEW more, NEW i, NEW t, HasToken(found, i, t)
  PROVE  HasToken(found \cup more, i, t)
BY DEF HasToken

\* The chunks of a component keep its tokens.
LEMMA TokenFound ==
  ASSUME NEW found, NEW i, NEW positions, NEW t \in positions, Verbatim(i, positions) \in found
  PROVE  HasToken(found, i, t)
BY DEF HasToken, Verbatim

\* A chunker that keeps what is owed of the component, or of the budget, it has
\* reached is through with it.
LEMMA EmitStep ==
  ASSUME ChunkingConstantsOK, LabInv, NEW more, Emit(more), Now # "fixed_size",
         \A i \in DOMAIN corpus :
           (IF Now \in Whole THEN corpus[i].budget = reached ELSE i = reached)
             => \A t \in Owed(Now, i) : HasToken(more, i, t)
  PROVE  LabInv'
<1>1. /\ chunks' = chunks \cup more /\ reached' = reached + 1 /\ start' = 0
      /\ UNCHANGED <<names, corpus, run, materialized>>
  BY DEF Emit
<1>2. Now' = Now /\ \A name, i : Owed(name, i)' = Owed(name, i)
  BY <1>1 DEF Now, Owed, Described, Named, Tokens
<1>3. LabTypes'
  BY <1>1 DEF LabInv, LabTypes
<1>4. BehindKept'
  <2> SUFFICES ASSUME NEW i \in DOMAIN corpus, Behind(i)', NEW t \in Owed(Now, i)
               PROVE  HasToken(chunks', i, t)
    BY <1>1, <1>2 DEF BehindKept, HasToken
  <2>1. CASE Behind(i)
    <3>1. HasToken(chunks, i, t)
      BY <2>1 DEF LabInv, BehindKept
    <3> QED
      BY <3>1, <1>1, TokenKept
  <2>2. CASE ~Behind(i)
    <3>1. i \in Nat /\ corpus[i].budget \in Nat /\ reached \in Nat
      BY ComponentFacts DEF LabInv, LabTypes
    <3>2. IF Now \in Whole THEN corpus[i].budget = reached ELSE i = reached
      BY <3>1, <2>2, <1>1, <1>2 DEF Behind
    <3>3. HasToken(more, i, t)
      BY <3>2
    <3> QED
      BY <3>3, <1>1 DEF HasToken
  <2> QED
    BY <2>1, <2>2
<1>5. ChunksSound'
  BY <1>1, <1>2 DEF LabInv, ChunksSound, ContentKept, WindowsBring, HasToken
<1> QED
  BY <1>1, <1>2, <1>3, <1>4, <1>5 DEF LabInv

\* A window that reaches the end of its component, or goes on to the next one, is
\* part of no other, and no other of it.
LEMMA WindowFacts ==
  ASSUME ChunkingConstantsOK, LabInv, Working("fixed_size")
  PROVE  /\ reached \in DOMAIN corpus /\ start < corpus[reached].tokens
         /\ Window = Cut(reached, start)
         /\ Apart(chunks \cup {Window})
<1>1. /\ Now = "fixed_size" /\ reached \in DOMAIN corpus
      /\ Sliding /\ Windows /\ Apart(chunks)
  BY DEF Working, Exhausted, Whole, LabInv
<1>2. /\ Size \in Nat /\ Overlap \in Nat /\ Overlap < Size /\ start \in Nat /\ reached \in Nat
      /\ DOMAIN corpus \subseteq Nat
      /\ \A i \in DOMAIN corpus : corpus[i].tokens \in Nat \ {0}
  BY ComponentFacts DEF LabInv, LabTypes
<1>3. start < corpus[reached].tokens
  BY <1>1, <1>2 DEF Sliding
<1>4. Window = Cut(reached, start)
  BY DEF Window, Cut
<1>5. \A i \in DOMAIN corpus, s, t \in Nat :
        <<i, t>> \in Cut(i, s).tokens <=> t < corpus[i].tokens /\ s <= t /\ t < s + Size
  BY <1>2 DEF Cut, Verbatim, Tokens
<1>6. \A i, j \in DOMAIN corpus, s, t \in Nat : <<i, t>> \in Cut(j, s).tokens => i = j
  BY DEF Cut, Verbatim
<1>7. ASSUME NEW c \in chunks
      PROVE  ~(c.tokens \subseteq Window.tokens) /\ ~(Window.tokens \subseteq c.tokens)
  <2>1. PICK i \in DOMAIN corpus, s \in Nat :
          /\ c = Cut(i, s) /\ s < corpus[i].tokens
          /\ i < reached \/ (i = reached /\ s < start /\ s + Size <= start + Overlap)
    BY <1>1 DEF Windows
  <2>2. <<i, s>> \in c.tokens /\ <<reached, start>> \in Window.tokens
    BY <2>1, <1>1, <1>2, <1>3, <1>4, <1>5
  <2>3. CASE i < reached
    BY <2>1, <2>2, <2>3, <1>1, <1>2, <1>4, <1>6
  <2>4. CASE i = reached /\ s < start /\ s + Size <= start + Overlap
    <3>1. start + Overlap \in Nat /\ start + Overlap < corpus[reached].tokens
      BY <2>4, <1>1, <1>2 DEF Sliding
    <3>2. <<reached, start + Overlap>> \in Window.tokens
      BY <3>1, <1>1, <1>2, <1>4, <1>5
    <3>3. <<reached, start + Overlap>> \notin c.tokens
      BY <3>1, <2>1, <2>4, <1>1, <1>2, <1>5
    <3>4. <<i, s>> \notin Window.tokens
      BY <2>4, <1>1, <1>2, <1>4, <1>5
    <3> QED
      BY <2>2, <3>2, <3>3, <3>4
  <2> QED
    BY <2>1, <2>3, <2>4
<1>8. Apart(chunks \cup {Window})
  BY <1>1, <1>7 DEF Apart
<1> QED
  BY <1>1, <1>3, <1>4, <1>8

LEMMA FixedStep ==
  ASSUME ChunkingConstantsOK, LabInv, FixedWindow
  PROVE  LabInv'
<1>1. /\ Now = "fixed_size" /\ reached \in DOMAIN corpus /\ Sliding /\ Windows
      /\ Now \notin Whole
  BY DEF FixedWindow, Working, Exhausted, Whole, LabInv
<1>2. /\ Size \in Nat /\ Overlap \in Nat /\ Overlap < Size /\ start \in Nat /\ reached \in Nat
      /\ DOMAIN corpus \subseteq Nat
      /\ \A i \in DOMAIN corpus : corpus[i].tokens \in Nat \ {0}
  BY ComponentFacts DEF LabInv, LabTypes
<1>3. /\ start < corpus[reached].tokens /\ Window = Cut(reached, start)
      /\ Apart(chunks \cup {Window})
  BY WindowFacts DEF FixedWindow
<1>4. chunks' = chunks \cup {Window} /\ UNCHANGED <<names, corpus, run, materialized>>
  BY DEF FixedWindow, Emit
<1>5. /\ Now' = Now /\ \A name, i : Owed(name, i)' = Owed(name, i)
      /\ \A i, s : Cut(i, s)' = Cut(i, s)
  BY <1>4 DEF Now, Owed, Described, Named, Tokens, Cut, Verbatim
<1>6. ChunksSound'
  BY <1>4, <1>5 DEF LabInv, ChunksSound, ContentKept, WindowsBring, HasToken
<1>7. Apart(chunks)'
  BY <1>3, <1>4 DEF Apart
<1>8. ASSUME NEW t \in Nat, t < corpus[reached].tokens, t < start + Size
      PROVE  HasToken(chunks', reached, t)
  <2>1. CASE t < start
    BY <2>1, <1>1, <1>4, TokenKept DEF Sliding
  <2>2. CASE start <= t
    <3>1. t \in {u \in Tokens(reached) : start <= u /\ u < start + Size}
      BY <1>8, <1>2, <2>2, <1>1 DEF Tokens
    <3> QED
      BY <3>1, <1>4, TokenFound DEF Window
  <2> QED
    BY <2>1, <2>2, <1>2
<1>9. \A i \in DOMAIN corpus : i < reached => \A t \in Owed(Now, i) : HasToken(chunks', i, t)
  BY <1>1, <1>4, TokenKept DEF LabInv, BehindKept, Behind
<1>10. CASE LastWindow
  <2>1. reached' = reached + 1 /\ start' = 0
    BY <1>10 DEF FixedWindow, Emit
  <2>2. LabTypes'
    BY <2>1, <1>4, <1>2 DEF LabInv, LabTypes
  <2>3. \A t \in Owed(Now, reached) : HasToken(chunks', reached, t)
    BY <1>10, <1>8, <1>1, <1>2, OwedFacts DEF LastWindow, Tokens
  <2>4. BehindKept'
    <3> SUFFICES ASSUME NEW i \in DOMAIN corpus, i < reached + 1, NEW t \in Owed(Now, i)
                 PROVE  HasToken(chunks', i, t)
      BY <2>1, <1>1, <1>4, <1>5 DEF BehindKept, Behind, HasToken
    <3> QED
      BY <1>2, <1>9, <2>3
  <2>5. Sliding'
    BY <2>1 DEF Sliding
  <2>6. Windows'
    <3> SUFFICES ASSUME NEW c \in chunks'
                 PROVE  \E i \in DOMAIN corpus, s \in Nat :
                          c = Cut(i, s) /\ s < corpus[i].tokens /\ i < reached'
      BY <1>4, <1>5 DEF Windows
    <3>1. CASE c \in chunks
      BY <3>1, <1>1, <1>2, <2>1 DEF Windows
    <3>2. CASE c = Window
      BY <3>2, <1>1, <1>2, <1>3, <2>1
    <3> QED
      BY <3>1, <3>2, <1>4
  <2> QED
    BY <1>1, <1>5, <1>6, <1>7, <2>2, <2>4, <2>5, <2>6 DEF LabInv
<1>11. CASE ~LastWindow
  <2>1. reached' = reached /\ start' = start + (Size - Overlap)
    BY <1>11 DEF FixedWindow
  <2>2. LabTypes'
    BY <2>1, <1>4, <1>2 DEF LabInv, LabTypes
  <2>3. BehindKept'
    BY <2>1, <1>1, <1>4, <1>5, <1>9 DEF BehindKept, Behind, HasToken
  <2>4. start + Size < corpus[reached].tokens
    BY <1>11, <1>1, <1>2 DEF LastWindow
  <2>5. Sliding'
    <3>1. \A t \in Nat : t < start' => t < corpus[reached].tokens /\ t < start + Size
      BY <2>1, <2>4, <1>1, <1>2
    <3>2. \A t \in Nat : t < start' => HasToken(chunks', reached, t)
      BY <3>1, <1>8
    <3>3. start' + Overlap < corpus[reached].tokens
      BY <2>1, <2>4, <1>1, <1>2
    <3> QED
      BY <3>2, <3>3, <2>1, <1>1, <1>4 DEF Sliding, HasToken
  <2>6. Windows'
    <3> SUFFICES ASSUME NEW c \in chunks'
                 PROVE  \E i \in DOMAIN corpus, s \in Nat :
                          /\ c = Cut(i, s) /\ s < corpus[i].tokens
                          /\ i < reached \/ (i = reached /\ s < start' /\ s + Size <= start' + Overlap)
      BY <1>4, <1>5, <2>1 DEF Windows
    <3>1. CASE c \in chunks
      BY <3>1, <1>1, <1>2, <2>1 DEF Windows
    <3>2. CASE c = Window
      BY <3>2, <1>1, <1>2, <1>3, <2>1
    <3> QED
      BY <3>1, <3>2, <1>4
  <2> QED
    BY <1>1, <1>5, <1>6, <1>7, <2>2, <2>3, <2>5, <2>6 DEF LabInv
<1> QED
  BY <1>10, <1>11

\* The chunkers of a component keep what they owe of it.
LEMMA ComponentSteps ==
  ASSUME ChunkingConstantsOK, LabInv,
         \/ Structural \/ SentenceWindow
         \/ \E decomposed \in BOOLEAN :
              Working("propositional") /\ Emit(Propositions(decomposed))
         \/ Working("contextual_retrieval") /\ Emit({Rendered(reached)})
  PROVE  LabInv'
<1>1. \A t \in Tokens(reached) : HasToken({Rendered(reached)}, reached, t)
  BY TokenFound DEF Rendered
<1>2. \A t : HasToken({Rewritten(reached)}, reached, t)
  BY DEF HasToken, Rewritten
<1>3. CASE SentenceWindow
  <2> DEFINE more == {Verbatim(reached, {t}) : t \in Described(reached)}
  <2>1. Now = "sentence_window" /\ Emit(more)
    BY <1>3 DEF SentenceWindow, Working
  <2>2. \A t \in Described(reached) : HasToken(more, reached, t)
    BY TokenFound
  <2>3. Owed(Now, reached) = Described(reached)
    BY <2>1, OwedFacts
  <2> HIDE DEF more
  <2> QED
    BY <2>1, <2>2, <2>3, EmitStep DEF Whole
<1>4. CASE Structural
  BY <1>1, <1>4, OwedFacts, EmitStep DEF Structural, Working, Whole
<1>5. ASSUME NEW decomposed \in BOOLEAN, Working("propositional"), Emit(Propositions(decomposed))
      PROVE  LabInv'
  <2>1. \A t \in Tokens(reached) : HasToken(Propositions(decomposed), reached, t)
    BY <1>1, <1>2 DEF Propositions
  <2> QED
    BY <1>5, <2>1, OwedFacts, EmitStep DEF Working, Whole
<1>6. CASE Working("contextual_retrieval") /\ Emit({Rendered(reached)})
  BY <1>1, <1>6, OwedFacts, EmitStep DEF Working, Whole
<1> QED
  BY <1>3, <1>4, <1>5, <1>6

\* The chunkers of whole budgets keep what they owe of every component.
LEMMA BudgetSteps ==
  ASSUME ChunkingConstantsOK, LabInv,
         \/ Recursive \/ Hierarchical
         \/ Working("semantic") /\ Emit({Piece(reached, Serialized(reached))})
  PROVE  LabInv'
<1>1. ASSUME NEW i \in DOMAIN corpus, corpus[i].budget = reached, NEW t \in Tokens(i) \ Named(i)
      PROVE  i \in Parts(reached) /\ <<i, t>> \in Serialized(reached)
  BY <1>1 DEF Parts, Serialized
<1>2. ASSUME NEW found, Piece(reached, Serialized(reached)) \in found,
             NEW i \in DOMAIN corpus, corpus[i].budget = reached, NEW t \in Tokens(i) \ Named(i)
      PROVE  HasToken(found, i, t)
  BY <1>1, <1>2 DEF HasToken, Piece
<1>3. CASE Working("semantic") /\ Emit({Piece(reached, Serialized(reached))})
  BY <1>2, <1>3, OwedFacts, EmitStep DEF Working, Whole
<1>4. CASE Recursive
  <2>1. Now = "recursive"
    BY <1>4 DEF Recursive, Working
  <2>2. CASE Emit({Piece(reached, Serialized(reached))})
    BY <1>2, <2>1, <2>2, OwedFacts, EmitStep DEF Whole
  <2>3. CASE Emit({Piece(reached, Serialized(reached) \cap ({i} \X Tokens(i))) : i \in Parts(reached)})
    <3> DEFINE more == {Piece(reached, Serialized(reached) \cap ({i} \X Tokens(i))) : i \in Parts(reached)}
    <3>1. ASSUME NEW i \in DOMAIN corpus, corpus[i].budget = reached, NEW t \in Tokens(i) \ Named(i)
          PROVE  HasToken(more, i, t)
      <4>1. Piece(reached, Serialized(reached) \cap ({i} \X Tokens(i))) \in more
        BY <3>1, <1>1
      <4>2. <<i, t>> \in Serialized(reached) \cap ({i} \X Tokens(i))
        BY <3>1, <1>1
      <4> QED
        BY <4>1, <4>2 DEF HasToken, Piece
    <3> QED
      BY <2>1, <2>3, <3>1, OwedFacts, EmitStep DEF Whole
  <2> QED
    BY <1>4, <2>2, <2>3 DEF Recursive
<1>5. CASE Hierarchical
  <2> DEFINE more == {Piece(reached, Serialized(reached))} \cup {Rendered(i) : i \in Parts(reached)}
  <2>1. Now = "hierarchical" /\ Emit(more)
    BY <1>5 DEF Hierarchical, Working
  <2>2. ASSUME NEW i \in DOMAIN corpus, corpus[i].budget = reached, NEW t \in Tokens(i)
        PROVE  HasToken(more, i, t)
    <3>1. Rendered(i) \in more
      BY <2>2 DEF Parts
    <3> QED
      BY <3>1, TokenFound DEF Rendered
  <2> QED
    BY <2>1, <2>2, OwedFacts, EmitStep DEF Whole
<1> QED
  BY <1>3, <1>4, <1>5

\* A chunker that has nothing left has everything behind it.
LEMMA NextStep ==
  ASSUME ChunkingConstantsOK, LabInv, NextChunker
  PROVE  LabInv'
<1>1. /\ Exhausted(Now) /\ reached' = 1 /\ start' = 0 /\ chunks' = {} /\ UNCHANGED <<names, corpus>>
      /\ materialized' = [name \in DOMAIN materialized \cup {Now} |->
                            IF name = Now THEN chunks ELSE materialized[name]]
  BY DEF NextChunker
<1>2. \A name, i : Owed(name, i)' = Owed(name, i)
  BY <1>1 DEF Owed, Described, Named, Tokens
<1>3. reached \in Nat \ {0} /\ corpus \in Seq(Components)
  BY DEF LabInv, LabTypes, ChunkingConstantsOK
<1>4. \A i \in DOMAIN corpus : Behind(i)
  <2> SUFFICES ASSUME NEW i \in DOMAIN corpus PROVE Behind(i)
    OBVIOUS
  <2>1. CASE Now \in Whole
    <3>1. corpus[i].budget \in Nat \ {0} /\ \A b \in 1..corpus[i].budget : b \in Budgets
      BY ComponentFacts DEF LabInv
    <3>2. reached \notin Budgets
      BY <1>1, <2>1 DEF Exhausted
    <3> QED
      BY <3>1, <3>2, <1>3, <2>1 DEF Behind
  <2>2. CASE Now \notin Whole
    BY <1>1, <1>3, <2>2 DEF Behind, Exhausted
  <2> QED
    BY <2>1, <2>2
<1>5. ContentKept'
  <2>1. \A i \in DOMAIN corpus : \A t \in Owed(Now, i) : HasToken(chunks, i, t)
    BY <1>4 DEF LabInv, BehindKept
  <2> QED
    BY <2>1, <1>1, <1>2 DEF LabInv, ChunksSound, ContentKept, HasToken
<1>6. WindowsBring'
  BY <1>1 DEF LabInv, ChunksSound, WindowsBring, Apart
<1>7. LabTypes'
  BY <1>1 DEF LabInv, LabTypes
<1>8. BehindKept'
  <2>1. \A i \in DOMAIN corpus : ~Behind(i)'
    BY <1>1, ComponentFacts DEF LabInv, Behind
  <2> QED
    BY <2>1, <1>1 DEF BehindKept
<1>9. Sliding' /\ Windows' /\ Apart(chunks)'
  BY <1>1 DEF Sliding, Windows, Apart
<1> QED
  BY <1>1, <1>5, <1>6, <1>7, <1>8, <1>9 DEF LabInv, ChunksSound

LEMMA LabInductive ==
  ASSUME ChunkingConstantsOK
  PROVE  LabSpec => []LabInv
<1>1. LabInit => LabInv
  <2> SUFFICES ASSUME LabInit PROVE LabInv
    OBVIOUS
  <2>1. /\ corpus \in Corpora /\ reached = 1 /\ start = 0 /\ chunks = {}
        /\ materialized = [name \in {} |-> {}]
    BY DEF LabInit
  <2>2. LabTypes
    BY <2>1 DEF LabTypes
  <2>3. \A i \in DOMAIN corpus : ~Behind(i)
    BY <2>1, <2>2, ComponentFacts DEF Behind
  <2>4. BehindKept /\ Sliding /\ Windows /\ Apart(chunks)
    BY <2>1, <2>3 DEF BehindKept, Sliding, Windows, Apart
  <2>5. ChunksSound
    BY <2>1 DEF ChunksSound, ContentKept, WindowsBring
  <2> QED
    BY <2>1, <2>2, <2>4, <2>5 DEF LabInv
<1>2. LabInv /\ [LabNext]_labVars => LabInv'
  <2> SUFFICES ASSUME LabInv, [LabNext]_labVars PROVE LabInv'
    OBVIOUS
  <2>1. CASE UNCHANGED <<names, corpus, run, reached, start, chunks, materialized>>
    <3>1. /\ Now' = Now /\ \A name, i : Owed(name, i)' = Owed(name, i)
          /\ \A i, s : Cut(i, s)' = Cut(i, s) /\ \A j : Behind(j)' = Behind(j)
      BY <2>1 DEF Now, Owed, Described, Named, Tokens, Cut, Verbatim, Behind
    <3> QED
      BY <2>1, <3>1 DEF LabInv, LabTypes, BehindKept, Sliding, Windows, Apart,
                        ChunksSound, ContentKept, WindowsBring, HasToken
  <2>2. CASE BuildChunkers \/ Raise \/ Answer \/ UNCHANGED labVars
    BY <2>1, <2>2 DEF BuildChunkers, Raise, Answer, labVars
  <2>3. CASE Structural \/ SentenceWindow \/ Propositional \/ Contextual
    BY <2>2, <2>3, ComponentSteps DEF Propositional, Contextual
  <2>4. CASE Recursive \/ Hierarchical \/ Semantic
    BY <2>2, <2>4, BudgetSteps DEF Semantic
  <2> QED
    BY <2>2, <2>3, <2>4, FixedStep, NextStep DEF LabNext
<1> QED
  BY <1>1, <1>2, PTL DEF LabSpec

\* Whatever the budgets and the size of the windows, the chunks of a strategy
\* that is done hold every token it owes of every component, and no fixed window
\* is part of another (the chunkers, ChunkingComparator._materialize).
THEOREM ChunksAreSound ==
  ASSUME ChunkingConstantsOK
  PROVE  LabSpec => []ChunksSound
<1>1. LabInv => ChunksSound
  BY DEF LabInv
<1> QED
  BY <1>1, LabInductive, PTL
================================================================================
