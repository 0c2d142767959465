----------------------------- MODULE Pseudonyms -----------------------------
(***************************************************************************)
(* ConsistentPseudonymizer over the table pseudonym_mappings: each value   *)
(* detected in a text is replaced by the pseudonym of its row, which the   *)
(* first to see the value inserts.  Each worker has its own session and    *)
(* its own pseudonymizer; the right to be forgotten deletes rows meanwhile.*)
(*                                                                         *)
(* A step is a statement or a commit; the conflict of an INSERT waits for  *)
(* the transaction that inserted first.                                    *)
(***************************************************************************)
EXTENDS Naturals, Sequences, FiniteSets

CONSTANTS
  Workers,     \* callers of pseudonymize
  Inputs,      \* what they may be called with: a text, and the spans detected in it
  Width,       \* the length of the n-th pseudonym a generator makes
  MaxTexts,    \* bound: texts a worker processes
  MaxForgets,  \* bound: deletions
  None

Types == UNION {{r.type : r \in i.spans} : i \in Inputs}

Between(text, r) == SubSeq(text, r.start, r.end)

\* What the table is keyed on: a type and the HMAC of the value.
Keys == UNION {{<<r.type, Between(i.text, r)>> : r \in i.spans} : i \in Inputs}

MaxDraws == DOMAIN Width

\* Assumed of the constants.
PseudonymConstantsOK ==
  /\ \A i \in Inputs : Len(i.text) \in Nat
  /\ \A i \in Inputs : \A r \in i.spans : r.end \in 1..Len(i.text) /\ r.start \in 1..r.end
  /\ Width \in Seq(Nat)
  /\ None \notin Workers \cup MaxDraws
  /\ {MaxTexts, MaxForgets} \subseteq Nat

VARIABLES
  table,    \* the committed rows: the pseudonym of each key
  pending,  \* the uncommitted row of a key: its transaction
  at,       \* the step each worker takes next
  input,    \* the text it works on, as it came
  todo,     \* the spans it has left
  out,      \* the text with spans replaced
  key,      \* the key it looks up, with the pseudonym it made for it
  drawn,    \* pseudonyms its generators made
  texts,    \* texts it has taken
  forgets,  \* history: deletions of the row of each key
  applied   \* history: pseudonyms applied, with the deletions seen by then

vars == <<table, pending, at, input, todo, out, key, drawn, texts, forgets, applied>>

NoInput == [text |-> <<>>, spans |-> {}]
NoKey == [of |-> None, name |-> None, seen |-> 0]

TypeOK ==
  /\ table \in [Keys -> MaxDraws \cup {None}]
  /\ pending \in [Keys -> Workers \cup {None}]
  /\ at \in [Workers -> {"idle", "lookup", "insert", "commit", "winner", "done", "failed"}]
  /\ input \in [Workers -> Inputs \cup {NoInput}]
  /\ \A w \in Workers : todo[w] \subseteq input[w].spans
  /\ key \in [Workers -> [of : Keys \cup {None}, name : MaxDraws \cup {None}, seen : 0..MaxForgets]]
  /\ drawn \in [Workers -> {0} \cup MaxDraws]
  /\ texts \in [Workers -> 0..MaxTexts]
  /\ forgets \in [Keys -> 0..MaxForgets]
  /\ \A k \in Keys : pending[k] # None =>
       at[pending[k]] = "commit" /\ key[pending[k]].of = k /\ table[k] = None

Init ==
  /\ table = [k \in Keys |-> None]
  /\ pending = [k \in Keys |-> None]
  /\ at = [w \in Workers |-> "idle"]
  /\ input = [w \in Workers |-> NoInput]
  /\ todo = [w \in Workers |-> {}]
  /\ out = [w \in Workers |-> <<>>]
  /\ key = [w \in Workers |-> NoKey]
  /\ drawn = [w \in Workers |-> 0]
  /\ texts = [w \in Workers |-> 0]
  /\ forgets = [k \in Keys |-> 0]
  /\ applied = {}

Goto(w, l) == at' = [at EXCEPT ![w] = l]

\* Mutant: the spans are taken from the left.
Nearest_First(spans) == {r \in spans : \A s \in spans : r.end <= s.end}

\* results.sort(key=end, reverse=True): which of two that end together comes
\* first is up to the analyzer.
Nearest(spans) == {r \in spans : \A s \in spans : s.end <= r.end}

-----------------------------------------------------------------------------

\* A cell of the result is one of the text, at its place, or of a pseudonym.
Cells(text) == [i \in 1..Len(text) |-> [place |-> i, name |-> None]]
Pseudonym(n) == [i \in 1..Width[n] |-> [place |-> 0, name |-> n]]

\* The analysis, and the first of the spans.
Take(w, i) ==
  /\ at[w] \in {"idle", "done", "failed"} /\ texts[w] < MaxTexts
  /\ texts' = [texts EXCEPT ![w] = @ + 1]
  /\ input' = [input EXCEPT ![w] = i]
  /\ todo' = [todo EXCEPT ![w] = i.spans]
  /\ out' = [out EXCEPT ![w] = Cells(i.text)]
  /\ Goto(w, IF i.spans = {} THEN "done" ELSE "lookup")
  /\ UNCHANGED <<table, pending, key, drawn, forgets, applied>>

\* out[:start] + pseudonym + out[end:], with the offsets of the text.
Spliced(text, r, n) ==
  SubSeq(text, 1, IF r.start - 1 <= Len(text) THEN r.start - 1 ELSE Len(text))
    \o Pseudonym(n) \o SubSeq(text, r.end + 1, Len(text))

\* A span whose pseudonym is known; the row was read after seen deletions.
Apply(w, r, k, n, seen) ==
  /\ out' = [out EXCEPT ![w] = Spliced(@, r, n)]
  /\ todo' = [todo EXCEPT ![w] = @ \ {r}]
  /\ applied' = applied \cup {[of |-> k, name |-> n, seen |-> seen]}
  /\ key' = [key EXCEPT ![w] = NoKey]
  /\ Goto(w, IF todo[w] = {r} THEN "done" ELSE "lookup")

KeyOf(w, r) == <<r.type, Between(input[w].text, r)>>

\* MappingsRepository.lookup, or else the generator of the type: Faker is seeded
\* alike in each instance, so its n-th pseudonym is the n-th of every other.  The
\* generators of budget ids and client codes, which are not among the types here,
\* draw from the unseeded random.
Lookup(w, r) ==
  LET k == KeyOf(w, r)
  IN /\ at[w] = "lookup" /\ r \in Nearest(todo[w])
     /\ \/ /\ table[k] # None
           /\ Apply(w, r, k, table[k], forgets[k])
           /\ UNCHANGED drawn
        \/ /\ table[k] = None
           /\ drawn[w] + 1 \in MaxDraws
           /\ drawn' = [drawn EXCEPT ![w] = @ + 1]
           /\ key' = [key EXCEPT ![w] = [of |-> k, name |-> drawn[w] + 1, seen |-> forgets[k]]]
           /\ Goto(w, "insert")
           /\ UNCHANGED <<out, todo, applied>>
     /\ UNCHANGED <<table, pending, input, texts, forgets>>

\* INSERT ... ON CONFLICT DO NOTHING RETURNING.
Insert(w) ==
  LET k == key[w].of
  IN /\ at[w] = "insert" /\ pending[k] = None
     /\ IF table[k] = None
        THEN pending' = [pending EXCEPT ![k] = w] /\ Goto(w, "commit")
        ELSE UNCHANGED pending /\ Goto(w, "winner")
     /\ UNCHANGED <<table, input, todo, out, key, drawn, texts, forgets, applied>>

\* The commit of the row.
Commit(w) ==
  LET k == key[w].of
  IN /\ at[w] = "commit"
     /\ table' = [table EXCEPT ![k] = key[w].name]
     /\ pending' = [pending EXCEPT ![k] = None]
     /\ \E r \in Nearest(todo[w]) : KeyOf(w, r) = k /\ Apply(w, r, k, key[w].name, forgets[k])
     /\ UNCHANGED <<input, drawn, texts, forgets>>

\* Mutant: the loser of the race keeps the pseudonym it made.
Winner_Own(w) ==
  LET k == key[w].of
  IN /\ at[w] = "winner"
     /\ \E r \in Nearest(todo[w]) : KeyOf(w, r) = k /\ Apply(w, r, k, key[w].name, forgets[k])
     /\ UNCHANGED <<table, pending, input, drawn, texts, forgets>>

\* Another writer won: its row is read, and must be there.
Winner(w) ==
  LET k == key[w].of
  IN /\ at[w] = "winner"
     /\ \/ /\ table[k] # None
           /\ \E r \in Nearest(todo[w]) : KeyOf(w, r) = k /\ Apply(w, r, k, table[k], forgets[k])
        \/ /\ table[k] = None
           /\ Goto(w, "failed")
           /\ UNCHANGED <<todo, out, applied, key>>
     /\ UNCHANGED <<table, pending, input, drawn, texts, forgets>>

\* MappingStore.forget.
Forget(k) ==
  /\ table[k] # None /\ forgets[k] < MaxForgets
  /\ table' = [table EXCEPT ![k] = None]
  /\ forgets' = [forgets EXCEPT ![k] = @ + 1]
  /\ UNCHANGED <<pending, at, input, todo, out, key, drawn, texts, applied>>

\* The session loses its connection: what it had not committed is undone.
Disconnect(w) ==
  /\ at[w] \in {"lookup", "insert", "commit", "winner"}
  /\ pending' = [k \in Keys |-> IF pending[k] = w THEN None ELSE pending[k]]
  /\ Goto(w, "idle") /\ key' = [key EXCEPT ![w] = NoKey]
  /\ UNCHANGED <<table, input, todo, out, drawn, texts, forgets, applied>>

Next ==
  \/ \E w \in Workers :
       \/ \E i \in Inputs : Take(w, i)
       \/ \E r \in todo[w] : Lookup(w, r)
       \/ Insert(w) \/ Commit(w) \/ Winner(w) \/ Disconnect(w)
  \/ \E k \in Keys : Forget(k)

Spec == Init /\ [][Next]_vars

-----------------------------------------------------------------------------
(* Properties.                                                             *)

\* Two calls for one value converge to one pseudonym, however they interleave,
\* unless its row was forgotten between them; and a call that lost the race
\* finds the winner's row, unless it was forgotten meanwhile: the assert of
\* mappings.py:86 is not guaranteed by the unique constraint.
MappingsConverge ==
  /\ \A a, b \in applied : a.of = b.of /\ a.seen = b.seen => a.name = b.name
  /\ \A w \in Workers : at[w] = "failed" => forgets[key[w].of] > key[w].seen

Detected(w) == UNION {r.start..r.end : r \in input[w].spans}

Overlapping(r, s) == r # s /\ r.start <= s.end /\ s.start <= r.end

\* Splicing with the offsets of the text leaves no character of a detected
\* value behind, whatever the lengths of the pseudonyms and however the spans
\* overlap; and it loses no other character as long as they do not.
SpliceHonest ==
  \A w \in Workers : at[w] = "done" =>
    LET places == {out[w][i].place : i \in DOMAIN out[w]}
    IN /\ places \cap Detected(w) = {}
       /\ (\A r, s \in input[w].spans : ~Overlapping(r, s)) =>
            (1..Len(input[w].text)) \ Detected(w) \subseteq places
=============================================================================
