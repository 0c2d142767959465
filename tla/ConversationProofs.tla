-------------------------- MODULE ConversationProofs --------------------------
(***************************************************************************)
(* Proofs about Conversation and ChatSessions: what a session remembers,   *)
(* whatever compression, failing calls and restarts do to it, and what the *)
(* Rails mirror shows of it.                                               *)
(*                                                                         *)
(* The order of the turns in a log and the place of each turn are facts    *)
(* about sequences of turns alone.  They are stated once as Mem, over      *)
(* constants, with one lemma per thing that happens to a session.          *)
(***************************************************************************)
EXTENDS ChatSessions, FiniteSetTheorems, SequenceTheorems, TLAPS

(***************************************************************************)
(* The inductive invariant of the service.                                 *)
(***************************************************************************)

\* The turns of L that are no longer in the window W.
Front(W, L) == {L[k] : k \in 1..(Len(L) - Len(W))}

\* x was said before y, and both before the window.
FrontOrdered(x, y, W, L) ==
  \E k, l \in 1..(Len(L) - Len(W)) : k < l /\ L[k] = x /\ L[l] = y

\* The window W and the anchors A quote turns of the log L, the others are in
\* the summary S, forgotten (D) or pending (P); C are those that commit.
Mem(W, A, S, L, D, P, C) ==
  /\ Len(W) <= Len(L)
  /\ \A i \in 1..Len(W) : W[i] = L[Len(L) - Len(W) + i]
  /\ \A i, j \in 1..Len(L) : L[i] = L[j] => i = j
  /\ Elems(A) \cup S \cup D \cup P = Front(W, L)
  /\ P \cap (S \cup D) = {}
  /\ IsFiniteSet(S) /\ IsFiniteSet(D) /\ IsFiniteSet(P)
  /\ Len(L) = Len(W) + Len(A) + Cardinality(S) + Cardinality(D) + Cardinality(P)
  /\ \A i, j \in 1..Len(A) : i < j => FrontOrdered(A[i], A[j], W, L)
  /\ AnchorMode = "heuristic" => Front(W, L) \cap C \subseteq Elems(A)

Window(s) == TurnsIn(session[s].window)
Anchors(s) == TurnsIn(session[s].anchors)
Dropped(s) == forgotten \cap Elems(log[s])
Waiting(s) == {t \in work.evicted : ask[t].session = s}
Committed(s) == {t \in Elems(log[s]) : Commits(t)}

MemoryAt(s) ==
  Mem(Window(s), Anchors(s), session[s].summary, log[s], Dropped(s), Waiting(s), Committed(s))

MemoryOK == \A s \in Alive : MemoryAt(s)

Kept(t) == pc[t] = "answered" \/ Remembering(t)

ResultOf(t) == IF Remembering(t) THEN work.result ELSE answer[t]

AnswersAt(s) ==
  /\ Elems(log[s]) = {t \in Turns : Kept(t) /\ ask[t].session = s}
  /\ \A i \in 1..Len(session[s].window) :
       session[s].window[i].result = ResultOf(session[s].window[i].turn)
  /\ \A i \in 1..Len(session[s].anchors) :
       session[s].anchors[i].result = ResultOf(session[s].anchors[i].turn)

AnswersOK ==
  /\ \A s \in Alive : AnswersAt(s)
  /\ \A t \in forgotten : Kept(t)

Round == [verdict : Verdicts, decision : {"accept", "iterate", "synthesize"}]

WorkType == [tier : Tiers \cup {Nothing}, current : Draft \cup {Nothing}, rounds : Seq(Round),
             result : Draft \cup {Nothing}, index : Nat, evicted : SUBSET Turns]

WorkOK ==
  /\ work \in WorkType
  /\ \A t \in Turns : pc[t] \in Running =>
       /\ pc[t] = "critic" => work.current \in Draft
       /\ pc[t] \in {"actor", "critic"} => Len(work.rounds) < MaxIterations
       /\ pc[t] \notin {"compress", "summarize"} => work.evicted = {}
       /\ \A u \in work.evicted : ask[u].session = ask[t].session
  /\ \A t \in Turns : pc[t] = "not_found" => ask[t].session \notin Alive

TierOK ==
  /\ \A s \in regulated : "regulatory" \in session[s].metadata.techs
  /\ RegulationRemembered

ServiceInv == TypeOK /\ WorkOK /\ MemoryOK /\ AnswersOK /\ TierOK

(***************************************************************************)
(* The inductive invariant of the chats.                                   *)
(***************************************************************************)

\* What a request knows of its turn.
WebOK ==
  \A t \in Turns :
    /\ web[t] = "unsent" <=> pc[t] = "unsent"
    /\ web[t] \in {"recorded", "fetched", "shown", "stale", "orphaned"} => pc[t] = "answered"
    /\ web[t] = "invalid" => pc[t] = "rejected"
    /\ web[t] = "unavailable" => pc[t] \in {"failed", "lost"}
    /\ web[t] = "expired" => pc[t] = "not_found"

BesideOK ==
  \A t, u \in Turns :
    web[t] \in InFlight /\ web[u] \in InFlight /\ ChatOf(t) = ChatOf(u) /\ t # u => t \in beside

Before(s, t, u) ==
  \E k, l \in 1..Len(log[s]) : k < l /\ log[s][k] = t /\ log[s][l] = u

ShownOK ==
  /\ \A s \in Sessions :
       /\ chat[s] # NoChat => s \in issued
       /\ \A t \in Elems(shown[s]) :
            ChatOf(t) = s /\ web[t] \in {"recorded", "fetched", "shown", "stale"}
  /\ \A s \in Mirrored :
       /\ \A t \in Elems(log[s]) \ Elems(shown[s]) : web[t] \in {"posting", "timed_out"}
       /\ \A t \in Elems(shown[s]), u \in Elems(log[s]) :
            web[u] \in InFlight /\ t # u /\ {t, u} \cap beside = {} => Before(s, t, u)
       /\ \A i, j \in 1..Len(shown[s]) :
            i < j /\ {shown[s][i], shown[s][j]} \cap beside = {} =>
              Before(s, shown[s][i], shown[s][j])

\* A snapshot read by turn t, or kept in the row, misses only excused turns.
Excused(t) == web[t] \in InFlight \cup {"timed_out", "stale"} \/ t \in beside

FreshOK ==
  /\ PanelFresh
  /\ \A t \in Turns : web[t] = "fetched" /\ ChatOf(t) \in Mirrored =>
       /\ t \in fetched[t].covers
       /\ \A u \in Elems(log[ChatOf(t)]) :
            pc[u] = "answered" /\ u \notin fetched[t].covers /\ u # t => Excused(u)

ChatsInv == ChatsTypeOK /\ WebOK /\ BesideOK /\ ShownOK /\ FreshOK

-----------------------------------------------------------------------------
(* What happens to the memory of a session.                                *)

\* The empty session.
LEMMA MemNew ==
  ASSUME NEW C
  PROVE  Mem(<<>>, <<>>, {}, <<>>, {}, {}, C)
<1>1. Front(<<>>, <<>>) = {} /\ Elems(<<>>) = {}
  BY DEF Front, Elems
<1>2. IsFiniteSet({}) /\ Cardinality({}) = 0
  BY FS_EmptySet
<1>3. Len(<<>>) = 0
  OBVIOUS
<1>4. {} = 1..0
  OBVIOUS
<1>5. \A i \in 1..0 : FALSE
  OBVIOUS
<1>6. Len(<<>>) = Len(<<>>) + Len(<<>>) + Cardinality({}) + Cardinality({}) + Cardinality({})
  BY <1>2, <1>3
<1>7. \A i \in 1..Len(<<>>) : FALSE
  BY <1>3, <1>5
<1>8. Len(<<>>) <= Len(<<>>)
  BY <1>3
<1>9. Elems(<<>>) \cup {} \cup {} \cup {} = Front(<<>>, <<>>) /\ {} \cap ({} \cup {}) = {}
  BY <1>1
<1>10. Front(<<>>, <<>>) \cap C \subseteq Elems(<<>>)
  BY <1>1
<1> QED
  BY <1>2, <1>6, <1>7, <1>8, <1>9, <1>10, Zenon DEF Mem

\* Only the commitments of the front matter.
LEMMA MemCommits ==
  ASSUME NEW W, NEW A, NEW S, NEW L, NEW D, NEW P, NEW C, NEW C2, Mem(W, A, S, L, D, P, C),
         C2 \subseteq C
  PROVE  Mem(W, A, S, L, D, P, C2)
  BY DEF Mem

\* A turn is appended to the window.
LEMMA MemAppend ==
  ASSUME NEW W \in Seq(Turns), NEW A \in Seq(Turns), NEW S, NEW L \in Seq(Turns), NEW D, NEW P,
         NEW C, NEW C2, NEW t \in Turns,
         Mem(W, A, S, L, D, P, C), t \notin Elems(L), C2 \subseteq C \cup {t}
  PROVE  Mem(Append(W, t), A, S, Append(L, t), D, P, C2)
<1> DEFINE W2 == Append(W, t)
           L2 == Append(L, t)
<1>1. /\ Len(W2) = Len(W) + 1 /\ Len(L2) = Len(L) + 1
      /\ Len(W) \in Nat /\ Len(L) \in Nat /\ Len(A) \in Nat /\ Len(W) <= Len(L)
      /\ \A i \in 1..Len(W) : W2[i] = W[i]
      /\ W2[Len(W) + 1] = t
      /\ \A i \in 1..Len(L) : L2[i] = L[i] /\ L2[i] # t
      /\ L2[Len(L) + 1] = t
  <2>1. Len(W) <= Len(L)
    BY DEF Mem
  <2>2. DOMAIN L = 1..Len(L)
    OBVIOUS
  <2>3. \A i \in 1..Len(L) : L[i] # t
    BY <2>2 DEF Elems
  <2> QED
    BY <2>1, <2>3
<1> HIDE DEF W2, L2
<1>2. Front(W2, L2) = Front(W, L) /\ t \notin Front(W, L)
  <2>1. Len(L2) - Len(W2) = Len(L) - Len(W) /\ Len(L) - Len(W) <= Len(L) /\ Len(L) - Len(W) \in Nat
    BY <1>1
  <2>2. \A k \in 1..(Len(L) - Len(W)) : L2[k] = L[k] /\ L[k] # t
    BY <1>1, <2>1
  <2> QED
    BY <2>1, <2>2 DEF Front
<1>3. \A x, y : FrontOrdered(x, y, W, L) => FrontOrdered(x, y, W2, L2)
  <2>1. Len(L2) - Len(W2) = Len(L) - Len(W)
    BY <1>1
  <2>2. \A k \in 1..(Len(L) - Len(W)) : L2[k] = L[k]
    BY <1>1
  <2> QED
    BY <2>1, <2>2 DEF FrontOrdered
<1>4. Len(W2) <= Len(L2)
  BY <1>1
<1>5. \A i \in 1..Len(W2) : W2[i] = L2[Len(L2) - Len(W2) + i]
  <2> SUFFICES ASSUME NEW i \in 1..Len(W2) PROVE W2[i] = L2[Len(L2) - Len(W2) + i]
    OBVIOUS
  <2>1. CASE i = Len(W) + 1
    <3>1. Len(L2) - Len(W2) + i = Len(L) + 1
      BY <1>1, <2>1
    <3> QED
      BY <1>1, <2>1, <3>1
  <2>2. CASE i # Len(W) + 1
    <3>1. /\ i \in 1..Len(W) /\ Len(L) - Len(W) + i \in 1..Len(L)
          /\ Len(L2) - Len(W2) + i = Len(L) - Len(W) + i
      BY <1>1, <2>2
    <3>2. W[i] = L[Len(L) - Len(W) + i]
      BY <3>1 DEF Mem
    <3> QED
      BY <1>1, <3>1, <3>2
  <2> QED
    BY <2>1, <2>2
<1>6. \A i, j \in 1..Len(L2) : L2[i] = L2[j] => i = j
  <2>1. \A i \in 1..Len(L2) : i \in 1..Len(L) \/ i = Len(L) + 1
    BY <1>1
  <2>2. \A i \in 1..Len(L) : L2[i] = L[i] /\ L[i] # t
    BY <1>1
  <2>3. L2[Len(L) + 1] = t
    BY <1>1
  <2>4. \A i, j \in 1..Len(L) : L[i] = L[j] => i = j
    BY DEF Mem
  <2> QED
    BY <2>1, <2>2, <2>3, <2>4
<1>7. Len(L2) = Len(W2) + Len(A) + Cardinality(S) + Cardinality(D) + Cardinality(P)
  <2>1. Cardinality(S) \in Nat /\ Cardinality(D) \in Nat /\ Cardinality(P) \in Nat
    BY FS_CardinalityType DEF Mem
  <2>2. Len(L) = Len(W) + Len(A) + Cardinality(S) + Cardinality(D) + Cardinality(P)
    BY DEF Mem
  <2> QED
    BY <1>1, <2>1, <2>2
<1>8. AnchorMode = "heuristic" => Front(W2, L2) \cap C2 \subseteq Elems(A)
  BY <1>2 DEF Mem
<1>9. \A i, j \in 1..Len(A) : i < j => FrontOrdered(A[i], A[j], W2, L2)
  BY <1>3 DEF Mem
<1>10. Elems(A) \cup S \cup D \cup P = Front(W2, L2) /\ P \cap (S \cup D) = {}
  BY <1>2 DEF Mem
<1>11. Mem(W2, A, S, L2, D, P, C2)
  BY <1>4, <1>5, <1>6, <1>7, <1>8, <1>9, <1>10 DEF Mem
<1> QED
  BY <1>11 DEF W2, L2

\* The oldest turn of the window goes to the front.
LEMMA FrontGrows ==
  ASSUME NEW W \in Seq(Turns), NEW A, NEW S, NEW L \in Seq(Turns), NEW D, NEW P, NEW C,
         Mem(W, A, S, L, D, P, C), Len(W) > 0
  PROVE  /\ Len(Tail(W)) = Len(W) - 1 /\ Len(Tail(W)) <= Len(L)
         /\ Front(Tail(W), L) = Front(W, L) \cup {Head(W)}
         /\ Head(W) \notin Front(W, L)
         /\ \A x, y : FrontOrdered(x, y, W, L) => FrontOrdered(x, y, Tail(W), L)
         /\ \A x \in Front(W, L) : FrontOrdered(x, Head(W), Tail(W), L)
         /\ \A i \in 1..Len(Tail(W)) : Tail(W)[i] = L[Len(L) - Len(Tail(W)) + i]
<1> DEFINE k == Len(L) - Len(W)
           V == Tail(W)
<1>1. /\ k \in Nat /\ k + 1 \in 1..Len(L) /\ Len(W) \in Nat /\ Len(L) \in Nat
      /\ Len(V) = Len(W) - 1 /\ Len(L) - Len(V) = k + 1 /\ Len(V) \in Nat
      /\ \A i \in 1..Len(V) : V[i] = W[i + 1]
  BY DEF Mem
<1>2. L[k + 1] = Head(W)
  <2>1. 1 \in 1..Len(W) /\ Head(W) = W[1]
    BY <1>1
  <2> QED
    BY <2>1 DEF Mem
<1>2a. \A i \in 1..Len(V) : V[i] = L[Len(L) - Len(V) + i]
  <2> SUFFICES ASSUME NEW i \in 1..Len(V) PROVE V[i] = L[Len(L) - Len(V) + i]
    OBVIOUS
  <2> HIDE DEF V
  <2>1. i + 1 \in 1..Len(W) /\ V[i] = W[i + 1] /\ Len(L) - Len(V) + i = Len(L) - Len(W) + (i + 1)
    BY <1>1
  <2>2. W[i + 1] = L[Len(L) - Len(W) + (i + 1)]
    BY <2>1 DEF Mem
  <2> QED
    BY <2>1, <2>2
<1> HIDE DEF V
<1>3. Front(V, L) = Front(W, L) \cup {Head(W)}
  <2>1. 1..(k + 1) = 1..k \cup {k + 1}
    BY <1>1
  <2>2. Front(V, L) = {L[i] : i \in 1..(k + 1)} /\ Front(W, L) = {L[i] : i \in 1..k}
    BY <1>1 DEF Front
  <2> QED
    BY <1>2, <2>1, <2>2
<1>4. Head(W) \notin Front(W, L)
  <2>1. \A i \in 1..k : i \in 1..Len(L) /\ i # k + 1
    BY <1>1
  <2>2. \A i \in 1..k : L[i] # L[k + 1]
    BY <1>1, <2>1 DEF Mem
  <2> QED
    BY <1>2, <2>2 DEF Front
<1>5. \A x, y : FrontOrdered(x, y, W, L) => FrontOrdered(x, y, V, L)
  <2>1. 1..k \subseteq 1..(k + 1)
    BY <1>1
  <2> QED
    BY <1>1, <2>1 DEF FrontOrdered
<1>6. \A x \in Front(W, L) : FrontOrdered(x, Head(W), V, L)
  <2> SUFFICES ASSUME NEW x \in Front(W, L) PROVE FrontOrdered(x, Head(W), V, L)
    OBVIOUS
  <2>1. PICK i \in 1..k : L[i] = x
    BY DEF Front
  <2>2. i \in 1..(k + 1) /\ k + 1 \in 1..(k + 1) /\ i < k + 1
    BY <1>1
  <2> QED
    BY <1>1, <1>2, <2>1, <2>2 DEF FrontOrdered
<1>7. Len(V) <= Len(L)
  BY <1>1
<1> QED
  BY <1>1, <1>2a, <1>3, <1>4, <1>5, <1>6, <1>7 DEF V

\* The oldest turn becomes an anchor.
LEMMA MemAnchor ==
  ASSUME NEW W \in Seq(Turns), NEW A \in Seq(Turns), NEW S, NEW L \in Seq(Turns), NEW D, NEW P,
         NEW C, Mem(W, A, S, L, D, P, C), Len(W) > 0
  PROVE  Mem(Tail(W), Append(A, Head(W)), S, L, D, P, C)
<1> DEFINE B == Append(A, Head(W))
<1>0. /\ Len(Tail(W)) = Len(W) - 1 /\ Len(Tail(W)) <= Len(L)
      /\ Front(Tail(W), L) = Front(W, L) \cup {Head(W)}
      /\ Head(W) \notin Front(W, L)
      /\ \A x, y : FrontOrdered(x, y, W, L) => FrontOrdered(x, y, Tail(W), L)
      /\ \A x \in Front(W, L) : FrontOrdered(x, Head(W), Tail(W), L)
      /\ \A i \in 1..Len(Tail(W)) : Tail(W)[i] = L[Len(L) - Len(Tail(W)) + i]
  BY FrontGrows
<1>1. /\ Head(W) \in Turns /\ Len(A) \in Nat /\ Len(W) \in Nat
      /\ Len(B) = Len(A) + 1
      /\ \A i \in 1..Len(A) : B[i] = A[i]
      /\ B[Len(A) + 1] = Head(W)
  OBVIOUS
<1> HIDE DEF B
<1>2. Elems(B) = Elems(A) \cup {Head(W)}
  <2>1. 1..Len(B) = 1..Len(A) \cup {Len(A) + 1}
    BY <1>1
  <2>2. DOMAIN A = 1..Len(A) /\ DOMAIN B = 1..Len(B)
    BY <1>1 DEF B
  <2> QED
    BY <1>1, <2>1, <2>2 DEF Elems
<1>3. Elems(A) \subseteq Front(W, L) /\ \A i \in 1..Len(A) : A[i] \in Front(W, L)
  <2>1. DOMAIN A = 1..Len(A)
    OBVIOUS
  <2> QED
    BY <2>1 DEF Mem, Elems
<1>4. \A i, j \in 1..Len(B) : i < j => FrontOrdered(B[i], B[j], Tail(W), L)
  <2> SUFFICES ASSUME NEW i \in 1..Len(B), NEW j \in 1..Len(B), i < j
               PROVE FrontOrdered(B[i], B[j], Tail(W), L)
    OBVIOUS
  <2>1. i \in 1..Len(A) /\ B[i] = A[i]
    BY <1>1
  <2>2. CASE j = Len(A) + 1
    BY <1>1, <1>3, <2>1, <2>2, <1>0
  <2>3. CASE j # Len(A) + 1
    <3>1. j \in 1..Len(A) /\ B[j] = A[j]
      BY <1>1, <2>3
    <3>2. FrontOrdered(A[i], A[j], W, L)
      BY <2>1, <3>1 DEF Mem
    <3> QED
      BY <2>1, <3>1, <3>2, <1>0
  <2> QED
    BY <2>2, <2>3
<1>5. /\ Elems(B) \cup S \cup D \cup P = Front(Tail(W), L)
      /\ P \cap (S \cup D) = {}
      /\ AnchorMode = "heuristic" => Front(Tail(W), L) \cap C \subseteq Elems(B)
  BY <1>2, <1>0 DEF Mem
<1>6. /\ Len(Tail(W)) <= Len(L)
      /\ Len(L) = Len(Tail(W)) + Len(B) + Cardinality(S) + Cardinality(D) + Cardinality(P)
  <2>1. Cardinality(S) \in Nat /\ Cardinality(D) \in Nat /\ Cardinality(P) \in Nat
    BY FS_CardinalityType DEF Mem
  <2>2. /\ Len(L) = Len(W) + Len(A) + Cardinality(S) + Cardinality(D) + Cardinality(P)
        /\ Len(W) <= Len(L)
    BY DEF Mem
  <2>3. Len(Tail(W)) = Len(W) - 1
    BY <1>0
  <2>4. Len(L) = (Len(W) - 1) + Len(B) + Cardinality(S) + Cardinality(D) + Cardinality(P)
    BY <1>1, <2>1, <2>2
  <2> QED
    BY <1>0, <2>4, Zenon
<1>7. \A i \in 1..Len(Tail(W)) : Tail(W)[i] = L[Len(L) - Len(Tail(W)) + i]
  BY <1>0
<1>8. Mem(Tail(W), B, S, L, D, P, C)
  BY <1>4, <1>5, <1>6, <1>7 DEF Mem
<1> QED
  BY <1>8 DEF B

\* The oldest turn is evicted, and waits for the summarizer.
LEMMA MemEvict ==
  ASSUME NEW W \in Seq(Turns), NEW A \in Seq(Turns), NEW S, NEW L \in Seq(Turns), NEW D, NEW P,
         NEW C, Mem(W, A, S, L, D, P, C), Len(W) > 0,
         AnchorMode = "heuristic" => Head(W) \notin C
  PROVE  Mem(Tail(W), A, S, L, D, P \cup {Head(W)}, C)
<1> DEFINE Q == P \cup {Head(W)}
<1>0. /\ Len(Tail(W)) = Len(W) - 1 /\ Len(Tail(W)) <= Len(L)
      /\ Front(Tail(W), L) = Front(W, L) \cup {Head(W)}
      /\ Head(W) \notin Front(W, L)
      /\ \A x, y : FrontOrdered(x, y, W, L) => FrontOrdered(x, y, Tail(W), L)
      /\ \A x \in Front(W, L) : FrontOrdered(x, Head(W), Tail(W), L)
      /\ \A i \in 1..Len(Tail(W)) : Tail(W)[i] = L[Len(L) - Len(Tail(W)) + i]
  BY FrontGrows
<1>1. Head(W) \notin P /\ Head(W) \notin S \cup D
  BY <1>0 DEF Mem
<1>2. IsFiniteSet(Q) /\ Cardinality(Q) = Cardinality(P) + 1
  BY <1>1, FS_AddElement DEF Mem
<1>3. Q \cap (S \cup D) = {}
  BY <1>1 DEF Mem
<1>4. /\ Elems(A) \cup S \cup D \cup Q = Front(Tail(W), L)
      /\ AnchorMode = "heuristic" => Front(Tail(W), L) \cap C \subseteq Elems(A)
      /\ \A i, j \in 1..Len(A) : i < j => FrontOrdered(A[i], A[j], Tail(W), L)
      /\ \A i \in 1..Len(Tail(W)) : Tail(W)[i] = L[Len(L) - Len(Tail(W)) + i]
  BY <1>0 DEF Mem
<1> HIDE DEF Q
<1>5. /\ Len(Tail(W)) <= Len(L)
      /\ Len(L) = Len(Tail(W)) + Len(A) + Cardinality(S) + Cardinality(D) + Cardinality(Q)
  <2>1. Cardinality(S) \in Nat /\ Cardinality(D) \in Nat /\ Cardinality(P) \in Nat
    BY FS_CardinalityType DEF Mem
  <2>2. /\ Len(L) = Len(W) + Len(A) + Cardinality(S) + Cardinality(D) + Cardinality(P)
        /\ Len(W) <= Len(L)
    BY DEF Mem
  <2>3. Len(Tail(W)) = Len(W) - 1 /\ Len(W) \in Nat /\ Len(A) \in Nat
    BY <1>0
  <2>4. Len(L) = (Len(W) - 1) + Len(A) + Cardinality(S) + Cardinality(D) + Cardinality(Q)
    BY <1>2, <2>1, <2>2, <2>3
  <2> QED
    BY <1>0, <2>4, Zenon
<1>6. Mem(Tail(W), A, S, L, D, Q, C)
  BY <1>2, <1>3, <1>4, <1>5 DEF Mem
<1> QED
  BY <1>6 DEF Q

\* The evicted turns enter the summary.
LEMMA MemSummarize ==
  ASSUME NEW W \in Seq(Turns), NEW A \in Seq(Turns), NEW S, NEW L \in Seq(Turns), NEW D, NEW P,
         NEW C, Mem(W, A, S, L, D, P, C)
  PROVE  Mem(W, A, S \cup P, L, D, {}, C)
<1>1. IsFiniteSet(S \cup P) /\ Cardinality(S \cup P) = Cardinality(S) + Cardinality(P)
  <2>1. IsFiniteSet(S) /\ IsFiniteSet(P) /\ S \cap P = {}
    BY DEF Mem
  <2>2. /\ IsFiniteSet(S \cup P) /\ Cardinality(S \cup P) =
             Cardinality(S) + Cardinality(P) - Cardinality(S \cap P)
    BY <2>1, FS_Union
  <2>3. Cardinality(S \cap P) = 0 /\ Cardinality(S) \in Nat /\ Cardinality(P) \in Nat
    BY <2>1, FS_EmptySet, FS_CardinalityType
  <2> QED
    BY <2>2, <2>3
<1>2. IsFiniteSet({}) /\ Cardinality({}) = 0
  BY FS_EmptySet
<1>3. Len(L) = Len(W) + Len(A) + Cardinality(S \cup P) + Cardinality(D) + Cardinality({})
  <2>1. Cardinality(S) \in Nat /\ Cardinality(D) \in Nat /\ Cardinality(P) \in Nat
    BY FS_CardinalityType DEF Mem
  <2>2. Len(L) = Len(W) + Len(A) + Cardinality(S) + Cardinality(D) + Cardinality(P)
    BY DEF Mem
  <2> QED
    BY <1>1, <1>2, <2>1, <2>2
<1> QED
  BY <1>1, <1>2, <1>3 DEF Mem

\* The evicted turns are forgotten.
LEMMA MemForget ==
  ASSUME NEW W \in Seq(Turns), NEW A \in Seq(Turns), NEW S, NEW L \in Seq(Turns), NEW D, NEW P,
         NEW C, Mem(W, A, S, L, D, P, C)
  PROVE  Mem(W, A, S, L, D \cup P, {}, C)
<1>1. IsFiniteSet(D \cup P) /\ Cardinality(D \cup P) = Cardinality(D) + Cardinality(P)
  <2>1. IsFiniteSet(D) /\ IsFiniteSet(P) /\ D \cap P = {}
    BY DEF Mem
  <2>2. /\ IsFiniteSet(D \cup P) /\ Cardinality(D \cup P) =
             Cardinality(D) + Cardinality(P) - Cardinality(D \cap P)
    BY <2>1, FS_Union
  <2>3. Cardinality(D \cap P) = 0 /\ Cardinality(D) \in Nat /\ Cardinality(P) \in Nat
    BY <2>1, FS_EmptySet, FS_CardinalityType
  <2> QED
    BY <2>2, <2>3
<1>2. IsFiniteSet({}) /\ Cardinality({}) = 0
  BY FS_EmptySet
<1>3. Len(L) = Len(W) + Len(A) + Cardinality(S) + Cardinality(D \cup P) + Cardinality({})
  <2>1. Cardinality(S) \in Nat /\ Cardinality(D) \in Nat /\ Cardinality(P) \in Nat
    BY FS_CardinalityType DEF Mem
  <2>2. Len(L) = Len(W) + Len(A) + Cardinality(S) + Cardinality(D) + Cardinality(P)
    BY DEF Mem
  <2> QED
    BY <1>1, <1>2, <2>1, <2>2
<1> QED
  BY <1>1, <1>2, <1>3 DEF Mem

\* The log is the front and the window, in this order.
LEMMA MemSplits ==
  ASSUME NEW W \in Seq(Turns), NEW A \in Seq(Turns), NEW S, NEW L \in Seq(Turns), NEW D, NEW P,
         NEW C, Mem(W, A, S, L, D, P, C)
  PROVE  /\ Elems(L) = Elems(W) \cup Front(W, L)
         /\ W = SubSeq(L, Len(L) - Len(W) + 1, Len(L))
<1> DEFINE k == Len(L) - Len(W)
<1>1. k \in Nat /\ Len(L) \in Nat /\ Len(W) \in Nat /\ DOMAIN L = 1..Len(L) /\ DOMAIN W = 1..Len(W)
  BY DEF Mem
<1>2. \A i \in 1..Len(W) : W[i] = L[k + i] /\ k + i \in 1..Len(L)
  BY <1>1 DEF Mem
<1>3. \A i \in 1..Len(L) : i \in 1..k \/ (i - k \in 1..Len(W) /\ i = k + (i - k))
  BY <1>1
<1>4. Elems(L) \subseteq Elems(W) \cup Front(W, L)
  <2> SUFFICES ASSUME NEW i \in 1..Len(L) PROVE L[i] \in Elems(W) \cup Front(W, L)
    BY <1>1 DEF Elems
  <2>1. CASE i \in 1..k
    BY <2>1 DEF Front
  <2>2. CASE i - k \in 1..Len(W) /\ i = k + (i - k)
    BY <1>1, <1>2, <2>2 DEF Elems
  <2> QED
    BY <1>3, <2>1, <2>2
<1>5. Elems(W) \cup Front(W, L) \subseteq Elems(L)
  <2>1. 1..k \subseteq 1..Len(L)
    BY <1>1
  <2> QED
    BY <1>1, <1>2, <2>1 DEF Elems, Front
<1>6. W = SubSeq(L, k + 1, Len(L))
  <2>1. SubSeq(L, k + 1, Len(L)) = [i \in 1..Len(W) |-> L[i + k]]
    BY <1>1
  <2>2. W = [i \in 1..Len(W) |-> W[i]]
    BY <1>1
  <2>3. \A i \in 1..Len(W) : W[i] = L[i + k]
    BY <1>1, <1>2
  <2> QED
    BY <2>1, <2>2, <2>3
<1> QED
  BY <1>4, <1>5, <1>6

\* What the prompt quotes is in the order of the log.
LEMMA MemOrdered ==
  ASSUME NEW W \in Seq(Turns), NEW A \in Seq(Turns), NEW S, NEW L \in Seq(Turns), NEW D, NEW P,
         NEW C, Mem(W, A, S, L, D, P, C),
         NEW i \in DOMAIN (A \o W), NEW j \in DOMAIN (A \o W), i < j
  PROVE  \E k, l \in DOMAIN L : k < l /\ L[k] = (A \o W)[i] /\ L[l] = (A \o W)[j]
<1> DEFINE Q == A \o W
           f == Len(L) - Len(W)
<1>1. /\ f \in Nat /\ Len(L) \in Nat /\ Len(W) \in Nat /\ Len(A) \in Nat
      /\ DOMAIN L = 1..Len(L) /\ DOMAIN Q = 1..(Len(A) + Len(W))
      /\ \A m \in 1..Len(A) : Q[m] = A[m]
      /\ \A m \in 1..Len(W) : Q[Len(A) + m] = W[m]
  BY DEF Mem
<1>2. i \in 1..(Len(A) + Len(W)) /\ j \in 1..(Len(A) + Len(W))
  BY <1>1
<1> HIDE DEF Q
<1>3. \A m \in 1..f : m \in 1..Len(L)
  BY <1>1
<1>4. CASE j <= Len(A)
  <2>1. i \in 1..Len(A) /\ j \in 1..Len(A)
    BY <1>1, <1>2, <1>4
  <2>2. FrontOrdered(A[i], A[j], W, L)
    BY <2>1 DEF Mem
  <2> QED
    BY <1>1, <1>3, <2>1, <2>2 DEF FrontOrdered, Q
<1>5. CASE j > Len(A)
  <2>1. j - Len(A) \in 1..Len(W) /\ j = Len(A) + (j - Len(A))
    BY <1>1, <1>2, <1>5
  <2>2. Q[j] = W[j - Len(A)]
    BY <1>1, <2>1
  <2>3. W[j - Len(A)] = L[f + (j - Len(A))] /\ f + (j - Len(A)) \in 1..Len(L)
    BY <1>1, <2>1 DEF Mem
  <2>4. CASE i <= Len(A)
    <3>1. i \in 1..Len(A) /\ i \in DOMAIN A
      BY <1>1, <1>2, <2>4
    <3>2. A[i] \in Front(W, L)
      BY <3>1 DEF Mem, Elems
    <3>3. PICK k \in 1..f : L[k] = A[i]
      BY <3>2 DEF Front
    <3>4. k < f + (j - Len(A)) /\ k \in 1..Len(L)
      BY <1>1, <2>1, <3>3
    <3> QED
      BY <1>1, <2>2, <2>3, <3>1, <3>3, <3>4 DEF Q
  <2>5. CASE i > Len(A)
    <3>1. i - Len(A) \in 1..Len(W) /\ i = Len(A) + (i - Len(A))
      BY <1>1, <1>2, <2>5
    <3>2. Q[i] = W[i - Len(A)]
      BY <1>1, <3>1
    <3>3. W[i - Len(A)] = L[f + (i - Len(A))] /\ f + (i - Len(A)) \in 1..Len(L)
      BY <1>1, <3>1 DEF Mem
    <3>4. f + (i - Len(A)) < f + (j - Len(A))
      BY <1>1, <1>2
    <3> QED
      BY <1>1, <2>2, <2>3, <3>2, <3>3, <3>4 DEF Q
  <2>6. i <= Len(A) \/ i > Len(A)
    BY <1>1, <1>2
  <2> QED
    BY <2>4, <2>5, <2>6
<1>6. j <= Len(A) \/ j > Len(A)
  BY <1>1, <1>2
<1> QED
  BY <1>4, <1>5, <1>6

-----------------------------------------------------------------------------
(* Sessions, drafts and turns.                                             *)

Calls == {"unsent", "queued"} \cup Running \cup Ended

LEMMA AliveRecord ==
  ASSUME TypeOK, NEW s \in Alive
  PROVE  /\ s \in Sessions /\ session[s] \in SessionRecord
         /\ session[s].window \in Seq(Entry) /\ session[s].anchors \in Seq(Entry)
         /\ session[s].summary \subseteq Turns /\ session[s].metadata \in Metadata
         /\ log[s] \in Seq(Turns)
<1>1. s \in Sessions /\ session[s] \in SessionRecord
  BY DEF TypeOK, Alive
<1> QED
  BY <1>1 DEF TypeOK, SessionRecord

\* A session of the store is replaced by another record.
LEMMA SessionReplaced ==
  ASSUME TypeOK, NEW s \in Alive, NEW r \in SessionRecord, session' = [session EXCEPT ![s] = r]
  PROVE  /\ session' \in [Sessions -> SessionRecord \cup {Nothing}]
         /\ session'[s] = r /\ \A u \in Sessions \ {s} : session'[u] = session[u]
         /\ Alive' = Alive
<1>1. s \in Sessions
  BY DEF Alive
<1>2. r # Nothing
  BY ConversationConstantsOK
<1>3. /\ session' \in [Sessions -> SessionRecord \cup {Nothing}]
      /\ session'[s] = r /\ \A u \in Sessions \ {s} : session'[u] = session[u]
  BY <1>1 DEF TypeOK
<1> QED
  BY <1>1, <1>2, <1>3 DEF Alive

\* The history of a record changes.
LEMMA PutHistory ==
  ASSUME NEW r \in SessionRecord, NEW w \in Seq(Entry), NEW a \in Seq(Entry),
         NEW m \in SUBSET Turns
  PROVE  LET q == [r EXCEPT !.window = w, !.anchors = a, !.summary = m] IN
         /\ q \in SessionRecord
         /\ q.window = w /\ q.anchors = a /\ q.summary = m
         /\ q.metadata = r.metadata /\ q.tier = r.tier /\ q.rule = r.rule
  BY DEF SessionRecord

\* The metadata of a record changes.
LEMMA PutMetadata ==
  ASSUME NEW r \in SessionRecord, NEW m \in Metadata, NEW q, q = [r EXCEPT !.metadata = m]
  PROVE  /\ q \in SessionRecord
         /\ q.window = r.window /\ q.anchors = r.anchors /\ q.summary = r.summary
         /\ q.metadata = m
  BY DEF SessionRecord

LEMMA NewSessionRecord ==
  NewSession \in SessionRecord
<1>1. <<>> \in Seq(Entry)
  OBVIOUS
<1>2. EmptyMetadata \in Metadata
  BY DEF EmptyMetadata, Metadata
<1> QED
  BY <1>1, <1>2 DEF NewSession, SessionRecord

\* The merge keeps what each field says, and every technology.
LEMMA MergeGrows ==
  ASSUME NEW old \in Metadata, NEW update \in Metadata
  PROVE  /\ MergeWith(old, update) \in Metadata
         /\ MergeWith(old, update).techs = old.techs \cup update.techs
  BY DEF MergeWith, Metadata

LEMMA DraftScoped ==
  ASSUME NEW d \in Draft
  PROVE  EnforceScope(d) \in Draft
  BY DEF EnforceScope, Draft

LEMMA DraftSynthesized ==
  ASSUME NEW d \in Draft
  PROVE  SynthesizeFallback(d) \in Draft
<1>1. d.confidence \in 0..100
  BY DEF Draft
<1>2. d.confidence \div 2 \in 0..100
  BY <1>1
<1>3. Bigger(LowConfidence, d.confidence \div 2) \in 30..100
  BY <1>2 DEF Bigger, LowConfidence
<1> QED
  BY <1>3 DEF SynthesizeFallback, Draft, LowConfidence

LEMMA TurnsInAppend ==
  ASSUME NEW w \in Seq(Entry), NEW e \in Entry
  PROVE  /\ TurnsIn(w) \in Seq(Turns) /\ Len(TurnsIn(w)) = Len(w)
         /\ TurnsIn(Append(w, e)) = Append(TurnsIn(w), e.turn)
         /\ \A i \in 1..Len(w) : TurnsIn(w)[i] = w[i].turn /\ w[i].turn \in Turns
<1>a. \A i \in 1..Len(w) : w[i] \in Entry
  OBVIOUS
<1>0. e.turn \in Turns /\ \A i \in 1..Len(w) : w[i].turn \in Turns
  BY <1>a DEF Entry
<1>1. /\ TurnsIn(w) \in Seq(Turns) /\ Len(TurnsIn(w)) = Len(w)
      /\ \A i \in 1..Len(w) : TurnsIn(w)[i] = w[i].turn /\ w[i].turn \in Turns
  BY <1>0 DEF TurnsIn
<1>2. TurnsIn(Append(w, e)) = Append(TurnsIn(w), e.turn)
  <2> DEFINE x == TurnsIn(Append(w, e))
             y == Append(TurnsIn(w), e.turn)
  <2>1. Append(w, e) \in Seq(Entry) /\ Len(Append(w, e)) = Len(w) + 1 /\ Len(w) \in Nat
    OBVIOUS
  <2>2. x \in Seq(Turns) /\ Len(x) = Len(w) + 1
    <3>a. \A i \in 1..Len(Append(w, e)) : Append(w, e)[i] \in Entry
      BY <2>1
    <3>1. \A i \in 1..Len(Append(w, e)) : Append(w, e)[i].turn \in Turns
      BY <3>a DEF Entry
    <3> QED
      BY <2>1, <3>1 DEF TurnsIn
  <2>3. y \in Seq(Turns) /\ Len(y) = Len(w) + 1
    BY <1>0, <1>1, <2>1
  <2>4. \A i \in 1..(Len(w) + 1) : x[i] = y[i]
    <3> SUFFICES ASSUME NEW i \in 1..(Len(w) + 1) PROVE x[i] = y[i]
      OBVIOUS
    <3>1. x[i] = Append(w, e)[i].turn
      BY <2>1 DEF TurnsIn
    <3>2. CASE i = Len(w) + 1
      BY <1>0, <1>1, <2>1, <3>1, <3>2
    <3>3. CASE i # Len(w) + 1
      <4>1. i \in 1..Len(w)
        BY <2>1, <3>3
      <4> QED
        BY <1>0, <1>1, <2>1, <3>1, <4>1
    <3> QED
      BY <3>2, <3>3
  <2> QED
    BY <2>2, <2>3, <2>4, SeqEqual
<1> QED
  BY <1>1, <1>2

LEMMA TurnsInTail ==
  ASSUME NEW w \in Seq(Entry), Len(w) > 0
  PROVE  /\ TurnsIn(w) \in Seq(Turns) /\ Len(TurnsIn(w)) = Len(w)
         /\ Head(w) \in Entry /\ Tail(w) \in Seq(Entry) /\ Len(Tail(w)) = Len(w) - 1
         /\ TurnsIn(Tail(w)) = Tail(TurnsIn(w))
         /\ Head(TurnsIn(w)) = Head(w).turn
         /\ \A i \in 1..Len(Tail(w)) : Tail(w)[i] = w[i + 1] /\ i + 1 \in 1..Len(w)
         /\ Head(w) = w[1] /\ 1 \in 1..Len(w)
<1>1. /\ Head(w) \in Entry /\ Tail(w) \in Seq(Entry) /\ Len(Tail(w)) = Len(w) - 1
      /\ \A i \in 1..Len(Tail(w)) : Tail(w)[i] = w[i + 1] /\ i + 1 \in 1..Len(w)
      /\ Head(w) = w[1] /\ 1 \in 1..Len(w) /\ Len(w) \in Nat
  OBVIOUS
<1>2. /\ TurnsIn(w) \in Seq(Turns) /\ Len(TurnsIn(w)) = Len(w)
      /\ \A i \in 1..Len(w) : TurnsIn(w)[i] = w[i].turn
  BY <1>1, TurnsInAppend
<1>3. /\ TurnsIn(Tail(w)) \in Seq(Turns) /\ Len(TurnsIn(Tail(w))) = Len(w) - 1
      /\ \A i \in 1..Len(Tail(w)) : TurnsIn(Tail(w))[i] = Tail(w)[i].turn
  BY <1>1, TurnsInAppend
<1>4. Head(TurnsIn(w)) = Head(w).turn
  BY <1>1, <1>2
<1>5. TurnsIn(Tail(w)) = Tail(TurnsIn(w))
  <2>1. /\ Tail(TurnsIn(w)) \in Seq(Turns) /\ Len(Tail(TurnsIn(w))) = Len(w) - 1
        /\ \A i \in 1..(Len(w) - 1) : Tail(TurnsIn(w))[i] = TurnsIn(w)[i + 1]
    BY <1>1, <1>2
  <2>2. \A i \in 1..(Len(w) - 1) : TurnsIn(Tail(w))[i] = Tail(TurnsIn(w))[i]
    BY <1>1, <1>2, <1>3, <2>1
  <2> QED
    BY <1>3, <2>1, <2>2, SeqEqual
<1> QED
  BY <1>1, <1>2, <1>4, <1>5

\* One turn goes on; no other is on the event loop.
LEMMA OneTurn ==
  ASSUME TypeOK, NEW t \in Turns, NEW c \in Calls, Goto(t, c), pc[t] \in Running \/ ~Busy
  PROVE  /\ pc' \in [Turns -> Calls] /\ pc'[t] = c
         /\ \A u \in Turns \ {t} : pc'[u] = pc[u] /\ pc[u] \notin Running
  BY DEF TypeOK, Goto, Busy, Calls

\* The session of a running turn is in the store.
LEMMA RunningAlive ==
  ASSUME TypeOK, NEW t \in Turns, pc[t] \in Running
  PROVE  /\ ask[t] \in Request /\ ask[t].session \in issued /\ ask[t].session \in Alive
         /\ \A u \in Turns \ {t} : pc[u] \notin Running
  BY DEF TypeOK, Running, Of, Alive, Request

\* What is kept was answered or is being remembered, in the log of its session.
LEMMA LogKept ==
  ASSUME TypeOK, WorkOK, MemoryOK, AnswersOK, NEW s \in Alive
  PROVE  /\ Waiting(s) \subseteq Elems(log[s])
         /\ \A u \in Elems(log[s]) : u \in Turns /\ Kept(u) /\ ask[u].session = s
         /\ \A i \in 1..Len(session[s].window) : session[s].window[i].turn \in Elems(log[s])
         /\ \A i \in 1..Len(session[s].anchors) : session[s].anchors[i].turn \in Elems(log[s])
<1>1. \A u \in Elems(log[s]) : u \in Turns /\ Kept(u) /\ ask[u].session = s
  BY DEF AnswersOK, AnswersAt
<1>2. /\ Window(s) \in Seq(Turns) /\ Anchors(s) \in Seq(Turns) /\ log[s] \in Seq(Turns)
      /\ \A i \in 1..Len(session[s].window) :
           Window(s)[i] = session[s].window[i].turn /\ i \in DOMAIN Window(s)
      /\ \A i \in 1..Len(session[s].anchors) :
           Anchors(s)[i] = session[s].anchors[i].turn /\ i \in DOMAIN Anchors(s)
  <2>1. /\ session[s].window \in Seq(Entry) /\ session[s].anchors \in Seq(Entry)
        /\ log[s] \in Seq(Turns)
    BY AliveRecord
  <2>2. \A w \in Seq(Entry) : \A i \in 1..Len(w) : w[i] \in Entry /\ i \in DOMAIN w
    OBVIOUS
  <2>3. \A w \in Seq(Entry) : \A i \in 1..Len(w) : w[i].turn \in Turns
    BY <2>2 DEF Entry
  <2>4. \A w \in Seq(Entry) :
          /\ TurnsIn(w) \in Seq(Turns)
          /\ \A i \in 1..Len(w) : TurnsIn(w)[i] = w[i].turn /\ i \in DOMAIN TurnsIn(w)
    BY <2>2, <2>3 DEF TurnsIn
  <2> QED
    BY <2>1, <2>4 DEF Window, Anchors
<1>3. Mem(Window(s), Anchors(s), session[s].summary, log[s], Dropped(s), Waiting(s), Committed(s))
  BY DEF MemoryOK, MemoryAt
<1>4. Elems(log[s]) = Elems(Window(s)) \cup Front(Window(s), log[s])
  <2>1. Window(s) \in Seq(Turns) /\ Anchors(s) \in Seq(Turns) /\ log[s] \in Seq(Turns)
    BY <1>2
  <2> QED
    BY <1>3, <2>1, MemSplits
<1>5. Elems(Anchors(s)) \subseteq Front(Window(s), log[s]) /\ Waiting(s) \subseteq Front(Window(s), log[s])
  BY <1>3 DEF Mem
<1> QED
  BY <1>1, <1>2, <1>4, <1>5 DEF Elems

-----------------------------------------------------------------------------
(* What a step leaves alone.                                               *)

\* A session whose history, and what compression owes it, do not change.
LEMMA MemoryStays ==
  ASSUME NEW s, MemoryAt(s),
         session'[s].window = session[s].window, session'[s].anchors = session[s].anchors,
         session'[s].summary = session[s].summary, log'[s] = log[s],
         Dropped(s)' = Dropped(s), Waiting(s)' = Waiting(s),
         \A u \in Elems(log[s]) : ask'[u] = ask[u]
  PROVE  MemoryAt(s)'
<1>1. Window(s)' = Window(s) /\ Anchors(s)' = Anchors(s)
  BY DEF Window, Anchors
<1>2. Committed(s)' = Committed(s)
  BY DEF Committed, Commits
<1> QED
  BY <1>1, <1>2 DEF MemoryAt

\* A session whose history and turns do not change.
LEMMA AnswersStay ==
  ASSUME TypeOK, WorkOK, MemoryOK, AnswersOK, NEW s \in Alive,
         session'[s].window = session[s].window, session'[s].anchors = session[s].anchors,
         log'[s] = log[s],
         \A u \in Turns : (Kept(u)' /\ ask'[u].session = s) <=> (Kept(u) /\ ask[u].session = s),
         \A u \in Elems(log[s]) : ResultOf(u)' = ResultOf(u)
  PROVE  AnswersAt(s)'
<1>0. AnswersAt(s)
  BY DEF AnswersOK
<1>1. Elems(log'[s]) = {t \in Turns : Kept(t)' /\ ask'[t].session = s}
  BY <1>0 DEF AnswersAt
<1>2. (\A i \in 1..Len(session[s].window) :
        session[s].window[i].result = ResultOf(session[s].window[i].turn))'
  BY <1>0, LogKept DEF AnswersAt, ResultOf, Remembering
<1>3. (\A i \in 1..Len(session[s].anchors) :
        session[s].anchors[i].result = ResultOf(session[s].anchors[i].turn))'
  BY <1>0, LogKept DEF AnswersAt, ResultOf, Remembering
<1> QED
  BY <1>1, <1>2, <1>3 DEF AnswersAt

\* A turn in the hands of the summarizer is in the log of its session.
LEMMA EvictedKept ==
  ASSUME TypeOK, WorkOK, MemoryOK, AnswersOK, NEW u \in work.evicted
  PROVE  u \in Turns /\ Kept(u)
<1>1. CASE Busy
  <2>1. PICK t \in Turns : pc[t] \in Running
    BY <1>1 DEF Busy
  <2>2. ask[t].session \in Alive /\ ask[u].session = ask[t].session
    BY <2>1, RunningAlive DEF WorkOK
  <2>3. u \in Waiting(ask[t].session)
    BY <2>2 DEF Waiting
  <2> QED
    BY <2>2, <2>3, LogKept
<1>2. CASE ~Busy
  BY <1>2 DEF TypeOK, Idle
<1> QED
  BY <1>1, <1>2

\* A step that remembers, evicts and forgets nothing.
LEMMA HistoryStays ==
  ASSUME TypeOK, WorkOK, MemoryOK, AnswersOK, Alive' = Alive,
         \A s \in Alive : /\ session'[s].window = session[s].window
                          /\ session'[s].anchors = session[s].anchors
                          /\ session'[s].summary = session[s].summary,
         log' = log, forgotten' = forgotten, work'.evicted = work.evicted,
         \A u \in Turns : Kept(u)' <=> Kept(u),
         \A u \in Turns : Kept(u) => ask'[u] = ask[u] /\ ResultOf(u)' = ResultOf(u)
  PROVE  MemoryOK' /\ AnswersOK'
<1>1. ASSUME NEW s \in Alive PROVE MemoryAt(s)' /\ AnswersAt(s)'
  <2>1. \A u \in Elems(log[s]) : u \in Turns /\ Kept(u)
    BY LogKept
  <2>2. Dropped(s)' = Dropped(s)
    BY DEF Dropped
  <2>3. \A u \in work.evicted : ask'[u] = ask[u]
    BY EvictedKept
  <2>4. Waiting(s)' = Waiting(s)
    BY <2>3 DEF Waiting
  <2>5. MemoryAt(s)
    BY DEF MemoryOK
  <2>6. MemoryAt(s)'
    BY <2>1, <2>2, <2>4, <2>5, MemoryStays
  <2>7. \A u \in Turns : (Kept(u)' /\ ask'[u].session = s) <=> (Kept(u) /\ ask[u].session = s)
    OBVIOUS
  <2>8. AnswersAt(s)'
    BY <2>1, <2>7, AnswersStay
  <2> QED
    BY <2>6, <2>8
<1>2. \A u \in forgotten' : Kept(u)'
  BY DEF AnswersOK, TypeOK
<1> QED
  BY <1>1, <1>2 DEF MemoryOK, AnswersOK

\* A step of the turn on the event loop, or of one that gets there.
Moves(t, c) ==
  /\ t \in Turns /\ c \in Calls \ {"unsent"}
  /\ pc[t] \in Running \/ (~Busy /\ pc[t] = "queued")
  /\ Goto(t, c)
  /\ UNCHANGED <<issued, ask>>
  /\ Alive' = Alive
  /\ c \in Running => ask[t].session \in Alive

LEMMA TypeStays ==
  ASSUME TypeOK, NEW t, NEW c, Moves(t, c),
         session' \in [Sessions -> SessionRecord \cup {Nothing}],
         answer' \in [Turns -> Draft \cup {Nothing}],
         log' \in [Sessions -> Seq(Turns)],
         \A s \in Sessions \ Alive : log'[s] = log[s],
         forgotten' \subseteq Turns, regulated' \subseteq Alive,
         \A s \in Alive :
           /\ Len(session'[s].window) <= MaxTurns + 1
           /\ Len(session'[s].window) > MaxTurns => c = "compress" /\ ask[t].session = s,
         c \in Running => Len(work'.rounds) <= MaxIterations,
         c \in {"compress", "summarize", "extract"} => work'.result \in Draft,
         c \notin Running => work' = Idle
  PROVE  TypeOK'
<1>1. /\ t \in Turns /\ pc' \in [Turns -> Calls] /\ pc'[t] = c
      /\ \A u \in Turns \ {t} : pc'[u] = pc[u] /\ pc[u] \notin Running
  BY OneTurn DEF Moves
<1>2. issued' \subseteq Sessions /\ Alive' \subseteq issued' /\ regulated' \subseteq Alive'
  BY DEF Moves, TypeOK
<1>3. \A s \in Sessions \ Alive' : log'[s] = <<>>
  BY DEF Moves, TypeOK
<1>4. \A u \in Turns : pc'[u] # "unsent" => ask'[u] \in Request /\ ask'[u].session \in issued'
  <2>1. pc[t] # "unsent"
    BY DEF Moves, Running
  <2> QED
    BY <1>1, <2>1 DEF Moves, TypeOK
<1>5. ask' \in [Turns -> Request \cup {Nothing}]
  BY DEF Moves, TypeOK
<1>6. \A s \in Alive' :
        /\ Len(session'[s].window) <= MaxTurns + 1
        /\ Len(session'[s].window) > MaxTurns =>
             \E u \in Turns : pc'[u] = "compress" /\ ask'[u].session = s
  BY <1>1 DEF Moves
<1>7. ASSUME NEW u \in Turns, pc'[u] \in Running
      PROVE  /\ Of(u)' # Nothing
             /\ \A v \in Turns \ {u} : pc'[v] \notin Running
             /\ Len(work'.rounds) <= MaxIterations
             /\ Remembering(u)' => work'.result \in Draft
  <2>1. u = t /\ c \in Running
    BY <1>1, <1>7
  <2>2. ask'[t] = ask[t] /\ session'[ask[t].session] # Nothing
    BY <2>1 DEF Moves, Alive
  <2> QED
    BY <1>1, <2>1, <2>2 DEF Of, Remembering
<1>8. ~Busy' => work' = Idle
  BY <1>1 DEF Busy
<1> QED
  BY <1>1, <1>2, <1>3, <1>4, <1>5, <1>6, <1>7, <1>8 DEF TypeOK, At, Calls

LEMMA WorkStays ==
  ASSUME TypeOK, WorkOK, NEW t, NEW c, Moves(t, c), work' \in WorkType,
         c = "critic" => work'.current \in Draft,
         c \in {"actor", "critic"} => Len(work'.rounds) < MaxIterations,
         c \in Running \ {"compress", "summarize"} => work'.evicted = {},
         c \in Running => \A u \in work'.evicted : ask[u].session = ask[t].session,
         c = "not_found" => ask[t].session \notin Alive
  PROVE  WorkOK'
<1>1. /\ t \in Turns /\ pc'[t] = c /\ \A u \in Turns \ {t} : pc'[u] = pc[u] /\ pc[u] \notin Running
  BY OneTurn DEF Moves
<1>2. ask' = ask /\ Alive' = Alive
  BY DEF Moves
<1>3. \A u \in Turns : pc'[u] \in Running => u = t
  BY <1>1
<1> QED
  BY <1>1, <1>2, <1>3 DEF WorkOK

LEMMA TierStays ==
  ASSUME TypeOK, NEW t, NEW c, Moves(t, c),
         \A s \in regulated' : "regulatory" \in session'[s].metadata.techs,
         c \in Running /\ ask[t].session \in regulated' /\ ask[t].form.override = Nothing =>
           work'.tier = "executive"
  PROVE  TierOK'
<1>1. /\ t \in Turns /\ pc'[t] = c /\ \A u \in Turns \ {t} : pc'[u] = pc[u] /\ pc[u] \notin Running
  BY OneTurn DEF Moves
<1>2. ask' = ask
  BY DEF Moves
<1>3. \A u \in Turns : pc'[u] \in Running => u = t
  BY <1>1
<1> QED
  BY <1>1, <1>2, <1>3 DEF TierOK, RegulationRemembered

\* No turn is kept or lost by a step between calls that are both, or neither,
\* after the answer.
LEMMA KeptStays ==
  ASSUME TypeOK, NEW t, NEW c, Moves(t, c),
         Kept(t) <=> c \in {"answered", "compress", "summarize", "extract"},
         Kept(t) => IF c = "answered" THEN answer'[t] = work.result ELSE work'.result = work.result,
         \A u \in Turns \ {t} : answer'[u] = answer[u]
  PROVE  /\ \A u \in Turns : Kept(u)' <=> Kept(u)
         /\ \A u \in Turns : Kept(u) => ask'[u] = ask[u] /\ ResultOf(u)' = ResultOf(u)
<1>1. /\ t \in Turns /\ pc'[t] = c /\ \A u \in Turns \ {t} : pc'[u] = pc[u] /\ pc[u] \notin Running
  BY OneTurn DEF Moves
<1>2. ask' = ask
  BY DEF Moves
<1>3. \A u \in Turns \ {t} : ~Remembering(u) /\ ~Remembering(u)'
  BY <1>1 DEF Remembering, Running
<1>4. pc[t] # "answered"
  BY DEF Moves, Running
<1>5. ASSUME NEW u \in Turns \ {t}
      PROVE  (Kept(u)' <=> Kept(u)) /\ ResultOf(u)' = ResultOf(u)
  BY <1>1, <1>3 DEF Kept, ResultOf
<1>6. Kept(t)' <=> Kept(t)
  BY <1>1 DEF Kept, Remembering
<1>7. Kept(t) => ResultOf(t)' = ResultOf(t)
  BY <1>1, <1>4 DEF Kept, ResultOf, Remembering
<1> QED
  BY <1>1, <1>2, <1>5, <1>6, <1>7

LEMMA WindowCap ==
  ASSUME TypeOK, NEW t \in Turns, pc[t] \in Running \/ ~Busy, NEW s \in Alive
  PROVE  /\ Len(session[s].window) \in Nat /\ MaxTurns \in Nat
         /\ Len(session[s].window) <= MaxTurns + 1
         /\ pc[t] # "compress" \/ ask[t].session # s => Len(session[s].window) <= MaxTurns
<1>1. Len(session[s].window) \in Nat /\ MaxTurns \in Nat
  BY AliveRecord, ConversationConstantsOK
<1>2. /\ Len(session[s].window) <= MaxTurns + 1
      /\ Len(session[s].window) > MaxTurns =>
           \E u \in Turns : pc[u] = "compress" /\ ask[u].session = s
  BY DEF TypeOK, At
<1>3. \A u \in Turns : pc[u] = "compress" => u = t
  BY RunningAlive DEF Busy, Running
<1> QED
  BY <1>1, <1>2, <1>3

LEMMA IdleOK ==
  ASSUME TypeOK, WorkOK
  PROVE  /\ Idle \in WorkType /\ Idle.evicted = {} /\ Len(Idle.rounds) = 0
         /\ ~Busy => work = Idle
<1>1. <<>> \in Seq(Round) /\ Len(<<>>) = 0
  OBVIOUS
<1>2. Idle \in WorkType
  BY <1>1 DEF Idle, WorkType
<1> QED
  BY <1>1, <1>2 DEF Idle, TypeOK

-----------------------------------------------------------------------------
(* The steps that leave the history alone.                                 *)

LEMMA EndsKeepInv ==
  ASSUME ServiceInv, NEW t \in Turns, NotFound(t) \/ Reject(t) \/ ActorFails(t)
  PROVE  ServiceInv' /\ Alive' = Alive
<1> USE DEF ServiceInv
<1>1. PICK c \in {"not_found", "rejected", "failed"} :
        /\ Goto(t, c) /\ work' = Idle
        /\ UNCHANGED <<issued, session, ask, answer, log, forgotten, regulated>>
        /\ pc[t] \in Running \/ (~Busy /\ pc[t] = "queued")
        /\ pc[t] \in {"queued", "actor"}
        /\ c = "not_found" => Of(t) = Nothing
  BY IdleOK DEF NotFound, Reject, ActorFails, At, Running
<1>2. Moves(t, c)
  BY <1>1 DEF Moves, Alive, Calls, Running, Ended
<1>3. c \notin Running
  BY DEF Running
<1>4. TypeOK'
  <2>1. \A s \in Alive : Len(session[s].window) <= MaxTurns /\ Len(session[s].window) \in Nat /\ MaxTurns \in Nat
    BY <1>1, WindowCap
  <2>2. \A s \in Alive :
           /\ Len(session'[s].window) <= MaxTurns + 1
           /\ Len(session'[s].window) > MaxTurns => c = "compress" /\ ask[t].session = s
    BY <1>1, <2>1
  <2>3. /\ session' \in [Sessions -> SessionRecord \cup {Nothing}]
        /\ answer' \in [Turns -> Draft \cup {Nothing}] /\ log' \in [Sessions -> Seq(Turns)]
        /\ forgotten' \subseteq Turns /\ regulated' \subseteq Alive
        /\ \A s \in Sessions \ Alive : log'[s] = log[s]
    BY <1>1 DEF TypeOK
  <2> QED
    BY <1>1, <1>2, <1>3, <2>2, <2>3, TypeStays
<1>5. WorkOK'
  <2>1. c = "not_found" => ask[t].session \notin Alive
    BY <1>1 DEF Of, Alive
  <2> QED
    BY <1>1, <1>2, <1>3, <2>1, IdleOK, WorkStays
<1>6. TierOK'
  BY <1>1, <1>2, <1>3, TierStays DEF TierOK
<1>7. MemoryOK' /\ AnswersOK'
  <2>1. work.evicted = {}
    <3>1. CASE pc[t] = "actor"
      BY <3>1 DEF WorkOK, Running
    <3>2. CASE ~Busy
      BY <3>2, IdleOK
    <3> QED
      BY <1>1, <3>1, <3>2 DEF Running
  <2>2. ~Kept(t)
    BY <1>1 DEF Kept, Remembering, Running
  <2>3. /\ \A u \in Turns : Kept(u)' <=> Kept(u)
        /\ \A u \in Turns : Kept(u) => ask'[u] = ask[u] /\ ResultOf(u)' = ResultOf(u)
    BY <1>1, <1>2, <2>2, KeptStays
  <2>4. work'.evicted = work.evicted
    BY <1>1, <2>1, IdleOK
  <2> QED
    BY <1>1, <1>2, <2>3, <2>4, HistoryStays DEF Moves
<1> QED
  BY <1>2, <1>4, <1>5, <1>6, <1>7 DEF Moves

\* Regulated technologies call for executives, unless a tier is asked for.
LEMMA RegulatedTier ==
  ASSUME NEW form \in Forms, NEW m \in Metadata, "regulatory" \in m.techs,
         form.override = Nothing
  PROVE  ResolveTier(form, m).tier = "executive"
<1> DEFINE fired == {i \in DOMAIN Rules : Predicate(Rules[i].name, form, m)}
           first == CHOOSE i \in fired : \A j \in fired : i <= j
<1>1. /\ DOMAIN Rules = 1..4 /\ Rules[2].name = "regulatory_context"
      /\ Rules[1].tier = "executive" /\ Rules[2].tier = "executive"
  BY DEF Rules
<1>2. 2 \in fired
  BY <1>1 DEF Predicate
<1>3. \E i \in fired : \A j \in fired : i <= j
  <2>1. CASE 1 \in fired
    BY <1>1, <2>1
  <2>2. CASE 1 \notin fired
    <3>1. \A j \in fired : j \in 1..4 /\ j # 1
      BY <1>1, <2>2
    <3> QED
      BY <1>2, <3>1
  <2> QED
    BY <2>1, <2>2
<1>4. first \in fired /\ \A j \in fired : first <= j
  BY <1>3
<1>5. first \in {1, 2}
  BY <1>1, <1>2, <1>4
<1>6. ResolveTier(form, m) = Rules[first]
  BY <1>2 DEF ResolveTier
<1> QED
  BY <1>1, <1>5, <1>6

LEMMA ResolveTierType ==
  ASSUME NEW form \in Forms, NEW m \in Metadata
  PROVE  ResolveTier(form, m).tier \in Tiers /\ ResolveTier(form, m).name \in RuleNames
<1> DEFINE fired == {i \in DOMAIN Rules : Predicate(Rules[i].name, form, m)}
           first == CHOOSE i \in fired : \A j \in fired : i <= j
<1>1. /\ DOMAIN Rules = 1..4
      /\ \A i \in 1..4 : Rules[i].tier \in Tiers /\ Rules[i].name \in RuleNames
  BY DEF Rules, Tiers, RuleNames
<1>2. CASE form.override # Nothing
  <2>1. form.override \in Tiers
    BY <1>2, ConversationConstantsOK DEF Form
  <2> QED
    BY <1>2, <2>1 DEF ResolveTier, RuleNames
<1>3. CASE form.override = Nothing /\ fired = {}
  BY <1>3 DEF ResolveTier, Tiers, RuleNames
<1>4. CASE form.override = Nothing /\ fired # {}
  <2>1. fired \subseteq 1..4
    BY <1>1
  <2>2. \E i \in fired : \A j \in fired : i <= j
    <3>1. CASE 1 \in fired
      BY <2>1, <3>1
    <3>2. CASE 1 \notin fired /\ 2 \in fired
      BY <2>1, <3>2
    <3>3. CASE 1 \notin fired /\ 2 \notin fired /\ 3 \in fired
      BY <2>1, <3>3
    <3>4. CASE 1 \notin fired /\ 2 \notin fired /\ 3 \notin fired
      BY <1>4, <2>1, <3>4
    <3> QED
      BY <3>1, <3>2, <3>3, <3>4
  <2>3. first \in 1..4
    BY <2>1, <2>2
  <2>4. ResolveTier(form, m) = Rules[first]
    BY <1>4 DEF ResolveTier
  <2> QED
    BY <1>1, <2>3, <2>4
<1> QED
  BY <1>2, <1>3, <1>4

\* A call of the turn that changes nothing of the store but facts.
LEMMA CallsKeepInv ==
  ASSUME ServiceInv, NEW t, NEW c, Moves(t, c),
         session' \in [Sessions -> SessionRecord \cup {Nothing}],
         \A s \in Alive : /\ session'[s].window = session[s].window
                          /\ session'[s].anchors = session[s].anchors
                          /\ session'[s].summary = session[s].summary,
         UNCHANGED <<log, forgotten>>, regulated' \subseteq Alive,
         answer' \in [Turns -> Draft \cup {Nothing}],
         \A u \in Turns \ {t} : answer'[u] = answer[u],
         \A s \in regulated' : "regulatory" \in session'[s].metadata.techs,
         work' \in WorkType, work'.evicted = work.evicted,
         c # "compress",
         pc[t] = "compress" => Len(session[ask[t].session].window) <= MaxTurns,
         Kept(t) <=> c \in {"answered", "compress", "summarize", "extract"},
         Kept(t) => IF c = "answered" THEN answer'[t] = work.result ELSE work'.result = work.result,
         c \notin Running => work' = Idle,
         c \in Running => Len(work'.rounds) <= MaxIterations,
         c \in {"compress", "summarize", "extract"} => work'.result \in Draft,
         c = "critic" => work'.current \in Draft,
         c \in {"actor", "critic"} => Len(work'.rounds) < MaxIterations,
         c \in Running \ {"compress", "summarize"} => work'.evicted = {},
         c \in Running => \A u \in work'.evicted : ask[u].session = ask[t].session,
         c # "not_found",
         c \in Running /\ ask[t].session \in regulated' /\ ask[t].form.override = Nothing =>
           work'.tier = "executive"
  PROVE  ServiceInv' /\ Alive' = Alive
<1>1. TypeOK'
  <2>1. \A s \in Alive :
           /\ Len(session'[s].window) <= MaxTurns + 1
           /\ Len(session'[s].window) > MaxTurns => c = "compress" /\ ask[t].session = s
    <3> SUFFICES ASSUME NEW s \in Alive PROVE Len(session[s].window) <= MaxTurns
      BY WindowCap DEF ServiceInv, Moves
    <3>1. pc[t] # "compress" \/ ask[t].session # s => Len(session[s].window) <= MaxTurns
      BY WindowCap DEF ServiceInv, Moves
    <3> QED
      BY <3>1
  <2>2. /\ log' \in [Sessions -> Seq(Turns)] /\ forgotten' \subseteq Turns
        /\ \A s \in Sessions \ Alive : log'[s] = log[s]
    BY DEF ServiceInv, TypeOK
  <2> QED
    BY <2>1, <2>2, TypeStays DEF ServiceInv
<1>2. WorkOK'
  BY WorkStays DEF ServiceInv
<1>3. TierOK'
  BY TierStays DEF ServiceInv
<1>4. MemoryOK' /\ AnswersOK'
  <2>1. /\ \A u \in Turns : Kept(u)' <=> Kept(u)
        /\ \A u \in Turns : Kept(u) => ask'[u] = ask[u] /\ ResultOf(u)' = ResultOf(u)
    BY KeptStays DEF ServiceInv
  <2>2. Alive' = Alive
    BY DEF Moves
  <2> QED
    BY <2>1, <2>2, HistoryStays DEF ServiceInv
<1> QED
  BY <1>1, <1>2, <1>3, <1>4 DEF ServiceInv, Moves

LEMMA WorkFields ==
  ASSUME NEW w \in WorkType
  PROVE  /\ \A tier \in Tiers :
              LET x == [w EXCEPT !.tier = tier] IN
              x \in WorkType /\ x.tier = tier /\ x.rounds = w.rounds /\ x.evicted = w.evicted
         /\ \A d \in Draft :
              LET x == [w EXCEPT !.current = d] IN
              /\ x \in WorkType /\ x.current = d /\ x.rounds = w.rounds /\ x.evicted = w.evicted
              /\ x.tier = w.tier
         /\ \A r \in Seq(Round) :
              LET x == [w EXCEPT !.rounds = r] IN
              /\ x \in WorkType /\ x.rounds = r /\ x.evicted = w.evicted /\ x.tier = w.tier
              /\ x.current = w.current
  BY DEF WorkType

LEMMA BeginKeepsInv ==
  ASSUME ServiceInv, NEW t \in Turns, Begin(t)
  PROVE  ServiceInv' /\ Alive' = Alive
<1> DEFINE s == ask[t].session
           rule == ResolveTier(ask[t].form, session[s].metadata)
           r == [session[s] EXCEPT !.tier = rule.tier, !.rule = rule.name]
<1>1. /\ pc[t] = "queued" /\ ~Busy /\ session[s] # Nothing
      /\ ask[t] \in Request /\ s \in Sessions /\ s \in Alive /\ ask[t].form \in Forms
  BY DEF Begin, At, Of, ServiceInv, TypeOK, Request, Alive
<1>2. session[s] \in SessionRecord /\ session[s].metadata \in Metadata
  BY <1>1, AliveRecord DEF ServiceInv
<1>3. rule.tier \in Tiers /\ rule.name \in RuleNames
  BY <1>1, <1>2, ResolveTierType
<1>4. session' = [session EXCEPT ![s] = r] /\ work' = [Idle EXCEPT !.tier = rule.tier]
  BY DEF Begin, Of
<1> HIDE DEF rule
<1>5. /\ r \in SessionRecord /\ r.window = session[s].window /\ r.anchors = session[s].anchors
      /\ r.summary = session[s].summary /\ r.metadata = session[s].metadata
  <2>1. PICK old \in SessionRecord, tier \in Tiers, name \in RuleNames :
          old = session[s] /\ tier = rule.tier /\ name = rule.name
    BY <1>2, <1>3
  <2>2. r = [old EXCEPT !.tier = tier, !.rule = name]
    BY <2>1
  <2>3. /\ [old EXCEPT !.tier = tier, !.rule = name] \in SessionRecord
        /\ [old EXCEPT !.tier = tier, !.rule = name].window = old.window
        /\ [old EXCEPT !.tier = tier, !.rule = name].anchors = old.anchors
        /\ [old EXCEPT !.tier = tier, !.rule = name].summary = old.summary
        /\ [old EXCEPT !.tier = tier, !.rule = name].metadata = old.metadata
    BY DEF SessionRecord
  <2> QED
    BY <2>1, <2>2, <2>3, Zenon
<1> HIDE DEF r
<1>6. /\ session' \in [Sessions -> SessionRecord \cup {Nothing}]
      /\ session'[s] = r /\ \A u \in Sessions \ {s} : session'[u] = session[u]
      /\ Alive' = Alive
  BY <1>1, <1>4, <1>5, SessionReplaced DEF ServiceInv
<1>7. \A u \in Alive : /\ u \in Sessions
                       /\ session'[u].window = session[u].window
                       /\ session'[u].anchors = session[u].anchors
                       /\ session'[u].summary = session[u].summary
                       /\ session'[u].metadata = session[u].metadata
  BY <1>5, <1>6 DEF Alive
<1>8. /\ work = Idle /\ Idle \in WorkType /\ Idle.evicted = {} /\ Len(Idle.rounds) = 0
  BY <1>1, IdleOK DEF ServiceInv
<1>9. work' \in WorkType /\ work'.tier = rule.tier /\ Len(work'.rounds) = 0 /\ work'.evicted = {}
  BY <1>3, <1>4, <1>8, WorkFields
<1>10. Moves(t, "actor")
  BY <1>1, <1>6 DEF Begin, Moves, Calls, Running
<1>11. UNCHANGED <<log, forgotten, regulated, answer>>
  BY DEF Begin
<1>12. \A u \in regulated' : "regulatory" \in session'[u].metadata.techs
  BY <1>7, <1>11 DEF ServiceInv, TierOK, TypeOK
<1>13. s \in regulated' /\ ask[t].form.override = Nothing => work'.tier = "executive"
  <2>1. s \in regulated' => "regulatory" \in session[s].metadata.techs
    BY <1>11 DEF ServiceInv, TierOK
  <2> QED
    BY <1>1, <1>2, <1>9, <2>1, RegulatedTier DEF rule
<1>14. ~Kept(t)
  BY <1>1 DEF Kept, Remembering
<1>15. /\ regulated' \subseteq Alive /\ answer' \in [Turns -> Draft \cup {Nothing}]
       /\ \A u \in Turns \ {t} : answer'[u] = answer[u]
  BY <1>11 DEF ServiceInv, TypeOK
<1>16. MaxIterations \in Nat \ {0} /\ "actor" \in Running
  BY ConversationConstantsOK DEF Running
<1> QED
  BY <1>1, <1>6, <1>7, <1>8, <1>9, <1>10, <1>11, <1>12, <1>13, <1>14, <1>15, <1>16, CallsKeepInv

\* The facts of a step that leaves the store alone.
LEMMA StoreStays ==
  ASSUME ServiceInv, NEW t \in Turns, pc[t] \in Running,
         UNCHANGED <<session, log, forgotten, regulated>>
  PROVE  /\ session' \in [Sessions -> SessionRecord \cup {Nothing}] /\ Alive' = Alive
         /\ \A s \in Alive : /\ session'[s].window = session[s].window
                             /\ session'[s].anchors = session[s].anchors
                             /\ session'[s].summary = session[s].summary
         /\ regulated' \subseteq Alive
         /\ \A s \in regulated' : "regulatory" \in session'[s].metadata.techs
         /\ ask[t].session \in regulated' /\ ask[t].form.override = Nothing => work.tier = "executive"
         /\ work \in WorkType /\ Len(work.rounds) <= MaxIterations /\ Len(work.rounds) \in Nat
         /\ \A u \in work.evicted : ask[u].session = ask[t].session
         /\ answer \in [Turns -> Draft \cup {Nothing}]
         /\ ask[t].session \in Alive
<1>1. Alive' = Alive
  BY DEF Alive
<1>2. work \in WorkType
  BY DEF ServiceInv, WorkOK
<1>3. Len(work.rounds) \in Nat
  BY <1>2 DEF WorkType
<1>4. ask[t].session \in Alive
  BY RunningAlive DEF ServiceInv
<1>5. /\ ask[t].session \in regulated /\ ask[t].form.override = Nothing => work.tier = "executive"
      /\ \A s \in regulated : "regulatory" \in session[s].metadata.techs
  BY DEF ServiceInv, TierOK, RegulationRemembered
<1>6. \A u \in work.evicted : ask[u].session = ask[t].session
  BY DEF ServiceInv, WorkOK
<1>7. /\ session \in [Sessions -> SessionRecord \cup {Nothing}]
      /\ answer \in [Turns -> Draft \cup {Nothing}] /\ regulated \subseteq Alive
      /\ Len(work.rounds) <= MaxIterations
  BY DEF ServiceInv, TypeOK
<1> QED
  BY <1>1, <1>2, <1>3, <1>4, <1>5, <1>6, <1>7

LEMMA ActorKeepsInv ==
  ASSUME ServiceInv, NEW t \in Turns, Actor(t)
  PROVE  ServiceInv' /\ Alive' = Alive
<1>1. /\ pc[t] = "actor" /\ pc[t] \in Running
      /\ UNCHANGED <<issued, session, ask, answer, log, forgotten, regulated>>
      /\ Goto(t, "critic")
  BY DEF Actor, At, Running
<1>2. PICK d \in Drafts : work' = [work EXCEPT !.current = EnforceScope(d)]
  BY DEF Actor
<1>3. EnforceScope(d) \in Draft
  BY DraftScoped, ConversationConstantsOK
<1>4. work \in WorkType /\ work.evicted = {} /\ Len(work.rounds) < MaxIterations
  BY <1>1 DEF ServiceInv, WorkOK
<1>5. /\ work' \in WorkType /\ work'.current \in Draft /\ work'.rounds = work.rounds
      /\ work'.evicted = {} /\ work'.tier = work.tier
  BY <1>2, <1>3, <1>4, WorkFields
<1>6. Moves(t, "critic")
  BY <1>1, StoreStays DEF Moves, Calls, Running
<1>7. ~Kept(t) /\ "critic" \in Running
  BY <1>1 DEF Kept, Remembering, Running
<1> QED
  BY <1>1, <1>4, <1>5, <1>6, <1>7, CallsKeepInv, StoreStays

LEMMA EvictedKeepsInv ==
  ASSUME ServiceInv, NEW t \in Turns, Evicted(t)
  PROVE  ServiceInv' /\ Alive' = Alive
<1>1. PICK c \in {"summarize", "extract"} :
        /\ Goto(t, c) /\ pc[t] = "compress" /\ pc[t] \in Running
        /\ Len(session[ask[t].session].window) <= MaxTurns
        /\ c = "extract" => work.evicted = {}
        /\ UNCHANGED <<issued, session, ask, work, answer, log, forgotten, regulated>>
  BY DEF Evicted, At, Of, Running
<1>2. Moves(t, c)
  BY <1>1, StoreStays DEF Moves, Calls, Running
<1>3. Kept(t) /\ c \in Running
  BY <1>1 DEF Kept, Remembering, Running
<1>4. work.result \in Draft
  BY <1>1 DEF ServiceInv, TypeOK, Remembering
<1> QED
  BY <1>1, <1>2, <1>3, <1>4, CallsKeepInv, StoreStays

LEMMA ReplyKeepsInv ==
  ASSUME ServiceInv, NEW t \in Turns, UpdateMetadata(t) \/ UpdateMetadataFails(t)
  PROVE  ServiceInv' /\ Alive' = Alive
<1> DEFINE s == ask[t].session
<1>1. /\ pc[t] = "extract" /\ pc[t] \in Running
      /\ UNCHANGED <<issued, ask, log, forgotten>>
      /\ Goto(t, "answered") /\ work' = Idle /\ answer' = [answer EXCEPT ![t] = work.result]
  BY DEF UpdateMetadata, UpdateMetadataFails, Reply, At, Running
<1>2. s \in Alive /\ s \in Sessions
  BY <1>1, RunningAlive DEF ServiceInv, Alive
<1>3. work.result \in Draft /\ work.evicted = {}
  BY <1>1 DEF ServiceInv, TypeOK, WorkOK, Remembering
<1>4. /\ answer' \in [Turns -> Draft \cup {Nothing}] /\ answer'[t] = work.result
      /\ \A u \in Turns \ {t} : answer'[u] = answer[u]
  BY <1>1, <1>3 DEF ServiceInv, TypeOK
<1>5. Kept(t) /\ "answered" \notin Running
  BY <1>1 DEF Kept, Remembering, Running
<1>6. /\ session' \in [Sessions -> SessionRecord \cup {Nothing}] /\ Alive' = Alive
      /\ \A u \in Alive : /\ session'[u].window = session[u].window
                          /\ session'[u].anchors = session[u].anchors
                          /\ session'[u].summary = session[u].summary
      /\ regulated' \subseteq Alive
      /\ \A u \in regulated' : "regulatory" \in session'[u].metadata.techs
  <2>1. CASE UpdateMetadataFails(t)
    <3>1. UNCHANGED <<session, log, forgotten, regulated>>
      BY <2>1 DEF UpdateMetadataFails
    <3> QED
      BY <1>1, <3>1, StoreStays
  <2>2. CASE UpdateMetadata(t)
    <3>1. PICK x \in Extracts :
            /\ session' = [session EXCEPT ![s].metadata = MergeWith(@, x)]
            /\ regulated' = IF "regulatory" \in x.techs THEN regulated \cup {s} ELSE regulated
      BY <2>2 DEF UpdateMetadata
    <3> DEFINE m == MergeWith(session[s].metadata, x)
               r == [session[s] EXCEPT !.metadata = m]
    <3>2. session[s] \in SessionRecord /\ session[s].metadata \in Metadata /\ x \in Metadata
      BY <1>2, AliveRecord, ConversationConstantsOK DEF ServiceInv
    <3>3. m \in Metadata /\ m.techs = session[s].metadata.techs \cup x.techs
      BY <3>2, MergeGrows
    <3>4. session' = [session EXCEPT ![s] = r]
      BY <3>1
    <3> HIDE DEF m
    <3>5. /\ r \in SessionRecord /\ r.window = session[s].window /\ r.anchors = session[s].anchors
          /\ r.summary = session[s].summary /\ r.metadata = m
      BY <3>2, <3>3, PutMetadata
    <3> HIDE DEF r
    <3>6. /\ session' \in [Sessions -> SessionRecord \cup {Nothing}]
          /\ session'[s] = r /\ \A u \in Sessions \ {s} : session'[u] = session[u]
          /\ Alive' = Alive
      BY <1>2, <3>4, <3>5, SessionReplaced DEF ServiceInv
    <3>7. regulated' \subseteq Alive
      BY <1>2, <3>1 DEF ServiceInv, TypeOK
    <3>8. \A u \in regulated : "regulatory" \in session[u].metadata.techs
      BY DEF ServiceInv, TierOK
    <3>9. ASSUME NEW u \in regulated' PROVE "regulatory" \in session'[u].metadata.techs
      <4>1. u \in Sessions
        BY <3>7 DEF Alive
      <4>2. CASE u = s
        BY <3>1, <3>3, <3>5, <3>6, <3>8, <4>2
      <4>3. CASE u # s
        BY <3>1, <3>6, <3>8, <4>1, <4>3
      <4> QED
        BY <4>2, <4>3
    <3>10. \A u \in Alive : /\ session'[u].window = session[u].window
                            /\ session'[u].anchors = session[u].anchors
                            /\ session'[u].summary = session[u].summary
      BY <3>5, <3>6 DEF Alive
    <3> QED
      BY <3>6, <3>7, <3>9, <3>10
  <2> QED
    BY <2>1, <2>2
<1>7. Moves(t, "answered")
  BY <1>1, <1>5, <1>6 DEF Moves, Calls, Ended
<1>8. Idle \in WorkType /\ Idle.evicted = {}
  BY IdleOK DEF ServiceInv
<1> QED
  BY <1>1, <1>3, <1>4, <1>5, <1>6, <1>7, <1>8, CallsKeepInv

-----------------------------------------------------------------------------
(* The steps that change the history.                                      *)

LEMMA ElemsAppend ==
  ASSUME NEW S, NEW q \in Seq(S), NEW x \in S
  PROVE  /\ Elems(Append(q, x)) = Elems(q) \cup {x}
         /\ Append(q, x) \in Seq(S) /\ Len(Append(q, x)) = Len(q) + 1 /\ Len(q) \in Nat
         /\ \A i \in 1..Len(q) : Append(q, x)[i] = q[i] /\ q[i] \in S
         /\ Append(q, x)[Len(q) + 1] = x
<1>1. /\ Append(q, x) \in Seq(S) /\ Len(Append(q, x)) = Len(q) + 1 /\ Len(q) \in Nat
      /\ \A i \in 1..Len(q) : Append(q, x)[i] = q[i] /\ q[i] \in S
      /\ Append(q, x)[Len(q) + 1] = x
      /\ DOMAIN q = 1..Len(q) /\ DOMAIN Append(q, x) = 1..(Len(q) + 1)
  OBVIOUS
<1>2. 1..(Len(q) + 1) = 1..Len(q) \cup {Len(q) + 1}
  BY <1>1
<1>3. Elems(Append(q, x)) = Elems(q) \cup {x}
  BY <1>1, <1>2 DEF Elems
<1> QED
  BY <1>1, <1>3

\* A step of turn t on the history of its session touches no other session.
LEMMA OthersStay ==
  ASSUME ServiceInv, NEW t, NEW c, Moves(t, c), pc[t] \in Running,
         \A s \in Alive \ {ask[t].session} :
           session'[s] = session[s] /\ log'[s] = log[s],
         \A u \in forgotten' : u \in forgotten \/ u \in work.evicted,
         forgotten \subseteq forgotten',
         \A u \in work'.evicted : u \in work.evicted \/ ask[u].session = ask[t].session,
         answer' = answer,
         NEW s \in Alive, s # ask[t].session
  PROVE  MemoryAt(s)' /\ AnswersAt(s)'
<1>1. /\ t \in Turns /\ pc'[t] = c /\ \A u \in Turns \ {t} : pc'[u] = pc[u] /\ pc[u] \notin Running
  BY OneTurn DEF Moves, ServiceInv
<1>2. ask' = ask
  BY DEF Moves
<1>3. \A u \in work.evicted : ask[u].session = ask[t].session
  BY <1>1 DEF ServiceInv, WorkOK
<1>4. \A u \in Elems(log[s]) : u \in Turns /\ Kept(u) /\ ask[u].session = s
  BY LogKept DEF ServiceInv
<1>5. Dropped(s)' = Dropped(s)
  BY <1>3, <1>4 DEF Dropped
<1>6. Waiting(s)' = Waiting(s)
  BY <1>2, <1>3 DEF Waiting
<1>7. MemoryAt(s)
  BY DEF ServiceInv, MemoryOK
<1>8. MemoryAt(s)'
  BY <1>2, <1>5, <1>6, <1>7, MemoryStays
<1>9. \A u \in Turns \ {t} : ~Remembering(u) /\ ~Remembering(u)'
  BY <1>1 DEF Remembering, Running
<1>10. \A u \in Turns \ {t} : (Kept(u)' <=> Kept(u)) /\ ResultOf(u)' = ResultOf(u)
  BY <1>1, <1>9 DEF Kept, ResultOf
<1>11. \A u \in Turns : (Kept(u)' /\ ask'[u].session = s) <=> (Kept(u) /\ ask[u].session = s)
  BY <1>2, <1>10
<1>12. \A u \in Elems(log[s]) : ResultOf(u)' = ResultOf(u)
  BY <1>4, <1>10
<1>13. AnswersAt(s)'
  BY <1>11, <1>12, AnswersStay DEF ServiceInv
<1> QED
  BY <1>8, <1>13

LEMMA AppendKeepsInv ==
  ASSUME ServiceInv, NEW t \in Turns, pc[t] \in {"actor", "critic"},
         NEW d \in Draft, NEW locals \in WorkType, locals.evicted = {},
         Len(locals.rounds) <= MaxIterations, locals.tier = work.tier,
         AppendTurn(t, d, locals), UNCHANGED <<issued, ask, answer, forgotten, regulated>>
  PROVE  ServiceInv' /\ Alive' = Alive
<1> DEFINE s == ask[t].session
           e == [turn |-> t, result |-> d]
           r == [session[s] EXCEPT !.window = Append(session[s].window, e)]
<1>1. /\ pc[t] \in Running /\ s \in Alive /\ s \in Sessions
      /\ ask[t] \in Request /\ work.evicted = {}
  BY RunningAlive DEF ServiceInv, WorkOK, Alive, Running
<1>2. /\ session[s] \in SessionRecord /\ session[s].window \in Seq(Entry)
      /\ session[s].anchors \in Seq(Entry) /\ log[s] \in Seq(Turns)
  BY <1>1, AliveRecord DEF ServiceInv
<1>3. e \in Entry
  BY DEF Entry
<1>4. /\ session' = [session EXCEPT ![s] = r] /\ log' = [log EXCEPT ![s] = Append(log[s], t)]
      /\ work' = [locals EXCEPT !.result = d] /\ Goto(t, "compress")
  BY DEF AppendTurn
<1>5. /\ work' \in WorkType /\ work'.result = d /\ work'.evicted = {}
      /\ work'.tier = work.tier /\ work'.rounds = locals.rounds
  BY <1>4 DEF WorkType
<1>6. Append(session[s].window, e) \in Seq(Entry)
  BY <1>2, <1>3
<1>7. /\ r \in SessionRecord /\ r.window = Append(session[s].window, e)
      /\ r.anchors = session[s].anchors /\ r.summary = session[s].summary
      /\ r.metadata = session[s].metadata
  BY <1>2, <1>6 DEF SessionRecord
<1> HIDE DEF r, e
<1>8. /\ session' \in [Sessions -> SessionRecord \cup {Nothing}]
      /\ session'[s] = r /\ \A u \in Sessions \ {s} : session'[u] = session[u]
      /\ Alive' = Alive
  BY <1>1, <1>4, <1>7, SessionReplaced DEF ServiceInv
<1>9. /\ log' \in [Sessions -> Seq(Turns)] /\ log'[s] = Append(log[s], t)
      /\ \A u \in Sessions \ {s} : log'[u] = log[u]
  BY <1>1, <1>2, <1>4 DEF ServiceInv, TypeOK
<1>10. Moves(t, "compress")
  BY <1>1, <1>4, <1>8 DEF Moves, Calls, Running
<1>11. UNCHANGED <<answer, forgotten, regulated>>
  OBVIOUS
<1>12. TypeOK'
  <2>1. \A u \in Alive : /\ Len(session[u].window) <= MaxTurns /\ MaxTurns \in Nat
                         /\ Len(session[u].window) \in Nat /\ u \in Sessions
    BY <1>1, WindowCap DEF ServiceInv, Alive
  <2>2. Len(r.window) = Len(session[s].window) + 1
    BY <1>2, <1>3, <1>7
  <2>3. \A u \in Alive :
           /\ Len(session'[u].window) <= MaxTurns + 1
           /\ Len(session'[u].window) > MaxTurns => "compress" = "compress" /\ ask[t].session = u
    BY <1>1, <1>8, <2>1, <2>2
  <2>4. /\ answer' \in [Turns -> Draft \cup {Nothing}] /\ forgotten' \subseteq Turns
        /\ regulated' \subseteq Alive
    BY DEF ServiceInv, TypeOK
  <2>5. \A u \in Sessions \ Alive : log'[u] = log[u]
    BY <1>1, <1>9
  <2>6. "compress" \in Running /\ work'.result \in Draft /\ Len(work'.rounds) <= MaxIterations
    BY <1>5 DEF Running
  <2> QED
    BY <1>8, <1>9, <1>10, <2>3, <2>4, <2>5, <2>6, TypeStays DEF ServiceInv
<1>13. WorkOK'
  BY <1>5, <1>10, WorkStays DEF ServiceInv
<1>14. TierOK'
  <2>1. \A u \in regulated : /\ u \in Sessions
                             /\ "regulatory" \in session[u].metadata.techs
    BY DEF ServiceInv, TypeOK, TierOK, Alive
  <2>2. \A u \in regulated' : "regulatory" \in session'[u].metadata.techs
    BY <1>7, <1>8, <2>1
  <2>3. ask[t].session \in regulated' /\ ask[t].form.override = Nothing => work'.tier = "executive"
    BY <1>1, <1>5 DEF ServiceInv, TierOK, RegulationRemembered
  <2> QED
    BY <1>10, <2>2, <2>3, TierStays DEF ServiceInv
<1>15. /\ t \notin Elems(log[s]) /\ t \notin forgotten
       /\ \A u \in Elems(log[s]) : u \in Turns /\ Kept(u) /\ ask[u].session = s
  <2>1. ~Kept(t)
    BY DEF Kept, Remembering
  <2> QED
    BY <1>1, <2>1, LogKept DEF ServiceInv, AnswersOK
<1>16. Elems(log'[s]) = Elems(log[s]) \cup {t}
  BY <1>2, <1>9, ElemsAppend
<1>17. MemoryAt(s)'
  <2>1. /\ Window(s) \in Seq(Turns) /\ Anchors(s) \in Seq(Turns)
        /\ Window(s)' = Append(Window(s), t) /\ Anchors(s)' = Anchors(s)
    <3>1. e.turn = t
      BY DEF e
    <3>2. session'[s].window = Append(session[s].window, e) /\ session'[s].anchors = session[s].anchors
      BY <1>7, <1>8
    <3>3. TurnsIn(session[s].window) \in Seq(Turns) /\ TurnsIn(session[s].anchors) \in Seq(Turns)
      BY <1>2, <1>3, TurnsInAppend
    <3>4. TurnsIn(Append(session[s].window, e)) = Append(TurnsIn(session[s].window), t)
      BY <1>2, <1>3, <3>1, TurnsInAppend
    <3> QED
      BY <3>2, <3>3, <3>4 DEF Window, Anchors
  <2>2. Dropped(s)' = Dropped(s)
    BY <1>15, <1>16 DEF Dropped
  <2>3. Waiting(s)' = {} /\ Waiting(s) = {}
    BY <1>1, <1>5 DEF Waiting
  <2>4. Committed(s)' \subseteq Committed(s) \cup {t}
    BY <1>16 DEF Committed, Commits
  <2>5. MemoryAt(s)
    BY <1>1 DEF ServiceInv, MemoryOK
  <2>6. session'[s].summary = session[s].summary
    BY <1>7, <1>8
  <2>7. Mem(Append(Window(s), t), Anchors(s), session[s].summary, Append(log[s], t),
            Dropped(s), Waiting(s), Committed(s)')
    BY <1>2, <1>15, <2>1, <2>4, <2>5, MemAppend DEF MemoryAt
  <2> QED
    BY <1>9, <2>1, <2>2, <2>3, <2>6, <2>7 DEF MemoryAt
<1>18. /\ pc' \in [Turns -> Calls] /\ pc'[t] = "compress"
       /\ \A u \in Turns \ {t} : pc'[u] = pc[u] /\ pc[u] \notin Running
  BY <1>1, <1>4, OneTurn DEF ServiceInv, Calls, Running
<1>19. /\ \A u \in Turns \ {t} : (Kept(u)' <=> Kept(u)) /\ (Kept(u) => ResultOf(u)' = ResultOf(u))
       /\ Kept(t)' /\ ResultOf(t)' = d
  <2>1. \A u \in Turns \ {t} : ~Remembering(u) /\ ~Remembering(u)'
    BY <1>18 DEF Remembering, Running
  <2> QED
    BY <1>5, <1>18, <2>1 DEF Kept, ResultOf, Remembering
<1>20. AnswersAt(s)'
  <2>0. AnswersAt(s)
    BY <1>1 DEF ServiceInv, AnswersOK
  <2>1. Elems(log'[s]) = {u \in Turns : Kept(u)' /\ ask'[u].session = s}
    BY <1>16, <1>19, <2>0 DEF AnswersAt
  <2>2. /\ \A i \in 1..Len(session[s].window) : session[s].window[i].turn \in Turns \ {t}
        /\ \A i \in 1..Len(session[s].anchors) : session[s].anchors[i].turn \in Turns \ {t}
        /\ \A i \in 1..Len(session[s].window) : Kept(session[s].window[i].turn)
        /\ \A i \in 1..Len(session[s].anchors) : Kept(session[s].anchors[i].turn)
    BY <1>1, <1>15, LogKept DEF ServiceInv
  <2>3. (\A i \in 1..Len(session[s].window) :
           session[s].window[i].result = ResultOf(session[s].window[i].turn))'
    <3>1. /\ session'[s].window = Append(session[s].window, e) /\ e.turn = t /\ e.result = d
      BY <1>7, <1>8 DEF e
    <3>2. /\ Len(session'[s].window) = Len(session[s].window) + 1
          /\ Len(session[s].window) \in Nat
          /\ \A i \in 1..Len(session[s].window) : session'[s].window[i] = session[s].window[i]
          /\ session'[s].window[Len(session[s].window) + 1] = e
      BY <1>2, <1>3, <3>1, ElemsAppend
    <3>3. PICK n \in Nat : n = Len(session[s].window)
      BY <3>2
    <3>4. Len(session'[s].window) = n + 1
      BY <3>2, <3>3
    <3>5. ASSUME NEW i \in 1..(n + 1)
          PROVE  (session[s].window[i].result = ResultOf(session[s].window[i].turn))'
      <4>1. CASE i = n + 1
        <5>1. session'[s].window[i] = e
          BY <3>2, <3>3, <4>1
        <5> QED
          BY <1>19, <3>1, <5>1 DEF ResultOf, Remembering
      <4>2. CASE i # n + 1
        <5>1. i \in 1..Len(session[s].window)
          BY <3>3, <4>2
        <5>2. session'[s].window[i] = session[s].window[i]
          BY <3>2, <5>1
        <5>3. session[s].window[i].result = ResultOf(session[s].window[i].turn)
          BY <2>0, <5>1 DEF AnswersAt
        <5> QED
          BY <1>19, <2>2, <5>1, <5>2, <5>3 DEF ResultOf, Remembering
      <4> QED
        BY <4>1, <4>2
    <3> QED
      BY <3>4, <3>5
  <2>4. (\A i \in 1..Len(session[s].anchors) :
           session[s].anchors[i].result = ResultOf(session[s].anchors[i].turn))'
    <3>1. session'[s].anchors = session[s].anchors
      BY <1>7, <1>8
    <3>2. \A i \in 1..Len(session[s].anchors) :
             session[s].anchors[i].result = ResultOf(session[s].anchors[i].turn)
      BY <2>0 DEF AnswersAt
    <3> QED
      BY <1>19, <2>2, <3>1, <3>2 DEF ResultOf, Remembering
  <2> QED
    BY <2>1, <2>3, <2>4 DEF AnswersAt
<1>21. ASSUME NEW u \in Alive, u # s PROVE MemoryAt(u)' /\ AnswersAt(u)'
  <2>1. \A v \in Alive \ {ask[t].session} : session'[v] = session[v] /\ log'[v] = log[v]
    BY <1>8, <1>9 DEF Alive
  <2>2. \A v \in work'.evicted : v \in work.evicted \/ ask[v].session = ask[t].session
    BY <1>5
  <2> QED
    BY <1>1, <1>10, <1>11, <1>21, <2>1, <2>2, OthersStay
<1>22. MemoryOK' /\ AnswersOK'
  <2>1. \A u \in forgotten' : Kept(u)'
    BY <1>15, <1>19 DEF ServiceInv, AnswersOK, TypeOK
  <2> QED
    BY <1>8, <1>17, <1>20, <1>21, <2>1 DEF MemoryOK, AnswersOK
<1> QED
  BY <1>8, <1>12, <1>13, <1>14, <1>22 DEF ServiceInv

LEMMA GenerateKeepsInv ==
  ASSUME ServiceInv, NEW t \in Turns, Generate(t)
  PROVE  ServiceInv' /\ Alive' = Alive
<1>1. pc[t] = "actor" /\ UNCHANGED <<issued, ask, answer, forgotten, regulated>>
  BY DEF Generate, At
<1>2. PICK d \in Drafts :
        AppendTurn(t, EnforceScope(d), [work EXCEPT !.index = Len(Of(t).window) + 1])
  BY DEF Generate
<1> DEFINE locals == [work EXCEPT !.index = Len(Of(t).window) + 1]
<1>3. EnforceScope(d) \in Draft
  BY DraftScoped, ConversationConstantsOK
<1>4. /\ work \in WorkType /\ work.evicted = {} /\ Len(work.rounds) <= MaxIterations
      /\ Of(t).window \in Seq(Entry)
  BY <1>1, RunningAlive, AliveRecord DEF ServiceInv, WorkOK, TypeOK, Running, Of
<1>5. /\ locals \in WorkType /\ locals.evicted = {} /\ locals.rounds = work.rounds
      /\ locals.tier = work.tier
  <2>1. Len(Of(t).window) + 1 \in Nat
    BY <1>4
  <2> QED
    BY <1>4, <2>1 DEF WorkType
<1> HIDE DEF locals
<1> QED
  BY <1>1, <1>2, <1>3, <1>4, <1>5, AppendKeepsInv DEF locals

LEMMA ReviewKeepsInv ==
  ASSUME ServiceInv, NEW t \in Turns, Review(t)
  PROVE  ServiceInv' /\ Alive' = Alive
<1>1. /\ pc[t] = "critic" /\ pc[t] \in Running
      /\ UNCHANGED <<issued, ask, answer, forgotten, regulated>>
  BY DEF Review, At, Running
<1> DEFINE decision(v) == Decide(v, MaxIterations - Len(work.rounds) - 1)
           round(v) == [verdict |-> v, decision |-> decision(v)]
           audited(v) == [work EXCEPT !.rounds = Append(work.rounds, round(v))]
<1>2. PICK v \in Verdicts :
        \/ decision(v) = "accept" /\ AppendTurn(t, work.current, audited(v))
        \/ decision(v) = "synthesize" /\ AppendTurn(t, SynthesizeFallback(work.current), audited(v))
        \/ /\ decision(v) = "iterate"
           /\ work' = audited(v)
           /\ Goto(t, "actor")
           /\ UNCHANGED <<session, log>>
  BY DEF Review
<1>3. /\ work \in WorkType /\ work.evicted = {} /\ Len(work.rounds) < MaxIterations
      /\ work.current \in Draft
  BY <1>1 DEF ServiceInv, WorkOK
<1>4. MaxIterations \in Nat /\ work.rounds \in Seq(Round) /\ Len(work.rounds) \in Nat
  BY <1>3, ConversationConstantsOK DEF WorkType
<1>5. /\ audited(v) \in WorkType /\ audited(v).evicted = {} /\ audited(v).tier = work.tier
      /\ audited(v).current = work.current /\ Len(audited(v).rounds) = Len(work.rounds) + 1
  <2>1. round(v) \in Round
    BY DEF Round, Decide
  <2> HIDE DEF round
  <2>2. PICK r \in Seq(Round) : /\ r = Append(work.rounds, round(v))
                                /\ Len(r) = Len(work.rounds) + 1
    <3>1. /\ Append(work.rounds, round(v)) \in Seq(Round)
          /\ Len(Append(work.rounds, round(v))) = Len(work.rounds) + 1
      BY <1>4, <2>1
    <3> QED
      BY <3>1
  <2>3. audited(v) = [work EXCEPT !.rounds = r]
    BY <2>2
  <2> QED
    BY <1>3, <2>2, <2>3, WorkFields
<1> HIDE DEF audited
<1>6. Len(audited(v).rounds) <= MaxIterations
  BY <1>3, <1>4, <1>5
<1>7. CASE decision(v) = "accept" /\ AppendTurn(t, work.current, audited(v))
  BY <1>1, <1>3, <1>5, <1>6, <1>7, AppendKeepsInv
<1>8. CASE decision(v) = "synthesize" /\ AppendTurn(t, SynthesizeFallback(work.current), audited(v))
  <2>1. SynthesizeFallback(work.current) \in Draft
    BY <1>3, DraftSynthesized
  <2> QED
    BY <1>1, <1>5, <1>6, <1>8, <2>1, AppendKeepsInv
<1>9. CASE /\ decision(v) = "iterate"
           /\ work' = audited(v)
           /\ Goto(t, "actor")
           /\ UNCHANGED <<session, log>>
  <2>1. MaxIterations - Len(work.rounds) - 1 > 0
    BY <1>2, <1>9 DEF Decide
  <2>2. Len(work'.rounds) < MaxIterations
    BY <1>4, <1>5, <1>9, <2>1
  <2>3. Moves(t, "actor")
    BY <1>1, <1>9, StoreStays DEF Moves, Calls, Running
  <2>4. ~Kept(t) /\ "actor" \in Running
    BY <1>1 DEF Kept, Remembering, Running
  <2>5. work' \in WorkType /\ work'.evicted = {} /\ work'.tier = work.tier
    BY <1>5, <1>9
  <2> QED
    BY <1>1, <1>3, <1>6, <1>9, <2>2, <2>3, <2>4, <2>5, CallsKeepInv, StoreStays
<1> QED
  BY <1>2, <1>7, <1>8, <1>9

\* A step of compression: the record of session s becomes r, and P is with
\* the summarizer.
Compresses(t, c, r, s, P) ==
  /\ pc[t] \in {"compress", "summarize"} /\ c \in {"compress", "extract"}
  /\ Goto(t, c)
  /\ UNCHANGED <<issued, ask, answer, log, regulated>>
  /\ r \in SessionRecord /\ s = ask[t].session
  /\ session' = [session EXCEPT ![s] = r]
  /\ r.metadata = session[s].metadata
  /\ Len(r.window) <= MaxTurns + 1
  /\ Len(r.window) > MaxTurns => c = "compress"
  /\ P \in SUBSET Turns
  /\ work' = [work EXCEPT !.evicted = P]
  /\ c = "extract" => P = {}
  /\ \A u \in P : ask[u].session = s
  /\ \A u \in forgotten' : u \in forgotten \/ u \in work.evicted
  /\ forgotten \subseteq forgotten'
  /\ \A i \in 1..Len(r.window) : Kept(r.window[i].turn) /\ r.window[i].turn \in Turns
                                 /\ r.window[i].result = ResultOf(r.window[i].turn)
  /\ \A i \in 1..Len(r.anchors) : Kept(r.anchors[i].turn) /\ r.anchors[i].turn \in Turns
                                  /\ r.anchors[i].result = ResultOf(r.anchors[i].turn)

LEMMA CompressionKeepsRest ==
  ASSUME ServiceInv, NEW t \in Turns, NEW c, NEW r, NEW s, NEW P, Compresses(t, c, r, s, P)
  PROVE  /\ TypeOK' /\ WorkOK' /\ TierOK' /\ AnswersOK'
         /\ session'[s] = r /\ work'.evicted = P /\ Alive' = Alive /\ s \in Alive
         /\ \A u \in Alive \ {s} : MemoryAt(u)'
<1> USE DEF Compresses
<1>1. pc[t] \in Running /\ s \in Alive /\ s \in Sessions
  BY RunningAlive DEF ServiceInv, Alive, Running
<1>2. /\ session' \in [Sessions -> SessionRecord \cup {Nothing}]
      /\ session'[s] = r /\ \A u \in Sessions \ {s} : session'[u] = session[u]
      /\ Alive' = Alive
  BY <1>1, SessionReplaced DEF ServiceInv
<1>3. /\ work' \in WorkType /\ work'.evicted = P /\ work'.rounds = work.rounds
      /\ work'.result = work.result /\ work'.tier = work.tier /\ work'.current = work.current
  BY DEF ServiceInv, WorkOK, WorkType
<1>4. Moves(t, c)
  BY <1>1, <1>2 DEF Moves, Calls, Running
<1>5. Remembering(t) /\ c \in Running /\ c \in {"compress", "summarize", "extract"}
  BY DEF Remembering, Running
<1>6. TypeOK'
  <2>1. \A u \in Alive \ {s} : /\ Len(session[u].window) <= MaxTurns /\ MaxTurns \in Nat
                               /\ Len(session[u].window) \in Nat /\ u \in Sessions
    BY <1>1, WindowCap DEF ServiceInv, Alive
  <2>2. \A u \in Alive :
           /\ Len(session'[u].window) <= MaxTurns + 1
           /\ Len(session'[u].window) > MaxTurns => c = "compress" /\ ask[t].session = u
    BY <1>2, <2>1
  <2>3. work.result \in Draft /\ Len(work.rounds) <= MaxIterations
    BY <1>1, <1>5 DEF ServiceInv, TypeOK
  <2>4. /\ answer' \in [Turns -> Draft \cup {Nothing}] /\ forgotten' \subseteq Turns
        /\ regulated' \subseteq Alive /\ log' \in [Sessions -> Seq(Turns)]
        /\ \A u \in Sessions \ Alive : log'[u] = log[u]
    BY DEF ServiceInv, TypeOK, WorkOK, WorkType
  <2> QED
    BY <1>2, <1>3, <1>4, <1>5, <2>2, <2>3, <2>4, TypeStays DEF ServiceInv
<1>7. WorkOK'
  <2>1. c # "critic" /\ c # "actor" /\ c # "not_found"
    OBVIOUS
  <2> QED
    BY <1>3, <1>4, <2>1, WorkStays DEF ServiceInv
<1>8. TierOK'
  <2>1. \A u \in regulated : u \in Sessions /\ "regulatory" \in session[u].metadata.techs
    BY DEF ServiceInv, TypeOK, TierOK, Alive
  <2>2. \A u \in regulated' : "regulatory" \in session'[u].metadata.techs
    BY <1>2, <2>1
  <2>3. ask[t].session \in regulated' /\ ask[t].form.override = Nothing => work'.tier = "executive"
    BY <1>1, <1>3 DEF ServiceInv, TierOK, RegulationRemembered
  <2> QED
    BY <1>4, <2>2, <2>3, TierStays DEF ServiceInv
<1>9. ASSUME NEW u \in Alive, u # s PROVE MemoryAt(u)' /\ AnswersAt(u)'
  <2>1. \A v \in Alive \ {ask[t].session} : session'[v] = session[v] /\ log'[v] = log[v]
    BY <1>2 DEF Alive
  <2> QED
    BY <1>1, <1>3, <1>4, <1>9, <2>1, OthersStay
<1>10. /\ \A u \in Turns : Kept(u)' <=> Kept(u)
       /\ \A u \in Turns : Kept(u) => ask'[u] = ask[u] /\ ResultOf(u)' = ResultOf(u)
  <2>1. Kept(t)
    BY <1>5 DEF Kept
  <2> QED
    BY <1>3, <1>4, <1>5, <2>1, KeptStays DEF ServiceInv
<1>11. AnswersAt(s)'
  <2>1. AnswersAt(s)
    BY <1>1 DEF ServiceInv, AnswersOK
  <2>2. Elems(log'[s]) = {u \in Turns : Kept(u)' /\ ask'[u].session = s}
    BY <1>10, <2>1 DEF AnswersAt
  <2>3. (\A i \in 1..Len(session[s].window) :
           session[s].window[i].result = ResultOf(session[s].window[i].turn))'
    BY <1>2, <1>10 DEF ResultOf, Remembering
  <2>4. (\A i \in 1..Len(session[s].anchors) :
           session[s].anchors[i].result = ResultOf(session[s].anchors[i].turn))'
    BY <1>2, <1>10 DEF ResultOf, Remembering
  <2> QED
    BY <2>2, <2>3, <2>4 DEF AnswersAt
<1>12. AnswersOK'
  <2>1. \A u \in forgotten' : u \in Turns /\ Kept(u)
    BY EvictedKept DEF ServiceInv, AnswersOK, TypeOK
  <2> QED
    BY <1>2, <1>9, <1>10, <1>11, <2>1 DEF AnswersOK
<1> QED
  BY <1>1, <1>2, <1>3, <1>6, <1>7, <1>8, <1>9, <1>12

\* What the entries of a session record.
LEMMA EntriesKept ==
  ASSUME ServiceInv, NEW s \in Alive
  PROVE  /\ \A i \in 1..Len(session[s].window) :
              /\ Kept(session[s].window[i].turn) /\ session[s].window[i].turn \in Turns
              /\ session[s].window[i].result = ResultOf(session[s].window[i].turn)
         /\ \A i \in 1..Len(session[s].anchors) :
              /\ Kept(session[s].anchors[i].turn) /\ session[s].anchors[i].turn \in Turns
              /\ session[s].anchors[i].result = ResultOf(session[s].anchors[i].turn)
  BY LogKept DEF ServiceInv, AnswersOK, AnswersAt

LEMMA EvictKeepsInv ==
  ASSUME ServiceInv, NEW t \in Turns, Evict(t)
  PROVE  ServiceInv' /\ Alive' = Alive
<1>0. PICK s : s = ask[t].session
  OBVIOUS
<1>1. /\ pc[t] = "compress" /\ pc[t] \in Running /\ Len(session[s].window) > MaxTurns
      /\ UNCHANGED <<issued, pc, ask, answer, log, forgotten, regulated>>
  BY <1>0 DEF Evict, At, Of, Running
<1>2. s \in Alive /\ s \in Sessions
  BY <1>0, <1>1, RunningAlive DEF ServiceInv, Alive
<1> DEFINE w == session[s].window
           a == session[s].anchors
           m == session[s].summary
<1>3. PICK isAnchor \in Detect(Head(w).turn) :
        /\ session' = [session EXCEPT
             ![s].window = Tail(@), ![s].anchors = IF isAnchor THEN Append(@, Head(w)) ELSE @]
        /\ work' = [work EXCEPT !.evicted = IF isAnchor THEN @ ELSE @ \cup {Head(w).turn}]
  BY <1>0 DEF Evict, Of
<1> DEFINE b == IF isAnchor THEN Append(a, Head(w)) ELSE a
           P == IF isAnchor THEN work.evicted ELSE work.evicted \cup {Head(w).turn}
           r == [session[s] EXCEPT !.window = Tail(w), !.anchors = b]
<1>4. /\ session[s] \in SessionRecord /\ w \in Seq(Entry) /\ a \in Seq(Entry) /\ m \subseteq Turns
      /\ log[s] \in Seq(Turns)
  BY <1>2, AliveRecord DEF ServiceInv
<1>5. MaxTurns \in Nat /\ Len(w) > 0 /\ Len(w) <= MaxTurns + 1 /\ Len(w) \in Nat
  BY <1>1, <1>2, WindowCap DEF ServiceInv
<1>6. /\ TurnsIn(w) \in Seq(Turns) /\ Len(TurnsIn(w)) = Len(w)
      /\ Head(w) \in Entry /\ Tail(w) \in Seq(Entry) /\ Len(Tail(w)) = Len(w) - 1
      /\ TurnsIn(Tail(w)) = Tail(TurnsIn(w)) /\ Head(TurnsIn(w)) = Head(w).turn
      /\ \A i \in 1..Len(Tail(w)) : Tail(w)[i] = w[i + 1] /\ i + 1 \in 1..Len(w)
      /\ Head(w) = w[1] /\ 1 \in 1..Len(w)
  BY <1>4, <1>5, TurnsInTail
<1>7. /\ TurnsIn(a) \in Seq(Turns) /\ TurnsIn(Append(a, Head(w))) = Append(TurnsIn(a), Head(w).turn)
      /\ Append(a, Head(w)) \in Seq(Entry) /\ Len(Append(a, Head(w))) = Len(a) + 1
      /\ Len(a) \in Nat
      /\ \A i \in 1..Len(a) : Append(a, Head(w))[i] = a[i]
      /\ Append(a, Head(w))[Len(a) + 1] = Head(w)
  <2>1. /\ TurnsIn(a) \in Seq(Turns)
        /\ TurnsIn(Append(a, Head(w))) = Append(TurnsIn(a), Head(w).turn)
    BY <1>4, <1>6, TurnsInAppend
  <2>2. a \in Seq(Entry) /\ Head(w) \in Entry
    BY <1>4, <1>6
  <2> HIDE DEF a, w
  <2> QED
    BY <2>1, <2>2, ElemsAppend
<1>8. b \in Seq(Entry)
  BY <1>4, <1>7
<1>9. session' = [session EXCEPT ![s] = r] /\ work' = [work EXCEPT !.evicted = P]
  BY <1>3
<1>10. Head(w).turn \in Turns /\ P \in SUBSET Turns
  <2>1. Head(w).turn \in Turns
    BY <1>6 DEF Entry
  <2> QED
    BY <2>1 DEF ServiceInv, WorkOK, WorkType
<1>11. /\ \A i \in 1..Len(w) : Kept(w[i].turn) /\ w[i].turn \in Turns
                               /\ w[i].result = ResultOf(w[i].turn)
       /\ \A i \in 1..Len(a) : Kept(a[i].turn) /\ a[i].turn \in Turns
                               /\ a[i].result = ResultOf(a[i].turn)
       /\ Head(w).turn \in Elems(log[s]) /\ ask[Head(w).turn].session = s
  <2>1. Head(w).turn \in Elems(log[s])
    BY <1>2, <1>6, LogKept DEF ServiceInv
  <2> QED
    BY <1>2, <2>1, EntriesKept, LogKept DEF ServiceInv
<1>12. r \in SessionRecord /\ r.window = Tail(w) /\ r.anchors = b /\ r.summary = m
       /\ r.metadata = session[s].metadata
  <2> HIDE DEF b
  <2> QED
    BY <1>4, <1>6, <1>8 DEF SessionRecord
<1>13. \A i \in 1..Len(Tail(w)) : Kept(Tail(w)[i].turn) /\ Tail(w)[i].turn \in Turns
                                  /\ Tail(w)[i].result = ResultOf(Tail(w)[i].turn)
  BY <1>6, <1>11
<1>14. \A i \in 1..Len(b) : Kept(b[i].turn) /\ b[i].turn \in Turns
                            /\ b[i].result = ResultOf(b[i].turn)
  <2>1. CASE ~isAnchor
    BY <1>11, <2>1
  <2>2. CASE isAnchor
    <3>1. b = Append(a, Head(w)) /\ Len(b) = Len(a) + 1
      BY <1>7, <2>2
    <3>2. \A i \in 1..(Len(a) + 1) : i \in 1..Len(a) \/ i = Len(a) + 1
      <4>1. Len(a) \in Nat
        BY <1>7
      <4> QED
        BY <4>1
    <3> HIDE DEF b
    <3> QED
      BY <1>6, <1>7, <1>11, <3>1, <3>2
  <2> QED
    BY <2>1, <2>2
<1>15. \A u \in P : ask[u].session = s
  BY <1>0, <1>1, <1>11 DEF ServiceInv, WorkOK
<1>16. Goto(t, "compress")
  BY <1>1 DEF Goto, ServiceInv, TypeOK
<1>17. Len(r.window) <= MaxTurns
  BY <1>5, <1>6, <1>12
<1> HIDE DEF r, P, b
<1>18. /\ TypeOK' /\ WorkOK' /\ TierOK' /\ AnswersOK'
       /\ session'[s] = r /\ work'.evicted = P /\ Alive' = Alive
       /\ \A u \in Alive \ {s} : MemoryAt(u)'
  <2>1. Len(r.window) <= MaxTurns + 1
    <3>1. Len(r.window) \in Nat
      BY <1>6, <1>12
    <3> QED
      BY <1>5, <1>17, <3>1
  <2>2. /\ \A i \in 1..Len(r.window) : Kept(r.window[i].turn) /\ r.window[i].turn \in Turns
                                      /\ r.window[i].result = ResultOf(r.window[i].turn)
        /\ \A i \in 1..Len(r.anchors) : Kept(r.anchors[i].turn) /\ r.anchors[i].turn \in Turns
                                      /\ r.anchors[i].result = ResultOf(r.anchors[i].turn)
    BY <1>12, <1>13, <1>14
  <2>3. Compresses(t, "compress", r, s, P)
    BY <1>0, <1>1, <1>9, <1>10, <1>12, <1>15, <1>16, <1>17, <2>1, <2>2 DEF Compresses
  <2> QED
    BY <2>3, CompressionKeepsRest
<1>19. MemoryAt(s)'
  <2>1. Mem(Window(s), Anchors(s), m, log[s], Dropped(s), Waiting(s), Committed(s))
    BY <1>2 DEF ServiceInv, MemoryOK, MemoryAt
  <2>2. /\ Window(s) \in Seq(Turns) /\ Anchors(s) \in Seq(Turns) /\ Len(Window(s)) > 0
        /\ Window(s)' = Tail(Window(s)) /\ Head(Window(s)) = Head(w).turn
    BY <1>5, <1>6, <1>7, <1>12, <1>18 DEF Window, Anchors
  <2>3. /\ Dropped(s)' = Dropped(s) /\ Committed(s)' = Committed(s)
        /\ log'[s] = log[s] /\ session'[s].summary = m
    BY <1>1, <1>12, <1>18 DEF Dropped, Committed, Commits
  <2>4. CASE isAnchor
    <3>1. Anchors(s)' = Append(Anchors(s), Head(Window(s)))
      BY <1>6, <1>7, <1>12, <1>18, <2>4 DEF Window, Anchors, b
    <3>2. Waiting(s)' = Waiting(s)
      BY <1>1, <1>18, <2>4 DEF Waiting, P
    <3>3. Mem(Tail(Window(s)), Append(Anchors(s), Head(Window(s))), m, log[s], Dropped(s),
              Waiting(s), Committed(s))
      BY <1>4, <2>1, <2>2, MemAnchor
    <3> QED
      BY <2>2, <2>3, <3>1, <3>2, <3>3 DEF MemoryAt
  <2>5. CASE ~isAnchor
    <3>1. Anchors(s)' = Anchors(s)
      BY <1>12, <1>18, <2>5 DEF Anchors, b
    <3>2. Waiting(s)' = Waiting(s) \cup {Head(Window(s))}
      BY <1>1, <1>11, <1>18, <2>2, <2>5 DEF Waiting, P
    <3>3. AnchorMode = "heuristic" => Head(Window(s)) \notin Committed(s)
      BY <1>3, <2>2, <2>5 DEF Detect, Committed
    <3>4. Mem(Tail(Window(s)), Anchors(s), m, log[s], Dropped(s),
              Waiting(s) \cup {Head(Window(s))}, Committed(s))
      BY <1>4, <2>1, <2>2, <3>3, MemEvict
    <3> QED
      BY <2>2, <2>3, <3>1, <3>2, <3>4 DEF MemoryAt
  <2> QED
    BY <2>4, <2>5
<1> QED
  BY <1>18, <1>19 DEF ServiceInv, MemoryOK

LEMMA SummarizeKeepsInv ==
  ASSUME ServiceInv, NEW t \in Turns, Summarize(t) \/ SummarizeFails(t)
  PROVE  ServiceInv' /\ Alive' = Alive
<1>0. PICK s : s = ask[t].session
  OBVIOUS
<1> DEFINE m == session[s].summary
<1>1. /\ pc[t] = "summarize" /\ pc[t] \in Running /\ Goto(t, "extract")
      /\ work' = [work EXCEPT !.evicted = {}]
      /\ UNCHANGED <<issued, ask, answer, log, regulated>>
  BY DEF Summarize, SummarizeFails, At, Running
<1>2. s \in Alive /\ s \in Sessions
  BY <1>0, <1>1, RunningAlive DEF ServiceInv, Alive
<1>3. /\ session[s] \in SessionRecord /\ m \subseteq Turns /\ log[s] \in Seq(Turns)
      /\ session[s].window \in Seq(Entry) /\ session[s].anchors \in Seq(Entry)
      /\ work.evicted \subseteq Turns
  BY <1>2, AliveRecord DEF ServiceInv, WorkOK, WorkType
<1>4. \A u \in work.evicted : ask[u].session = s /\ u \in Elems(log[s])
  <2>1. \A u \in work.evicted : ask[u].session = s
    BY <1>0, <1>1 DEF ServiceInv, WorkOK
  <2>2. Waiting(s) \subseteq Elems(log[s])
    BY <1>2, LogKept DEF ServiceInv
  <2> QED
    BY <2>1, <2>2 DEF Waiting
<1>5. PICK m2 \in SUBSET Turns :
        /\ session' = [session EXCEPT ![s] = [session[s] EXCEPT !.summary = m2]]
        /\ \/ m2 = m \cup work.evicted /\ forgotten' = forgotten
           \/ m2 = m /\ forgotten' = forgotten \cup work.evicted
  <2>1. CASE Summarize(t)
    <3>1. session' = [session EXCEPT ![s] = [session[s] EXCEPT !.summary = m \cup work.evicted]]
      BY <1>0, <2>1 DEF Summarize
    <3> QED
      BY <1>3, <2>1, <3>1 DEF Summarize
  <2>2. CASE SummarizeFails(t)
    <3>1. [session[s] EXCEPT !.summary = m] = session[s]
      BY <1>3 DEF SessionRecord
    <3>2. session' = [session EXCEPT ![s] = session[s]]
      BY <1>2, <2>2 DEF SummarizeFails, ServiceInv, TypeOK
    <3> QED
      BY <1>3, <2>2, <3>1, <3>2 DEF SummarizeFails
  <2> QED
    BY <2>1, <2>2
<1> DEFINE r == [session[s] EXCEPT !.summary = m2]
<1>6. /\ r \in SessionRecord /\ r.window = session[s].window /\ r.anchors = session[s].anchors
      /\ r.summary = m2 /\ r.metadata = session[s].metadata
  BY <1>3 DEF SessionRecord
<1>7. Len(r.window) <= MaxTurns /\ Len(r.window) <= MaxTurns + 1 /\ ~(Len(r.window) > MaxTurns)
  BY <1>1, <1>2, <1>6, WindowCap DEF ServiceInv
<1>8. session' = [session EXCEPT ![s] = r]
  BY <1>5
<1> HIDE DEF r
<1>9. /\ TypeOK' /\ WorkOK' /\ TierOK' /\ AnswersOK'
      /\ session'[s] = r /\ work'.evicted = {} /\ Alive' = Alive
      /\ \A u \in Alive \ {s} : MemoryAt(u)'
  <2>1. /\ \A i \in 1..Len(r.window) : Kept(r.window[i].turn) /\ r.window[i].turn \in Turns
                                     /\ r.window[i].result = ResultOf(r.window[i].turn)
        /\ \A i \in 1..Len(r.anchors) : Kept(r.anchors[i].turn) /\ r.anchors[i].turn \in Turns
                                     /\ r.anchors[i].result = ResultOf(r.anchors[i].turn)
    BY <1>2, <1>6, EntriesKept
  <2>2. /\ \A u \in forgotten' : u \in forgotten \/ u \in work.evicted
        /\ forgotten \subseteq forgotten'
    BY <1>5
  <2>3. {} \in SUBSET Turns /\ \A u \in {} : ask[u].session = s
    OBVIOUS
  <2>4. Compresses(t, "extract", r, s, {})
    BY <1>0, <1>1, <1>6, <1>7, <1>8, <2>1, <2>2, <2>3 DEF Compresses
  <2> QED
    BY <2>4, CompressionKeepsRest
<1>10. MemoryAt(s)'
  <2>1. Mem(Window(s), Anchors(s), m, log[s], Dropped(s), Waiting(s), Committed(s))
    BY <1>2 DEF ServiceInv, MemoryOK, MemoryAt
  <2>2. /\ Window(s)' = Window(s) /\ Anchors(s)' = Anchors(s) /\ Committed(s)' = Committed(s)
        /\ log'[s] = log[s] /\ session'[s].summary = m2
    BY <1>1, <1>6, <1>9 DEF Window, Anchors, Committed, Commits
  <2>3. Waiting(s) = work.evicted /\ Waiting(s)' = {}
    BY <1>4, <1>9 DEF Waiting
  <2>4. Window(s) \in Seq(Turns) /\ Anchors(s) \in Seq(Turns)
    <3>1. \A q \in Seq(Entry) : \A i \in 1..Len(q) : q[i] \in Entry
      OBVIOUS
    <3>2. \A q \in Seq(Entry) : \A i \in 1..Len(q) : q[i].turn \in Turns
      BY <3>1 DEF Entry
    <3>3. \A q \in Seq(Entry) : TurnsIn(q) \in Seq(Turns)
      BY <3>2 DEF TurnsIn
    <3> QED
      BY <1>3, <3>3 DEF Window, Anchors
  <2>5. CASE m2 = m \cup work.evicted /\ forgotten' = forgotten
    <3>1. Dropped(s)' = Dropped(s)
      BY <1>1, <2>5 DEF Dropped
    <3>2. Mem(Window(s), Anchors(s), m \cup Waiting(s), log[s], Dropped(s), {}, Committed(s))
      BY <1>3, <2>1, <2>4, MemSummarize
    <3> QED
      BY <2>2, <2>3, <2>5, <3>1, <3>2 DEF MemoryAt
  <2>6. CASE m2 = m /\ forgotten' = forgotten \cup work.evicted
    <3>1. Dropped(s)' = Dropped(s) \cup Waiting(s)
      BY <1>1, <1>4, <2>3, <2>6 DEF Dropped
    <3>2. Mem(Window(s), Anchors(s), m, log[s], Dropped(s) \cup Waiting(s), {}, Committed(s))
      BY <1>3, <2>1, <2>4, MemForget
    <3> QED
      BY <2>2, <2>3, <2>6, <3>1, <3>2 DEF MemoryAt
  <2> QED
    BY <1>5, <2>5, <2>6
<1> QED
  BY <1>9, <1>10 DEF ServiceInv, MemoryOK

-----------------------------------------------------------------------------
(* Sessions are created and lost, turns are sent.                          *)

LEMMA InitInv ==
  Init => ServiceInv
<1> SUFFICES ASSUME Init PROVE ServiceInv
  OBVIOUS
<1>1. Alive = {} /\ ~Busy /\ <<>> \in Seq(Turns)
  BY DEF Init, Alive, Busy, Running
<1>2. \A t \in Turns : pc[t] = "unsent" /\ pc[t] \notin Running /\ pc[t] # "not_found"
  BY DEF Init, Running
<1>3. <<>> \in Seq(Round)
  OBVIOUS
<1>4. TypeOK
  BY <1>1, <1>2 DEF TypeOK, Init
<1>5. WorkOK
  BY <1>2, <1>3 DEF WorkOK, WorkType, Init, Idle
<1>6. MemoryOK /\ AnswersOK /\ TierOK
  BY <1>1, <1>2 DEF MemoryOK, AnswersOK, TierOK, RegulationRemembered, Init
<1> QED
  BY <1>4, <1>5, <1>6 DEF ServiceInv

LEMMA CreateKeepsInv ==
  ASSUME ServiceInv, NEW s \in Sessions, Create(s)
  PROVE  ServiceInv'
<1>1. /\ s \notin issued /\ issued' = issued \cup {s}
      /\ session' = [session EXCEPT ![s] = NewSession]
      /\ UNCHANGED <<pc, ask, work, answer, log, forgotten, regulated>>
  BY DEF Create
<1>2. NewSession \in SessionRecord /\ NewSession # Nothing
  BY NewSessionRecord, ConversationConstantsOK
<1>3. s \notin Alive /\ log[s] = <<>>
  BY <1>1 DEF ServiceInv, TypeOK
<1>4. /\ session' \in [Sessions -> SessionRecord \cup {Nothing}]
      /\ session'[s] = NewSession /\ \A u \in Sessions \ {s} : session'[u] = session[u]
      /\ Alive' = Alive \cup {s}
  <2>1. /\ session' \in [Sessions -> SessionRecord \cup {Nothing}]
        /\ session'[s] = NewSession /\ \A u \in Sessions \ {s} : session'[u] = session[u]
    BY <1>1, <1>2 DEF ServiceInv, TypeOK
  <2> QED
    BY <1>2, <2>1 DEF Alive
<1>5. \A u \in Alive : u \in Sessions /\ u # s /\ session'[u] = session[u]
  BY <1>3, <1>4 DEF Alive
<1>6. NewSession.window = <<>> /\ NewSession.anchors = <<>> /\ NewSession.summary = {} /\ Len(<<>>) = 0
  BY DEF NewSession
<1>7. \A t \in Turns : pc[t] # "unsent" => ask[t].session # s
  BY <1>1 DEF ServiceInv, TypeOK
<1>8. TypeOK'
  <2>1. issued' \subseteq Sessions /\ Alive' \subseteq issued' /\ regulated' \subseteq Alive'
    BY <1>1, <1>4 DEF ServiceInv, TypeOK
  <2>2. /\ pc' \in [Turns -> Calls] /\ ask' \in [Turns -> Request \cup {Nothing}]
        /\ answer' \in [Turns -> Draft \cup {Nothing}] /\ log' \in [Sessions -> Seq(Turns)]
        /\ forgotten' \subseteq Turns
    BY <1>1 DEF ServiceInv, TypeOK, Calls
  <2>3. \A u \in Sessions \ Alive' : log'[u] = <<>>
    BY <1>1, <1>4 DEF ServiceInv, TypeOK
  <2>4. \A u \in Alive' :
          /\ Len(session'[u].window) <= MaxTurns + 1
          /\ Len(session'[u].window) > MaxTurns =>
               \E t \in Turns : pc'[t] = "compress" /\ ask'[t].session = u
    <3>1. \A u \in Alive :
            /\ Len(session[u].window) <= MaxTurns + 1
            /\ Len(session[u].window) > MaxTurns =>
                 \E t \in Turns : pc[t] = "compress" /\ ask[t].session = u
      BY DEF ServiceInv, TypeOK, At
    <3>2. Len(session'[s].window) = 0 /\ MaxTurns \in Nat
      BY <1>4, <1>6, ConversationConstantsOK
    <3> QED
      BY <1>1, <1>4, <1>5, <3>1, <3>2
  <2>5. \A t \in Turns :
          /\ pc'[t] # "unsent" => ask'[t] \in Request /\ ask'[t].session \in issued'
          /\ pc'[t] \in Running => /\ Of(t)' # Nothing
                                   /\ \A u \in Turns \ {t} : pc'[u] \notin Running
                                   /\ Len(work'.rounds) <= MaxIterations
                                   /\ Remembering(t)' => work'.result \in Draft
    <3>1. \A t \in Turns : pc[t] \in Running => pc[t] # "unsent"
      BY DEF Running
    <3>2. ASSUME NEW t \in Turns, pc[t] \in Running
          PROVE  /\ Of(t)' # Nothing
                 /\ \A u \in Turns \ {t} : pc[u] \notin Running
                 /\ Len(work.rounds) <= MaxIterations
                 /\ Remembering(t) => work.result \in Draft
                 /\ Remembering(t)' <=> Remembering(t)
      <4>1. /\ Of(t) # Nothing /\ ask[t].session \in Sessions
            /\ \A u \in Turns \ {t} : pc[u] \notin Running
            /\ Len(work.rounds) <= MaxIterations
            /\ Remembering(t) => work.result \in Draft
        BY <3>1, <3>2 DEF ServiceInv, TypeOK, Request
      <4>2. Remembering(t)' <=> Remembering(t)
        BY <1>1 DEF Remembering
      <4>3. Of(t)' = Of(t)
        BY <1>1, <1>4, <1>7, <3>1, <3>2, <4>1 DEF Of
      <4> QED
        BY <4>1, <4>2, <4>3
    <3>3. \A t \in Turns : pc[t] # "unsent" => ask[t] \in Request /\ ask[t].session \in issued
      BY DEF ServiceInv, TypeOK
    <3> QED
      BY <1>1, <3>2, <3>3
  <2>6. ~Busy' => work' = Idle
    BY <1>1 DEF ServiceInv, TypeOK, Busy
  <2> QED
    BY <1>4, <2>1, <2>2, <2>3, <2>4, <2>5, <2>6 DEF TypeOK, At, Calls
<1>9. WorkOK'
  BY <1>1, <1>4, <1>7 DEF ServiceInv, WorkOK
<1>10. TierOK'
  <2>1. \A u \in regulated : u \in Alive /\ "regulatory" \in session[u].metadata.techs
    BY DEF ServiceInv, TypeOK, TierOK
  <2>2. \A u \in regulated' : "regulatory" \in session'[u].metadata.techs
    BY <1>1, <1>5, <2>1
  <2>3. RegulationRemembered'
    BY <1>1 DEF ServiceInv, TierOK, RegulationRemembered
  <2> QED
    BY <2>2, <2>3 DEF TierOK
<1>11. \A t \in Turns : (Kept(t)' <=> Kept(t)) /\ ResultOf(t)' = ResultOf(t)
  BY <1>1 DEF Kept, ResultOf, Remembering
<1>12. ASSUME NEW u \in Alive PROVE MemoryAt(u)' /\ AnswersAt(u)'
  <2>1. MemoryAt(u)
    BY DEF ServiceInv, MemoryOK
  <2>2. Dropped(u)' = Dropped(u) /\ Waiting(u)' = Waiting(u)
    BY <1>1 DEF Dropped, Waiting
  <2>3. MemoryAt(u)'
    BY <1>1, <1>5, <2>1, <2>2, MemoryStays
  <2>4. \A t \in Elems(log[u]) : t \in Turns
    BY LogKept DEF ServiceInv
  <2>5. AnswersAt(u)'
    BY <1>1, <1>5, <1>11, <2>4, AnswersStay DEF ServiceInv
  <2> QED
    BY <2>3, <2>5
<1>13. MemoryAt(s)' /\ AnswersAt(s)'
  <2>1. TurnsIn(<<>>) = <<>> /\ Elems(<<>>) = {}
    BY DEF TurnsIn, Elems
  <2>2. Window(s)' = <<>> /\ Anchors(s)' = <<>> /\ session'[s].summary = {} /\ log'[s] = <<>>
    BY <1>1, <1>3, <1>4, <1>6, <2>1 DEF Window, Anchors
  <2>3. Dropped(s)' = {}
    BY <2>1, <2>2 DEF Dropped
  <2>4. Waiting(s)' = {}
    <3>1. \A u \in work.evicted : u \in Turns /\ pc[u] # "unsent"
      BY EvictedKept DEF ServiceInv, Kept, Remembering
    <3> QED
      BY <1>1, <1>7, <3>1 DEF Waiting
  <2>5. MemoryAt(s)'
    BY <2>2, <2>3, <2>4, MemNew DEF MemoryAt
  <2>6. \A t \in Turns : ~(Kept(t)' /\ ask'[t].session = s)
    BY <1>1, <1>7 DEF Kept, Remembering
  <2>7. Elems(log'[s]) = {t \in Turns : Kept(t)' /\ ask'[t].session = s}
    BY <2>1, <2>2, <2>6
  <2>8. session'[s].window = <<>> /\ session'[s].anchors = <<>>
    BY <1>4, <1>6
  <2>9. \A i \in 1..Len(<<>>) : FALSE
    BY <1>6
  <2> QED
    BY <2>5, <2>7, <2>8, <2>9 DEF AnswersAt
<1>14. MemoryOK' /\ AnswersOK'
  <2>1. \A t \in forgotten' : Kept(t)'
    BY <1>1, <1>11 DEF ServiceInv, AnswersOK, TypeOK
  <2> QED
    BY <1>4, <1>12, <1>13, <2>1 DEF MemoryOK, AnswersOK
<1> QED
  BY <1>8, <1>9, <1>10, <1>14 DEF ServiceInv

LEMMA SendKeepsInv ==
  ASSUME ServiceInv, NEW t \in Turns, NEW s \in Sessions, NEW form \in Forms, Send(t, s, form)
  PROVE  ServiceInv'
<1>1. /\ pc[t] = "unsent" /\ s \in issued /\ pc' = [pc EXCEPT ![t] = "queued"]
      /\ ask' = [ask EXCEPT ![t] = [session |-> s, form |-> form]]
      /\ UNCHANGED <<issued, session, work, answer, log, forgotten, regulated>>
  BY DEF Send, Goto
<1>2. /\ [session |-> s, form |-> form] \in Request
      /\ pc' \in [Turns -> Calls] /\ ask' \in [Turns -> Request \cup {Nothing}]
      /\ pc'[t] = "queued" /\ ask'[t] = [session |-> s, form |-> form] /\ ask'[t].session = s
      /\ \A u \in Turns \ {t} : pc'[u] = pc[u] /\ ask'[u] = ask[u]
  BY <1>1 DEF ServiceInv, TypeOK, Request, Calls
<1>3. Alive' = Alive
  BY <1>1 DEF Alive
<1>4. ~Kept(t) /\ ~Kept(t)' /\ pc[t] \notin Running /\ pc'[t] \notin Running
  BY <1>1, <1>2 DEF Kept, Remembering, Running
<1>5. \A u \in Turns : Kept(u) => u # t
  BY <1>4
<1>6. \A u \in Turns \ {t} : (Kept(u)' <=> Kept(u)) /\ ResultOf(u)' = ResultOf(u)
  BY <1>1, <1>2 DEF Kept, ResultOf, Remembering
<1>7. MemoryOK' /\ AnswersOK'
  BY <1>1, <1>2, <1>3, <1>4, <1>6, HistoryStays DEF ServiceInv
<1>8. WorkOK'
  <2>1. \A u \in work.evicted : u \in Turns /\ ask'[u] = ask[u]
    BY <1>2, <1>5, EvictedKept DEF ServiceInv
  <2> QED
    BY <1>1, <1>2, <1>3, <1>4, <2>1 DEF ServiceInv, WorkOK
<1>9. TierOK'
  BY <1>1, <1>2, <1>4 DEF ServiceInv, TierOK, RegulationRemembered
<1>10. TypeOK'
  <2>1. \A u \in Alive' :
          /\ Len(session'[u].window) <= MaxTurns + 1
          /\ Len(session'[u].window) > MaxTurns =>
               \E v \in Turns : pc'[v] = "compress" /\ ask'[v].session = u
    <3> SUFFICES ASSUME NEW u \in Alive
                 PROVE  /\ Len(session[u].window) <= MaxTurns + 1
                        /\ Len(session[u].window) > MaxTurns =>
                             \E v \in Turns : pc'[v] = "compress" /\ ask'[v].session = u
      BY <1>1, <1>3
    <3>1. /\ Len(session[u].window) <= MaxTurns + 1
          /\ Len(session[u].window) > MaxTurns =>
               \E v \in Turns : pc[v] = "compress" /\ ask[v].session = u
      BY DEF ServiceInv, TypeOK, At
    <3> QED
      BY <1>1, <1>2, <3>1
  <2>2. ASSUME NEW u \in Turns
        PROVE  /\ pc'[u] # "unsent" => ask'[u] \in Request /\ ask'[u].session \in issued'
               /\ pc'[u] \in Running => /\ Of(u)' # Nothing
                                        /\ \A v \in Turns \ {u} : pc'[v] \notin Running
                                        /\ Len(work'.rounds) <= MaxIterations
                                        /\ Remembering(u)' => work'.result \in Draft
    <3>1. CASE u = t
      BY <1>1, <1>2, <1>4, <3>1
    <3>2. CASE u # t
      <4>1. /\ pc[u] # "unsent" => ask[u] \in Request /\ ask[u].session \in issued
            /\ pc[u] \in Running => /\ Of(u) # Nothing
                                    /\ \A v \in Turns \ {u} : pc[v] \notin Running
                                    /\ Len(work.rounds) <= MaxIterations
                                    /\ Remembering(u) => work.result \in Draft
        BY DEF ServiceInv, TypeOK
      <4>2. pc'[u] = pc[u] /\ ask'[u] = ask[u]
        BY <1>2, <3>2
      <4>3. Of(u)' = Of(u) /\ (Remembering(u)' <=> Remembering(u))
        BY <1>1, <4>2 DEF Of, Remembering
      <4>4. pc[u] \in Running => \A v \in Turns \ {u} : pc'[v] \notin Running
        BY <1>2, <1>4, <4>1
      <4> QED
        BY <1>1, <4>1, <4>2, <4>3, <4>4
    <3> QED
      BY <3>1, <3>2
  <2>3. /\ issued' \subseteq Sessions /\ Alive' \subseteq issued'
        /\ session' \in [Sessions -> SessionRecord \cup {Nothing}]
        /\ answer' \in [Turns -> Draft \cup {Nothing}] /\ log' \in [Sessions -> Seq(Turns)]
        /\ forgotten' \subseteq Turns /\ regulated' \subseteq Alive'
        /\ \A u \in Sessions \ Alive' : log'[u] = <<>>
    BY <1>1, <1>3 DEF ServiceInv, TypeOK
  <2>4. ~Busy' => work' = Idle
    BY <1>1, <1>2, <1>4 DEF ServiceInv, TypeOK, Busy
  <2> QED
    BY <1>2, <2>1, <2>2, <2>3, <2>4 DEF TypeOK, At, Calls
<1> QED
  BY <1>7, <1>8, <1>9, <1>10 DEF ServiceInv

LEMMA RestartKeepsInv ==
  ASSUME ServiceInv, Restart
  PROVE  ServiceInv'
<1>1. /\ session' = [s \in Sessions |-> Nothing]
      /\ pc' = [t \in Turns |-> IF pc[t] \in Running \cup {"queued"} THEN "lost" ELSE pc[t]]
      /\ work' = Idle /\ log' = [s \in Sessions |-> <<>>] /\ forgotten' = {} /\ regulated' = {}
      /\ UNCHANGED <<issued, ask, answer>>
  BY DEF Restart
<1>2. Alive' = {}
  BY <1>1 DEF Alive
<1>3. \A t \in Turns : pc'[t] \notin Running /\ (pc'[t] # "unsent" => pc[t] # "unsent")
  BY <1>1 DEF Running
<1>4. pc' \in [Turns -> Calls] /\ <<>> \in Seq(Turns)
  BY <1>1 DEF ServiceInv, TypeOK, Calls, Ended
<1>5. TypeOK'
  <2>1. \A t \in Turns : pc'[t] # "unsent" => ask'[t] \in Request /\ ask'[t].session \in issued'
    BY <1>1, <1>3 DEF ServiceInv, TypeOK
  <2>2. /\ issued' \subseteq Sessions /\ ask' \in [Turns -> Request \cup {Nothing}]
        /\ answer' \in [Turns -> Draft \cup {Nothing}]
    BY <1>1 DEF ServiceInv, TypeOK
  <2> QED
    BY <1>1, <1>2, <1>3, <1>4, <2>1, <2>2 DEF TypeOK, Calls
<1>6. WorkOK'
  BY <1>1, <1>2, <1>3, IdleOK DEF ServiceInv, WorkOK
<1>7. MemoryOK' /\ AnswersOK' /\ TierOK'
  BY <1>1, <1>2, <1>3 DEF MemoryOK, AnswersOK, TierOK, RegulationRemembered
<1> QED
  BY <1>5, <1>6, <1>7 DEF ServiceInv

LEMMA StutterKeepsInv ==
  ASSUME ServiceInv, UNCHANGED vars
  PROVE  ServiceInv'
<1> USE DEF vars
<1>1. Alive' = Alive /\ (Busy' <=> Busy)
  BY DEF Alive, Busy
<1>2. TypeOK'
  BY <1>1 DEF ServiceInv, TypeOK, At, Of, Remembering
<1>3. WorkOK' /\ TierOK'
  BY <1>1 DEF ServiceInv, WorkOK, TierOK, RegulationRemembered
<1>4. MemoryOK' /\ AnswersOK'
  <2>1. \A u \in Turns : (Kept(u)' <=> Kept(u)) /\ ResultOf(u)' = ResultOf(u)
    BY DEF Kept, ResultOf, Remembering
  <2> QED
    BY <1>1, <2>1, HistoryStays DEF ServiceInv
<1> QED
  BY <1>2, <1>3, <1>4 DEF ServiceInv

-----------------------------------------------------------------------------
(* The service.                                                            *)

LEMMA StepKeepsInv ==
  ASSUME ServiceInv, NEW t \in Turns, Step(t)
  PROVE  ServiceInv' /\ Alive' = Alive
  BY EndsKeepInv, BeginKeepsInv, GenerateKeepsInv, ActorKeepsInv, ReviewKeepsInv, EvictKeepsInv,
     EvictedKeepsInv, SummarizeKeepsInv, ReplyKeepsInv DEF Step

LEMMA NextKeepsInv ==
  ASSUME ServiceInv, [Next]_vars
  PROVE  ServiceInv'
  BY StepKeepsInv, CreateKeepsInv, SendKeepsInv, RestartKeepsInv, StutterKeepsInv DEF Next

LEMMA ServiceInvariant == Spec => []ServiceInv
  BY InitInv, NextKeepsInv, PTL DEF Spec

\* Every step of the chats is a step of the service, or leaves it alone.
LEMMA ChatStepIsServiceStep ==
  ASSUME [NextChats]_<<vars, chatVars>>
  PROVE  [Next]_vars
<1>1. ASSUME NEW s \in Sessions, New(s) \/ Destroy(s) PROVE [Next]_vars
  BY <1>1 DEF New, Destroy, Next
<1>2. ASSUME NEW t \in Turns, NEW s \in Sessions, NEW form \in Forms, Submit(t, s, form)
      PROVE  [Next]_vars
  BY <1>2 DEF Submit, Next
<1>3. ASSUME NEW t \in Turns, ChatStep(t) PROVE [Next]_vars
  BY <1>3 DEF ChatStep, Record, Refused, Expired, TimesOut, Fetch, FetchFails, Update
<1>4. CASE ServiceStep
  BY <1>4 DEF ServiceStep, Next
<1>5. CASE UNCHANGED <<vars, chatVars>>
  BY <1>5
<1> QED
  BY <1>1, <1>2, <1>3, <1>4, <1>5 DEF NextChats

\* Behind the chats of Rails runs the service as it is specified alone:
\* what is proved of Spec holds of every behaviour of the composition.
THEOREM ChatsDriveService == SpecChats => Spec
<1>1. InitChats => Init
  BY DEF InitChats
<1> QED
  BY <1>1, ChatStepIsServiceStep, PTL DEF SpecChats, Spec

\* One turn at most is on the event loop, the locals are idle without one, and
\* a window is over its cap only while its own turn compresses it.
THEOREM ConversationTypeCorrect == Spec => []TypeOK
  BY ServiceInvariant, PTL DEF ServiceInv

LEMMA InvAccounts ==
  ASSUME ServiceInv
  PROVE  MemoryAccounted
<1> SUFFICES ASSUME NEW s \in Alive
             PROVE  LET window == TurnsIn(session[s].window)
                        anchors == TurnsIn(session[s].anchors)
                        dropped == forgotten \cap Elems(log[s])
                        waiting == {t \in work.evicted : ask[t].session = s}
                    IN /\ Elems(log[s]) = Elems(window) \cup Elems(anchors) \cup session[s].summary
                                            \cup dropped \cup waiting
                       /\ Len(log[s]) = Len(window) + Len(anchors) + Cardinality(session[s].summary)
                                            + Cardinality(dropped) + Cardinality(waiting)
                       /\ window = SubSeq(log[s], Len(log[s]) - Len(window) + 1, Len(log[s]))
  BY DEF MemoryAccounted
<1>1. Mem(Window(s), Anchors(s), session[s].summary, log[s], Dropped(s), Waiting(s), Committed(s))
  BY DEF ServiceInv, MemoryOK, MemoryAt
<1>2. Window(s) \in Seq(Turns) /\ Anchors(s) \in Seq(Turns) /\ log[s] \in Seq(Turns)
  <2>1. \A q \in Seq(Entry) : \A i \in 1..Len(q) : q[i] \in Entry
    OBVIOUS
  <2>2. \A q \in Seq(Entry) : \A i \in 1..Len(q) : q[i].turn \in Turns
    BY <2>1 DEF Entry
  <2>3. \A q \in Seq(Entry) : TurnsIn(q) \in Seq(Turns)
    BY <2>2 DEF TurnsIn
  <2> QED
    BY <2>3, AliveRecord DEF ServiceInv, Window, Anchors
<1>3. /\ Elems(log[s]) = Elems(Window(s)) \cup Front(Window(s), log[s])
      /\ Window(s) = SubSeq(log[s], Len(log[s]) - Len(Window(s)) + 1, Len(log[s]))
  BY <1>1, <1>2, MemSplits
<1>4. /\ Elems(Anchors(s)) \cup session[s].summary \cup Dropped(s) \cup Waiting(s) =
           Front(Window(s), log[s])
      /\ Len(log[s]) = Len(Window(s)) + Len(Anchors(s)) + Cardinality(session[s].summary)
                         + Cardinality(Dropped(s)) + Cardinality(Waiting(s))
  BY <1>1 DEF Mem
<1>5. Elems(log[s]) = Elems(Window(s)) \cup Elems(Anchors(s)) \cup session[s].summary
                        \cup Dropped(s) \cup Waiting(s)
  BY <1>3, <1>4
<1> QED
  BY <1>3, <1>4, <1>5, Zenon DEF Window, Anchors, Dropped, Waiting

LEMMA InvKeepsCommitments ==
  ASSUME ServiceInv
  PROVE  CommitmentsKept
<1> SUFFICES ASSUME NEW s \in Alive
             PROVE  /\ AnchorMode = "heuristic" =>
                         \A t \in Elems(log[s]) : Commits(t) => t \in Elems(ToMessages(s))
                    /\ \A i, j \in DOMAIN ToMessages(s) : i < j =>
                         \E k, l \in DOMAIN log[s] :
                           k < l /\ log[s][k] = ToMessages(s)[i] /\ log[s][l] = ToMessages(s)[j]
  BY DEF CommitmentsKept
<1>1. Mem(Window(s), Anchors(s), session[s].summary, log[s], Dropped(s), Waiting(s), Committed(s))
  BY DEF ServiceInv, MemoryOK, MemoryAt
<1>2. Window(s) \in Seq(Turns) /\ Anchors(s) \in Seq(Turns) /\ log[s] \in Seq(Turns)
  <2>1. \A q \in Seq(Entry) : \A i \in 1..Len(q) : q[i] \in Entry
    OBVIOUS
  <2>2. \A q \in Seq(Entry) : \A i \in 1..Len(q) : q[i].turn \in Turns
    BY <2>1 DEF Entry
  <2>3. \A q \in Seq(Entry) : TurnsIn(q) \in Seq(Turns)
    BY <2>2 DEF TurnsIn
  <2> QED
    BY <2>3, AliveRecord DEF ServiceInv, Window, Anchors
<1>3. ToMessages(s) = Anchors(s) \o Window(s)
  BY DEF ToMessages, Anchors, Window
<1>4. Elems(log[s]) = Elems(Window(s)) \cup Front(Window(s), log[s])
  BY <1>1, <1>2, MemSplits
<1>5. Elems(Anchors(s)) \cup Elems(Window(s)) \subseteq Elems(ToMessages(s))
  <2>1. \A A, W \in Seq(Turns) : Elems(A) \cup Elems(W) \subseteq Elems(A \o W)
    <3> SUFFICES ASSUME NEW A \in Seq(Turns), NEW W \in Seq(Turns)
                 PROVE  Elems(A) \cup Elems(W) \subseteq Elems(A \o W)
      OBVIOUS
    <3>1. /\ Len(A) \in Nat /\ Len(W) \in Nat
          /\ DOMAIN A = 1..Len(A) /\ DOMAIN W = 1..Len(W)
          /\ DOMAIN (A \o W) = 1..(Len(A) + Len(W))
      OBVIOUS
    <3>2. \A i \in 1..Len(A) : (A \o W)[i] = A[i] /\ i \in 1..(Len(A) + Len(W))
      BY <3>1
    <3>3. \A i \in 1..Len(W) : (A \o W)[Len(A) + i] = W[i] /\ Len(A) + i \in 1..(Len(A) + Len(W))
      BY <3>1
    <3> QED
      BY <3>1, <3>2, <3>3 DEF Elems
  <2> QED
    BY <1>2, <1>3, <2>1
<1>6. ASSUME AnchorMode = "heuristic", NEW t \in Elems(log[s]), Commits(t)
      PROVE  t \in Elems(ToMessages(s))
  <2>1. t \in Committed(s)
    BY <1>6 DEF Committed
  <2>2. Front(Window(s), log[s]) \cap Committed(s) \subseteq Elems(Anchors(s))
    BY <1>1, <1>6 DEF Mem
  <2> QED
    BY <1>4, <1>5, <2>1, <2>2
<1>7. ASSUME NEW i \in DOMAIN ToMessages(s), NEW j \in DOMAIN ToMessages(s), i < j
      PROVE  \E k, l \in DOMAIN log[s] :
               k < l /\ log[s][k] = ToMessages(s)[i] /\ log[s][l] = ToMessages(s)[j]
  <2>1. /\ i \in DOMAIN (Anchors(s) \o Window(s)) /\ j \in DOMAIN (Anchors(s) \o Window(s))
        /\ i < j
    BY <1>3, <1>7
  <2>2. \E k, l \in DOMAIN log[s] :
          /\ k < l
          /\ log[s][k] = (Anchors(s) \o Window(s))[i] /\ log[s][l] = (Anchors(s) \o Window(s))[j]
    BY <1>1, <1>2, <2>1, MemOrdered
  <2> QED
    BY <1>3, <2>2
<1> QED
  BY <1>6, <1>7

LEMMA InvAnswers ==
  ASSUME ServiceInv
  PROVE  HistoryIsAnswers
<1> SUFFICES ASSUME NEW s \in Alive
             PROVE  /\ \A i, j \in DOMAIN log[s] : log[s][i] = log[s][j] => i = j
                    /\ Elems(log[s]) = {t \in Turns : (pc[t] = "answered" \/ Remembering(t))
                                                      /\ ask[t].session = s}
                    /\ \A e \in Elems(session[s].window) \cup Elems(session[s].anchors) :
                         e.result = IF Remembering(e.turn) THEN work.result ELSE answer[e.turn]
  BY DEF HistoryIsAnswers
<1>1. Mem(Window(s), Anchors(s), session[s].summary, log[s], Dropped(s), Waiting(s), Committed(s))
  BY DEF ServiceInv, MemoryOK, MemoryAt
<1>2. AnswersAt(s)
  BY DEF ServiceInv, AnswersOK
<1>3. /\ log[s] \in Seq(Turns)
      /\ session[s].window \in Seq(Entry) /\ session[s].anchors \in Seq(Entry)
  BY AliveRecord DEF ServiceInv
<1>4. /\ DOMAIN log[s] = 1..Len(log[s]) /\ DOMAIN session[s].window = 1..Len(session[s].window)
      /\ DOMAIN session[s].anchors = 1..Len(session[s].anchors)
  BY <1>3
<1>5. \A i, j \in DOMAIN log[s] : log[s][i] = log[s][j] => i = j
  BY <1>1, <1>4 DEF Mem
<1> QED
  BY <1>2, <1>4, <1>5 DEF AnswersAt, Elems, Kept, ResultOf

LEMMA ChatsInvariant == SpecChats => []ServiceInv
  BY ChatsDriveService, ServiceInvariant, PTL

\* Whatever the calls of compression return, and wherever they fail, each turn
\* of a session is in exactly one part of its memory, and the window is the
\* end of the session: nothing is lost but to a failed summary, nothing is
\* quoted twice.
THEOREM MemoryIsAccounted == SpecChats => []MemoryAccounted
  BY ChatsInvariant, InvAccounts, PTL

\* Under the heuristic detector a commitment stays in the prompt for as long
\* as the session lives, and the prompt quotes in the order of the session.
THEOREM CommitmentsAreKept == SpecChats => []CommitmentsKept
  BY ChatsInvariant, InvKeepsCommitments, PTL

\* A session remembers the turns it answered, once each and with the estimate
\* its caller got, and no other.
THEOREM HistoryIsTrue == SpecChats => []HistoryIsAnswers
  BY ChatsInvariant, InvAnswers, PTL

\* What a session was told of regulated technologies decides the tier of every
\* later turn that asks for none.
THEOREM RegulationIsRemembered == SpecChats => []RegulationRemembered
  BY ChatsInvariant, PTL DEF ServiceInv, TierOK

-----------------------------------------------------------------------------
(* The chats.                                                              *)

\* What a step of a turn looks like from Rails.
LEMMA StepEffect ==
  ASSUME ServiceInv, NEW t \in Turns, Step(t)
  PROVE  /\ UNCHANGED <<issued, ask>> /\ Alive' = Alive
         /\ pc[t] \in Running \cup {"queued"} /\ pc'[t] # "unsent"
         /\ \A u \in Turns \ {t} : pc'[u] = pc[u]
         /\ log' = log \/ log' = [log EXCEPT ![ask[t].session] = Append(@, t)]
<1>0. pc \in [Turns -> Calls]
  BY DEF ServiceInv, TypeOK, Calls
<1>1. /\ UNCHANGED <<issued, ask>>
      /\ pc[t] \in Running \cup {"queued"} /\ pc'[t] # "unsent"
      /\ \A u \in Turns \ {t} : pc'[u] = pc[u]
      /\ log' = log \/ log' = [log EXCEPT ![ask[t].session] = Append(@, t)]
  <2>1. CASE NotFound(t) \/ Reject(t) \/ Begin(t) \/ Actor(t) \/ ActorFails(t)
    BY <1>0, <2>1 DEF NotFound, Reject, Begin, Actor, ActorFails, At, Goto, Running
  <2>2. CASE Generate(t) \/ Review(t)
    BY <1>0, <2>2 DEF Generate, Review, AppendTurn, At, Goto, Running
  <2>3. CASE Evict(t) \/ Evicted(t) \/ Summarize(t) \/ SummarizeFails(t)
    BY <1>0, <2>3 DEF Evict, Evicted, Summarize, SummarizeFails, At, Goto, Running
  <2>4. CASE UpdateMetadata(t) \/ UpdateMetadataFails(t)
    BY <1>0, <2>4 DEF UpdateMetadata, UpdateMetadataFails, Reply, At, Goto, Running
  <2> QED
    BY <2>1, <2>2, <2>3, <2>4 DEF Step
<1> QED
  BY <1>1, StepKeepsInv

\* A turn that was not answered is in no log; one that was is in the log of
\* its session.
LEMMA LogIsKept ==
  ASSUME ServiceInv, NEW s \in Alive
  PROVE  \A u : u \in Elems(log[s]) <=> u \in Turns /\ Kept(u) /\ ask[u].session = s
  BY DEF ServiceInv, AnswersOK, AnswersAt

LEMMA ShownIsLogged ==
  ASSUME ServiceInv, WebOK, ShownOK, ChatsTypeOK, NEW s \in Alive, NEW u \in Elems(shown[s])
  PROVE  u \in Turns /\ u \in Elems(log[s])
<1>1. s \in Sessions
  BY DEF Alive
<1>2. u \in Turns
  <2>1. shown[s] \in Seq(Turns)
    BY <1>1 DEF ChatsTypeOK
  <2> QED
    BY <2>1 DEF Elems
<1>3. ChatOf(u) = s /\ web[u] \in {"recorded", "fetched", "shown", "stale"}
  BY <1>1 DEF ShownOK
<1>4. pc[u] = "answered"
  BY <1>2, <1>3 DEF WebOK
<1> QED
  BY <1>2, <1>3, <1>4, LogIsKept DEF Kept, ChatOf

\* A turn appended to a log comes after all that were there.
LEMMA BeforeGrows ==
  ASSUME NEW s, NEW t \in Turns, log[s] \in Seq(Turns), log'[s] = log[s] \/ log'[s] = Append(log[s], t)
  PROVE  /\ \A x, y : Before(s, x, y) => Before(s, x, y)'
         /\ Elems(log'[s]) \subseteq Elems(log[s]) \cup {t}
         /\ Elems(log[s]) \subseteq Elems(log'[s])
         /\ log'[s] = Append(log[s], t) => \A x \in Elems(log[s]) : Before(s, x, t)'
<1>1. CASE log'[s] = log[s] /\ log'[s] # Append(log[s], t)
  BY <1>1 DEF Before
<1>2. CASE log'[s] = Append(log[s], t)
  <2>1. /\ Elems(log'[s]) = Elems(log[s]) \cup {t}
        /\ Len(log'[s]) = Len(log[s]) + 1 /\ Len(log[s]) \in Nat
        /\ \A i \in 1..Len(log[s]) : log'[s][i] = log[s][i]
        /\ log'[s][Len(log[s]) + 1] = t
    BY <1>2, ElemsAppend
  <2>2. PICK n \in Nat : n = Len(log[s]) /\ Len(log'[s]) = n + 1
    BY <2>1
  <2>3. \A i \in 1..n : i \in 1..(n + 1) /\ i < n + 1
    BY <2>2
  <2>4. n + 1 \in 1..(n + 1)
    BY <2>2
  <2>5. \A x, y : Before(s, x, y) => Before(s, x, y)'
    BY <2>1, <2>2, <2>3 DEF Before
  <2>6. ASSUME NEW x \in Elems(log[s]) PROVE Before(s, x, t)'
    <3>1. PICK i \in 1..n : log[s][i] = x
      BY <2>2 DEF Elems
    <3> QED
      BY <2>1, <2>2, <2>3, <2>4, <3>1 DEF Before
  <2> QED
    BY <1>2, <2>1, <2>5, <2>6
<1> QED
  BY <1>1, <1>2

LEMMA ServiceKeepsChats ==
  ASSUME ServiceInv, ChatsInv, NEW t \in Turns, Step(t), UNCHANGED chatVars
  PROVE  ChatsInv'
<1> USE DEF chatVars
<1>1. /\ UNCHANGED <<issued, ask>> /\ Alive' = Alive
      /\ pc[t] \in Running \cup {"queued"} /\ pc'[t] # "unsent"
      /\ \A u \in Turns \ {t} : pc'[u] = pc[u]
      /\ log' = log \/ log' = [log EXCEPT ![ask[t].session] = Append(@, t)]
  BY StepEffect
<1>2. ServiceInv'
  BY StepKeepsInv
<1>3. web[t] \in {"posting", "timed_out"}
  <2>1. pc[t] \notin {"unsent", "answered", "rejected", "failed", "lost", "not_found"}
    BY <1>1 DEF Running
  <2>2. web[t] \in {"unsent"} \cup InFlight \cup Closed
    BY DEF ChatsInv, ChatsTypeOK
  <2> QED
    BY <2>1, <2>2 DEF ChatsInv, WebOK, InFlight, Closed
<1>4. \A s \in Sessions : log[s] \in Seq(Turns) /\ (log'[s] = log[s] \/ log'[s] = Append(log[s], t))
  BY <1>1 DEF ServiceInv, TypeOK
<1>5. ChatsTypeOK'
  BY DEF ChatsInv, ChatsTypeOK
<1>6. WebOK'
  BY <1>1, <1>3 DEF ChatsInv, WebOK
<1>7. BesideOK'
  BY <1>1 DEF ChatsInv, BesideOK, ChatOf
<1>8. Mirrored' = Mirrored /\ Mirrored \subseteq Alive /\ Mirrored \subseteq Sessions
  BY <1>1 DEF Mirrored, Alive
<1>9. ShownOK'
  <2>1. \A s \in Sessions :
          /\ chat'[s] # NoChat => s \in issued'
          /\ \A u \in Elems(shown'[s]) :
               ChatOf(u)' = s /\ web'[u] \in {"recorded", "fetched", "shown", "stale"}
    BY <1>1 DEF ChatsInv, ShownOK, ChatOf
  <2>2. ASSUME NEW s \in Mirrored
        PROVE  /\ \A u \in Elems(log'[s]) \ Elems(shown'[s]) : web'[u] \in {"posting", "timed_out"}
               /\ \A x \in Elems(shown'[s]), u \in Elems(log'[s]) :
                    web'[u] \in InFlight /\ x # u /\ {x, u} \cap beside' = {} => Before(s, x, u)'
               /\ \A i, j \in 1..Len(shown'[s]) :
                    i < j /\ {shown'[s][i], shown'[s][j]} \cap beside' = {} =>
                      Before(s, shown[s][i], shown[s][j])'
    <3>1. /\ \A u \in Elems(log[s]) \ Elems(shown[s]) : web[u] \in {"posting", "timed_out"}
          /\ \A x \in Elems(shown[s]), u \in Elems(log[s]) :
               web[u] \in InFlight /\ x # u /\ {x, u} \cap beside = {} => Before(s, x, u)
          /\ \A i, j \in 1..Len(shown[s]) :
               i < j /\ {shown[s][i], shown[s][j]} \cap beside = {} =>
                 Before(s, shown[s][i], shown[s][j])
      BY DEF ChatsInv, ShownOK
    <3>2. /\ \A x, y : Before(s, x, y) => Before(s, x, y)'
          /\ Elems(log'[s]) \subseteq Elems(log[s]) \cup {t}
          /\ log'[s] = log[s] \/ \A x \in Elems(log[s]) : Before(s, x, t)'
      BY <1>4, <1>8, BeforeGrows
    <3>3. \A x \in Elems(shown[s]) : x \in Elems(log[s])
      BY <1>8, ShownIsLogged DEF ChatsInv
    <3>4. \A u \in Elems(log'[s]) \ Elems(shown'[s]) : web'[u] \in {"posting", "timed_out"}
      BY <1>3, <3>1, <3>2
    <3>5. \A x \in Elems(shown'[s]), u \in Elems(log'[s]) :
             web'[u] \in InFlight /\ x # u /\ {x, u} \cap beside' = {} => Before(s, x, u)'
      BY <3>1, <3>2, <3>3
    <3>6. \A i, j \in 1..Len(shown'[s]) :
             i < j /\ {shown'[s][i], shown'[s][j]} \cap beside' = {} =>
               Before(s, shown[s][i], shown[s][j])'
      <4> SUFFICES ASSUME NEW i \in 1..Len(shown[s]), NEW j \in 1..Len(shown[s]),
                          i < j, {shown[s][i], shown[s][j]} \cap beside = {}
                   PROVE  Before(s, shown[s][i], shown[s][j])'
        OBVIOUS
      <4>1. Before(s, shown[s][i], shown[s][j])
        BY <3>1
      <4>2. PICK x, y : x = shown[s][i] /\ y = shown[s][j]
        OBVIOUS
      <4>3. Before(s, x, y)'
        BY <3>2, <4>1, <4>2
      <4>4. shown'[s][i] = x /\ shown'[s][j] = y
        BY <4>2
      <4> QED
        BY <4>3, <4>4 DEF Before
    <3> QED
      BY <3>4, <3>5, <3>6
  <2> QED
    BY <1>8, <2>1, <2>2 DEF ShownOK
<1>10. FreshOK'
  <2>1. \A u \in Turns : Excused(u)' <=> Excused(u)
    BY DEF Excused
  <2>2. Excused(t)
    BY <1>3 DEF Excused, InFlight
  <2>3. \A s \in Mirrored : \A u \in Elems(log'[s]) :
          u \in Turns /\ (u # t => u \in Elems(log[s]) /\ pc'[u] = pc[u])
    <3>1. \A s \in Mirrored : \A u \in Elems(log[s]) : u \in Turns
      BY <1>8, LogIsKept
    <3>2. \A s \in Mirrored : Elems(log'[s]) \subseteq Elems(log[s]) \cup {t}
      BY <1>4, <1>8, BeforeGrows
    <3> QED
      BY <1>1, <3>1, <3>2
  <2>4. PanelFresh'
    <3> SUFFICES ASSUME NEW s \in Mirrored, NEW u \in Elems(log'[s]),
                        pc'[u] = "answered", u \notin chat'[s].covers
                 PROVE  web'[u] \in InFlight \cup {"timed_out", "stale"} \/ u \in beside'
      BY <1>8 DEF PanelFresh
    <3>1. CASE u = t
      BY <2>2, <3>1 DEF Excused
    <3>2. CASE u # t
      BY <2>3, <3>2 DEF ChatsInv, FreshOK, PanelFresh
    <3> QED
      BY <3>1, <3>2
  <2>5. ASSUME NEW v \in Turns, web'[v] = "fetched", ChatOf(v)' \in Mirrored'
        PROVE  /\ v \in fetched'[v].covers
               /\ \A u \in Elems(log'[ChatOf(v)]) :
                    pc'[u] = "answered" /\ u \notin fetched'[v].covers /\ u # v => Excused(u)
    <3>1. ChatOf(v) \in Mirrored /\ web[v] = "fetched"
      BY <1>1, <1>8, <2>5 DEF ChatOf
    <3>2. /\ v \in fetched[v].covers
          /\ \A u \in Elems(log[ChatOf(v)]) :
               pc[u] = "answered" /\ u \notin fetched[v].covers /\ u # v => Excused(u)
      BY <3>1 DEF ChatsInv, FreshOK
    <3> QED
      BY <2>2, <2>3, <3>1, <3>2
  <2>6. \A v \in Turns : ChatOf(v)' = ChatOf(v)
    BY <1>1 DEF ChatOf
  <2> QED
    BY <2>1, <2>3, <2>4, <2>5, <2>6, <1>8 DEF FreshOK
<1> QED
  BY <1>5, <1>6, <1>7, <1>9, <1>10 DEF ChatsInv

LEMMA RestartKeepsChats ==
  ASSUME ServiceInv, ChatsInv, Restart, UNCHANGED chatVars
  PROVE  ChatsInv'
<1> USE DEF chatVars
<1>1. /\ session' = [s \in Sessions |-> Nothing]
      /\ pc' = [t \in Turns |-> IF pc[t] \in Running \cup {"queued"} THEN "lost" ELSE pc[t]]
      /\ UNCHANGED <<issued, ask>>
  BY DEF Restart
<1>2. Mirrored' = {}
  BY <1>1 DEF Mirrored, Alive
<1>3. ChatsTypeOK' /\ BesideOK'
  BY <1>1 DEF ChatsInv, ChatsTypeOK, BesideOK, ChatOf
<1>4. WebOK'
  <2>1. \A t \in Turns : /\ pc'[t] = "unsent" <=> pc[t] = "unsent"
                         /\ pc[t] \in {"answered", "rejected", "failed", "lost", "not_found"} =>
                              pc'[t] = pc[t]
    BY <1>1 DEF Running
  <2> QED
    BY <2>1 DEF ChatsInv, WebOK
<1>5. ShownOK' /\ FreshOK'
  BY <1>1, <1>2 DEF ChatsInv, ShownOK, FreshOK, PanelFresh, ChatOf
<1> QED
  BY <1>3, <1>4, <1>5 DEF ChatsInv

LEMMA NewKeepsChats ==
  ASSUME ServiceInv, ChatsInv, NEW s \in Sessions, New(s)
  PROVE  ChatsInv'
<1>1. /\ s \notin issued /\ issued' = issued \cup {s}
      /\ UNCHANGED <<pc, ask, log, shown, web, fetched, beside>>
      /\ chat' = [chat EXCEPT ![s] = NoSnapshot] \/ chat' = chat
      /\ Alive' = Alive \cup {s}
  <2>1. Alive' = Alive \cup {s}
    <3>1. session' = [session EXCEPT ![s] = NewSession] /\ NewSession # Nothing
      BY NewSessionRecord, ConversationConstantsOK DEF New, Create
    <3> QED
      BY <3>1 DEF ServiceInv, TypeOK, Alive
  <2> QED
    BY <2>1 DEF New, Create
<1>2. /\ chat[s] = NoChat /\ shown[s] = <<>> /\ log[s] = <<>> /\ s \notin Mirrored
      /\ \A t \in Turns : pc[t] # "unsent" => ChatOf(t) # s
  BY <1>1 DEF ChatsInv, ChatsTypeOK, ShownOK, ServiceInv, TypeOK, Mirrored, ChatOf
<1>3. NoSnapshot \in SnapshotType
  BY ConversationConstantsOK DEF NoSnapshot, SnapshotType
<1>4. /\ chat' \in [Sessions -> SnapshotType \cup {NoChat}]
      /\ \A u \in Sessions \ {s} : chat'[u] = chat[u]
  BY <1>1, <1>3 DEF ChatsInv, ChatsTypeOK
<1>5. Mirrored' \subseteq Mirrored \cup {s} /\ Mirrored \subseteq Sessions /\ s \notin Mirrored
  BY <1>1, <1>2, <1>4 DEF Mirrored, Alive
<1>6. ChatsTypeOK'
  BY <1>1, <1>2, <1>4 DEF ChatsInv, ChatsTypeOK
<1>7. WebOK' /\ BesideOK'
  BY <1>1 DEF ChatsInv, WebOK, BesideOK, ChatOf
<1>8. Elems(<<>>) = {} /\ Len(<<>>) = 0 /\ \A i \in 1..0 : FALSE
  BY DEF Elems
<1>9. ShownOK'
  <2>1. \A u \in Sessions : /\ chat'[u] # NoChat => u \in issued'
                            /\ \A t \in Elems(shown'[u]) :
                                 ChatOf(t)' = u /\ web'[t] \in {"recorded", "fetched", "shown", "stale"}
    BY <1>1, <1>4 DEF ChatsInv, ShownOK, ChatOf
  <2>2. ASSUME NEW u \in Mirrored'
        PROVE  /\ \A t \in Elems(log[u]) \ Elems(shown[u]) : web[t] \in {"posting", "timed_out"}
               /\ \A t \in Elems(shown[u]), v \in Elems(log[u]) :
                    web[v] \in InFlight /\ t # v /\ {t, v} \cap beside = {} => Before(u, t, v)
               /\ \A i, j \in 1..Len(shown[u]) :
                    i < j /\ {shown[u][i], shown[u][j]} \cap beside = {} =>
                      Before(u, shown[u][i], shown[u][j])
    <3>1. CASE u = s
      BY <1>2, <1>8, <3>1
    <3>2. CASE u # s
      BY <1>5, <3>2 DEF ChatsInv, ShownOK
    <3> QED
      BY <3>1, <3>2
  <2>3. \A u, x, y : Before(u, x, y)' <=> Before(u, x, y)
    BY <1>1 DEF Before
  <2> QED
    BY <1>1, <2>1, <2>2, <2>3 DEF ShownOK, Before
<1>10. FreshOK'
  <2>1. PanelFresh'
    <3> SUFFICES ASSUME NEW u \in Mirrored', NEW t \in Elems(log[u]),
                        pc[t] = "answered", t \notin chat'[u].covers
                 PROVE  web[t] \in InFlight \cup {"timed_out", "stale"} \/ t \in beside
      BY <1>1 DEF PanelFresh
    <3>1. u # s
      BY <1>2, <1>8
    <3> QED
      BY <1>4, <1>5, <3>1 DEF ChatsInv, FreshOK, PanelFresh
  <2>2. \A t \in Turns : web[t] = "fetched" /\ ChatOf(t)' \in Mirrored' => ChatOf(t) \in Mirrored
    <3>1. \A t \in Turns : web[t] = "fetched" => ChatOf(t) # s
      BY <1>2 DEF ChatsInv, WebOK
    <3> QED
      BY <1>1, <1>5, <3>1 DEF ChatOf
  <2> QED
    BY <1>1, <2>1, <2>2 DEF ChatsInv, FreshOK, Excused, ChatOf
<1> QED
  BY <1>6, <1>7, <1>9, <1>10 DEF ChatsInv

LEMMA SubmitKeepsChats ==
  ASSUME ServiceInv, ChatsInv, NEW t \in Turns, NEW s \in Sessions, NEW form \in Forms,
         Submit(t, s, form)
  PROVE  ChatsInv'
<1> DEFINE others == {u \in Turns : web[u] \in InFlight /\ ChatOf(u) = s}
<1>1. /\ pc[t] = "unsent" /\ s \in issued
      /\ web' = [web EXCEPT ![t] = "posting"]
      /\ beside' = IF others = {} THEN beside ELSE beside \cup others \cup {t}
      /\ UNCHANGED <<issued, session, log, chat, shown, fetched>>
      /\ pc' = [pc EXCEPT ![t] = "queued"]
      /\ ask' = [ask EXCEPT ![t] = [session |-> s, form |-> form]]
  BY DEF Submit, Send, Goto
<1>2. /\ pc'[t] = "queued" /\ web'[t] = "posting" /\ ask'[t].session = s
      /\ \A u \in Turns \ {t} : pc'[u] = pc[u] /\ web'[u] = web[u] /\ ask'[u] = ask[u]
  BY <1>1 DEF ServiceInv, TypeOK, ChatsInv, ChatsTypeOK
<1>3. /\ web[t] = "unsent" /\ web[t] \notin InFlight
      /\ \A u \in Alive : t \notin Elems(log[u])
      /\ \A u \in Alive : \A x \in Elems(log[u]) : x \in Turns \ {t}
      /\ \A u \in Sessions : t \notin Elems(shown[u])
  <2>1. web[t] = "unsent"
    BY <1>1 DEF ChatsInv, WebOK
  <2>2. ~Kept(t)
    BY <1>1 DEF Kept, Remembering
  <2>3. \A u \in Alive : \A x \in Elems(log[u]) : x \in Turns /\ Kept(x)
    BY LogIsKept
  <2> QED
    BY <2>1, <2>2, <2>3 DEF ChatsInv, ShownOK, InFlight
<1>4. beside \subseteq beside' /\ others \subseteq Turns
  BY <1>1
<1>5. \A u \in Turns \ {t} : ChatOf(u)' = ChatOf(u)
  BY <1>2 DEF ChatOf
<1>6. Mirrored' = Mirrored /\ Mirrored \subseteq Alive
  BY <1>1 DEF Mirrored, Alive
<1>7. ChatsTypeOK'
  BY <1>1, <1>4 DEF ChatsInv, ChatsTypeOK, InFlight
<1>8. WebOK'
  BY <1>2 DEF ChatsInv, WebOK
<1>9. BesideOK'
  <2> SUFFICES ASSUME NEW u \in Turns, NEW v \in Turns, web'[u] \in InFlight, web'[v] \in InFlight,
                      ChatOf(u)' = ChatOf(v)', u # v
               PROVE  u \in beside'
    BY DEF BesideOK
  <2>1. CASE u = t
    <3>1. v \in others
      BY <1>2, <1>5, <2>1 DEF ChatOf
    <3> QED
      BY <1>1, <2>1, <3>1
  <2>2. CASE v = t
    <3>1. u \in others
      BY <1>2, <1>5, <2>2 DEF ChatOf
    <3> QED
      BY <1>1, <3>1
  <2>3. CASE u # t /\ v # t
    BY <1>2, <1>4, <1>5, <2>3 DEF ChatsInv, BesideOK
  <2> QED
    BY <2>1, <2>2, <2>3
<1>10. ShownOK'
  <2>1. ASSUME NEW u \in Sessions
        PROVE  /\ chat'[u] # NoChat => u \in issued'
               /\ \A x \in Elems(shown'[u]) :
                    ChatOf(x)' = u /\ web'[x] \in {"recorded", "fetched", "shown", "stale"}
    <3>1. \A x \in Elems(shown[u]) : x \in Turns \ {t}
      <4>1. shown[u] \in Seq(Turns)
        BY DEF ChatsInv, ChatsTypeOK
      <4> QED
        BY <1>3, <4>1 DEF Elems
    <3> QED
      BY <1>1, <1>2, <1>5, <3>1 DEF ChatsInv, ShownOK
  <2>2. \A u, x, y : Before(u, x, y)' <=> Before(u, x, y)
    BY <1>1 DEF Before
  <2>3. ASSUME NEW u \in Mirrored
        PROVE  /\ \A x \in Elems(log[u]) \ Elems(shown[u]) : web'[x] \in {"posting", "timed_out"}
               /\ \A x \in Elems(shown[u]), v \in Elems(log[u]) :
                    web'[v] \in InFlight /\ x # v /\ {x, v} \cap beside' = {} => Before(u, x, v)
               /\ \A i, j \in 1..Len(shown[u]) :
                    i < j /\ {shown[u][i], shown[u][j]} \cap beside' = {} =>
                      Before(u, shown[u][i], shown[u][j])
    <3>1. \A x \in Elems(log[u]) : web'[x] = web[x]
      BY <1>2, <1>3, <1>6
    <3> QED
      BY <1>4, <3>1 DEF ChatsInv, ShownOK
  <2> QED
    BY <1>1, <1>6, <2>1, <2>2, <2>3 DEF ShownOK, Before
<1>11. FreshOK'
  <2>1. \A u \in Turns : u # t /\ Excused(u) => Excused(u)'
    BY <1>2, <1>4 DEF Excused
  <2>2. \A u \in Mirrored : \A x \in Elems(log[u]) : x \in Turns /\ x # t /\ pc'[x] = pc[x]
    BY <1>2, <1>3, <1>6
  <2>3. PanelFresh'
    <3> SUFFICES ASSUME NEW u \in Mirrored, NEW x \in Elems(log[u]),
                        pc'[x] = "answered", x \notin chat[u].covers
                 PROVE  web'[x] \in InFlight \cup {"timed_out", "stale"} \/ x \in beside'
      BY <1>1, <1>6 DEF PanelFresh
    <3>1. x \in Turns /\ x # t /\ pc[x] = "answered"
      BY <2>2
    <3>2. Excused(x)
      BY <3>1 DEF ChatsInv, FreshOK, PanelFresh, Excused
    <3> QED
      BY <2>1, <3>1, <3>2 DEF Excused
  <2>4. ASSUME NEW v \in Turns, web'[v] = "fetched", ChatOf(v)' \in Mirrored'
        PROVE  /\ v \in fetched'[v].covers
               /\ \A u \in Elems(log'[ChatOf(v)]) :
                    pc'[u] = "answered" /\ u \notin fetched'[v].covers /\ u # v => Excused(u)'
               /\ ChatOf(v)' = ChatOf(v)
    <3>1. v # t /\ web[v] = "fetched" /\ ChatOf(v)' = ChatOf(v) /\ ChatOf(v) \in Mirrored
      BY <1>2, <1>5, <1>6, <2>4
    <3> QED
      BY <1>1, <2>1, <2>2, <3>1 DEF ChatsInv, FreshOK
  <2> QED
    BY <2>3, <2>4 DEF FreshOK
<1> QED
  BY <1>7, <1>8, <1>9, <1>10, <1>11 DEF ChatsInv

\* A step of Rails that ends requests, or takes them further, but shows no new
\* answer.
Progress ==
  /\ UNCHANGED <<vars, beside>>
  /\ \A s \in Sessions :
       /\ chat'[s] # NoChat => chat[s] # NoChat /\ shown'[s] = shown[s]
       /\ shown'[s] = shown[s] \/ shown'[s] = <<>>
  /\ \A u \in Turns : web'[u] # web[u] => web[u] \in InFlight

\* Request u went from its state before to its state after as its turn allows.
Allowed(u) ==
  /\ web'[u] # "unsent"
  /\ web'[u] \in {"recorded", "fetched", "shown", "stale", "orphaned"} => pc[u] = "answered"
  /\ web'[u] = "invalid" => pc[u] = "rejected"
  /\ web'[u] = "unavailable" => pc[u] \in {"failed", "lost"}
  /\ web'[u] = "expired" => pc[u] = "not_found"
  /\ u \in Elems(shown'[ChatOf(u)]) => web'[u] \in {"fetched", "shown", "stale"}
  /\ ChatOf(u) \in Mirrored' /\ u \in Elems(log[ChatOf(u)]) \ Elems(shown'[ChatOf(u)]) =>
       web'[u] = "timed_out"

LEMMA ProgressKeeps ==
  ASSUME ServiceInv, ChatsInv, Progress, \A u \in Turns : web'[u] # web[u] => Allowed(u)
  PROVE  WebOK' /\ BesideOK' /\ ShownOK' /\ Mirrored' \subseteq Mirrored
<1>1. UNCHANGED <<issued, session, pc, ask, log, beside>>
  BY DEF Progress, vars
<1>2. /\ Mirrored' \subseteq Mirrored /\ Mirrored \subseteq Alive /\ Mirrored \subseteq Sessions
      /\ \A s \in Mirrored' : shown'[s] = shown[s]
  BY <1>1 DEF Progress, Mirrored, Alive
<1>3. \A u \in Turns : web'[u] \in InFlight => web[u] \in InFlight
  BY DEF Progress
<1>4. WebOK'
  <2>1. \A u \in Turns : web'[u] # web[u] => web[u] # "unsent"
    BY DEF Progress, InFlight
  <2> QED
    BY <1>1, <2>1 DEF ChatsInv, WebOK, Allowed
<1>5. BesideOK'
  BY <1>1, <1>3 DEF ChatsInv, BesideOK, ChatOf
<1>6. ASSUME NEW s \in Sessions
      PROVE  /\ chat'[s] # NoChat => s \in issued'
             /\ \A u \in Elems(shown'[s]) :
                  ChatOf(u) = s /\ web'[u] \in {"recorded", "fetched", "shown", "stale"}
  <2>1. chat'[s] # NoChat => s \in issued'
    BY <1>1 DEF Progress, ChatsInv, ShownOK
  <2>2. ASSUME NEW u \in Elems(shown'[s])
        PROVE  ChatOf(u) = s /\ web'[u] \in {"recorded", "fetched", "shown", "stale"}
    <3>1. u \in Elems(shown[s]) /\ u \in Turns
      <4>1. shown[s] \in Seq(Turns) /\ Elems(<<>>) = {}
        BY DEF ChatsInv, ChatsTypeOK, Elems
      <4>2. u \in Elems(shown[s])
        BY <4>1 DEF Progress
      <4> QED
        BY <4>1, <4>2 DEF Elems
    <3>2. ChatOf(u) = s /\ web[u] \in {"recorded", "fetched", "shown", "stale"}
      BY <3>1 DEF ChatsInv, ShownOK
    <3>3. web'[u] # web[u] => web'[u] \in {"fetched", "shown", "stale"}
      BY <3>1, <3>2 DEF Allowed
    <3> QED
      BY <3>2, <3>3
  <2> QED
    BY <2>1, <2>2
<1>7. ASSUME NEW s \in Mirrored'
      PROVE  /\ \A u \in Elems(log[s]) \ Elems(shown[s]) : web'[u] \in {"posting", "timed_out"}
             /\ \A x \in Elems(shown[s]), u \in Elems(log[s]) :
                  web'[u] \in InFlight /\ x # u /\ {x, u} \cap beside = {} => Before(s, x, u)
             /\ \A i, j \in 1..Len(shown[s]) :
                  i < j /\ {shown[s][i], shown[s][j]} \cap beside = {} =>
                    Before(s, shown[s][i], shown[s][j])
  <2>1. s \in Mirrored /\ s \in Alive /\ shown'[s] = shown[s]
    BY <1>2
  <2>2. \A u \in Elems(log[s]) : u \in Turns /\ ChatOf(u) = s
    BY <2>1, LogIsKept DEF ChatOf
  <2>3. \A u \in Elems(log[s]) \ Elems(shown[s]) : web'[u] \in {"posting", "timed_out"}
    <3> SUFFICES ASSUME NEW u \in Elems(log[s]) \ Elems(shown[s]) PROVE web'[u] \in {"posting", "timed_out"}
      OBVIOUS
    <3>1. CASE web'[u] = web[u]
      BY <2>1, <3>1 DEF ChatsInv, ShownOK
    <3>2. CASE web'[u] # web[u]
      BY <2>1, <2>2, <3>2 DEF Allowed
    <3> QED
      BY <3>1, <3>2
  <2>4. \A x \in Elems(shown[s]), u \in Elems(log[s]) :
          web[u] \in InFlight /\ x # u /\ {x, u} \cap beside = {} => Before(s, x, u)
    BY <2>1 DEF ChatsInv, ShownOK
  <2>5. \A i, j \in 1..Len(shown[s]) :
          i < j /\ {shown[s][i], shown[s][j]} \cap beside = {} =>
            Before(s, shown[s][i], shown[s][j])
    BY <2>1 DEF ChatsInv, ShownOK
  <2> QED
    BY <1>3, <2>2, <2>3, <2>4, <2>5
<1>8. ShownOK'
  <2>1. \A s, x, y : Before(s, x, y)' <=> Before(s, x, y)
    BY <1>1 DEF Before
  <2>2. \A u : ChatOf(u)' = ChatOf(u)
    BY <1>1 DEF ChatOf
  <2>3. \A s \in Sessions :
          /\ chat'[s] # NoChat => s \in issued'
          /\ \A u \in Elems(shown'[s]) :
               ChatOf(u)' = s /\ web'[u] \in {"recorded", "fetched", "shown", "stale"}
    BY <1>6, <2>2
  <2>4. \A s \in Mirrored' :
          /\ \A u \in Elems(log'[s]) \ Elems(shown'[s]) : web'[u] \in {"posting", "timed_out"}
          /\ \A x \in Elems(shown'[s]), u \in Elems(log'[s]) :
               web'[u] \in InFlight /\ x # u /\ {x, u} \cap beside' = {} => Before(s, x, u)'
          /\ \A i, j \in 1..Len(shown'[s]) :
               i < j /\ {shown'[s][i], shown'[s][j]} \cap beside' = {} =>
                 Before(s, shown[s][i], shown[s][j])'
    <3> SUFFICES ASSUME NEW s \in Mirrored'
                 PROVE
          /\ \A u \in Elems(log'[s]) \ Elems(shown'[s]) : web'[u] \in {"posting", "timed_out"}
          /\ \A x \in Elems(shown'[s]), u \in Elems(log'[s]) :
               web'[u] \in InFlight /\ x # u /\ {x, u} \cap beside' = {} => Before(s, x, u)'
          /\ \A i, j \in 1..Len(shown'[s]) :
               i < j /\ {shown'[s][i], shown'[s][j]} \cap beside' = {} =>
                 Before(s, shown[s][i], shown[s][j])'
      OBVIOUS
    <3>1. shown'[s] = shown[s] /\ log'[s] = log[s] /\ beside' = beside
      BY <1>1, <1>2
    <3>2. \A i, j : Before(s, shown[s][i], shown[s][j])' <=> Before(s, shown[s][i], shown[s][j])
      BY <1>1, <3>1 DEF Before
    <3> QED
      BY <1>7, <2>1, <3>1, <3>2
  <2> QED
    BY <2>3, <2>4 DEF ShownOK
<1> QED
  BY <1>2, <1>4, <1>5, <1>8

\* Rows and snapshots stay what they were, but for rows that are dropped and
\* requests that end; an answered turn ends excused.
LEMMA PanelKept ==
  ASSUME ServiceInv, ChatsInv, Progress, Mirrored' \subseteq Mirrored,
         \A s \in Mirrored' : chat'[s] = chat[s],
         \A u \in Turns : web'[u] = "fetched" => web[u] = "fetched" /\ fetched'[u] = fetched[u],
         \A u \in Turns : web'[u] # web[u] /\ ChatOf(u) \in Mirrored' /\ pc[u] = "answered" =>
           web'[u] \in {"timed_out", "stale"}
  PROVE  FreshOK'
<1>1. UNCHANGED <<issued, session, pc, ask, log, beside>>
  BY DEF Progress, vars
<1>2. ASSUME NEW s \in Mirrored', NEW u \in Elems(log[s]), pc[u] = "answered", Excused(u)
      PROVE  Excused(u)' /\ u \in Turns
  <2>1. u \in Turns /\ ChatOf(u) = s
    BY LogIsKept DEF ChatOf, Mirrored
  <2> QED
    BY <1>1, <1>2, <2>1 DEF Excused
<1>3. PanelFresh'
  <2> SUFFICES ASSUME NEW s \in Mirrored', NEW u \in Elems(log[s]),
                      pc[u] = "answered", u \notin chat'[s].covers
               PROVE  Excused(u)'
    BY <1>1 DEF PanelFresh, Excused
  <2>1. Excused(u)
    BY DEF ChatsInv, FreshOK, PanelFresh, Excused
  <2> QED
    BY <1>2, <2>1
<1>4. ASSUME NEW v \in Turns, web'[v] = "fetched", ChatOf(v) \in Mirrored'
      PROVE  /\ v \in fetched'[v].covers
             /\ \A u \in Elems(log[ChatOf(v)]) :
                  pc[u] = "answered" /\ u \notin fetched'[v].covers /\ u # v => Excused(u)'
  <2>1. /\ v \in fetched[v].covers /\ fetched'[v] = fetched[v]
        /\ \A u \in Elems(log[ChatOf(v)]) :
             pc[u] = "answered" /\ u \notin fetched[v].covers /\ u # v => Excused(u)
    BY <1>4 DEF ChatsInv, FreshOK
  <2> QED
    BY <1>2, <1>4, <2>1
<1>5. \A v \in Turns : ChatOf(v)' = ChatOf(v)
  BY <1>1 DEF ChatOf
<1> QED
  BY <1>1, <1>3, <1>4, <1>5 DEF FreshOK

\* What CloseAs and Drop do to the rows.
LEMMA CloseEffect ==
  ASSUME ChatsInv, NEW t \in Turns, NEW e, web' = [web EXCEPT ![t] = e]
  PROVE  web'[t] = e /\ \A u \in Turns \ {t} : web'[u] = web[u]
  BY DEF ChatsInv, ChatsTypeOK

LEMMA DropEffect ==
  ASSUME ChatsInv, NEW s \in Sessions, Drop(s)
  PROVE  /\ \A u \in Sessions : /\ chat'[u] # NoChat => chat[u] # NoChat /\ shown'[u] = shown[u]
                                /\ shown'[u] = shown[u] \/ shown'[u] = <<>>
                                /\ u # s => chat'[u] = chat[u]
         /\ chat'[s] = NoChat
         /\ chat' \in [Sessions -> SnapshotType \cup {NoChat}]
         /\ shown' \in [Sessions -> Seq(Turns)]
         /\ \A u \in Sessions : shown'[u] # <<>> => chat'[u] # NoChat
<1>1. /\ chat' = [chat EXCEPT ![s] = NoChat]
      /\ chat \in [Sessions -> SnapshotType \cup {NoChat}]
      /\ shown' = [shown EXCEPT ![s] = <<>>]
      /\ shown \in [Sessions -> Seq(Turns)]
      /\ \A u \in Sessions : shown[u] # <<>> => chat[u] # NoChat
  BY DEF Drop, ChatsInv, ChatsTypeOK
<1>2. \A u \in Sessions : IF u = s THEN chat'[u] = NoChat ELSE chat'[u] = chat[u]
  BY <1>1
<1>3. \A u \in Sessions : shown'[u] = IF u = s THEN <<>> ELSE shown[u]
  BY <1>1
<1> QED
  BY <1>1, <1>2, <1>3

LEMMA RefusedKeepsChats ==
  ASSUME ServiceInv, ChatsInv, NEW t \in Turns, Refused(t) \/ TimesOut(t) \/ FetchFails(t)
  PROVE  ChatsInv'
<1>1. PICK e \in {"invalid", "unavailable", "timed_out", "stale"} :
        /\ web' = [web EXCEPT ![t] = e]
        /\ UNCHANGED <<vars, chat, shown, fetched, beside>>
        /\ \/ e = "invalid" /\ pc[t] = "rejected" /\ web[t] = "posting"
           \/ e = "unavailable" /\ pc[t] \in {"failed", "lost"} /\ web[t] = "posting"
           \/ e = "timed_out" /\ web[t] = "posting"
           \/ e = "stale" /\ web[t] = "recorded"
  BY DEF Refused, TimesOut, FetchFails, CloseAs
<1>2. /\ UNCHANGED <<issued, session, pc, ask, log>>
      /\ web'[t] = e /\ \A u \in Turns \ {t} : web'[u] = web[u]
  BY <1>1, CloseEffect DEF vars
<1>3. Mirrored' = Mirrored
  BY <1>1, <1>2 DEF Mirrored, Alive
<1>4. Progress
  BY <1>1, <1>2 DEF Progress, InFlight
<1>5. Allowed(t)
  <2>1. t \in Elems(shown[ChatOf(t)]) => web[t] # "posting"
    <3>1. t \in Elems(shown[ChatOf(t)]) => ChatOf(t) \in Sessions
      <4>1. pc[t] # "unsent"
        BY <1>1 DEF ChatsInv, WebOK
      <4> QED
        BY <4>1 DEF ServiceInv, TypeOK, ChatOf
    <3> QED
      BY <3>1 DEF ChatsInv, ShownOK
  <2>2. web[t] = "recorded" => pc[t] = "answered"
    BY DEF ChatsInv, WebOK
  <2>3. ChatOf(t) \in Mirrored /\ t \in Elems(log[ChatOf(t)]) \ Elems(shown[ChatOf(t)]) =>
          web[t] \in {"posting", "timed_out"} /\ pc[t] \notin {"rejected", "failed", "lost"}
    <3>1. ChatOf(t) \in Mirrored /\ t \in Elems(log[ChatOf(t)]) => Kept(t)
      BY LogIsKept DEF Mirrored
    <3> QED
      BY <3>1 DEF ChatsInv, ShownOK, Kept, Remembering
  <2> QED
    BY <1>1, <1>2, <1>3, <2>1, <2>2, <2>3 DEF Allowed
<1>6. WebOK' /\ BesideOK' /\ ShownOK'
  BY <1>2, <1>4, <1>5, ProgressKeeps
<1>7. FreshOK'
  BY <1>1, <1>2, <1>3, <1>4, PanelKept
<1>8. ChatsTypeOK'
  BY <1>1 DEF ChatsInv, ChatsTypeOK, Closed
<1> QED
  BY <1>6, <1>7, <1>8 DEF ChatsInv

LEMMA ExpiredKeepsChats ==
  ASSUME ServiceInv, ChatsInv, NEW t \in Turns, Expired(t)
  PROVE  ChatsInv'
<1>1. /\ web' = [web EXCEPT ![t] = "expired"]
      /\ UNCHANGED <<vars, fetched, beside>>
      /\ pc[t] = "not_found" /\ web[t] = "posting"
      /\ Drop(ChatOf(t))
  BY DEF Expired, CloseAs
<1>2. /\ UNCHANGED <<issued, session, pc, ask, log>>
      /\ web'[t] = "expired" /\ \A u \in Turns \ {t} : web'[u] = web[u]
  BY <1>1, CloseEffect DEF vars
<1>3. ChatOf(t) \in Sessions
  BY <1>1 DEF ServiceInv, TypeOK, ChatOf, Request
<1>4. /\ \A u \in Sessions : /\ chat'[u] # NoChat => chat[u] # NoChat /\ shown'[u] = shown[u]
                             /\ shown'[u] = shown[u] \/ shown'[u] = <<>>
                             /\ u # ChatOf(t) => chat'[u] = chat[u]
      /\ chat'[ChatOf(t)] = NoChat
      /\ chat' \in [Sessions -> SnapshotType \cup {NoChat}]
      /\ shown' \in [Sessions -> Seq(Turns)]
      /\ \A u \in Sessions : shown'[u] # <<>> => chat'[u] # NoChat
  BY <1>1, <1>3, DropEffect
<1>5. Progress
  BY <1>1, <1>2, <1>4 DEF Progress, InFlight
<1>6. Mirrored' \subseteq Mirrored \ {ChatOf(t)}
  BY <1>2, <1>4 DEF Mirrored, Alive
<1>7. Allowed(t)
  <2>1. t \notin Elems(shown'[ChatOf(t)])
    <3>1. shown'[ChatOf(t)] = <<>>
      BY <1>3, <1>4
    <3> QED
      BY <3>1 DEF Elems
  <2> QED
    BY <1>1, <1>2, <1>6, <2>1 DEF Allowed
<1>8. WebOK' /\ BesideOK' /\ ShownOK'
  BY <1>2, <1>5, <1>7, ProgressKeeps
<1>9. \A s \in Mirrored' : chat'[s] = chat[s]
  BY <1>4, <1>6 DEF Mirrored, Alive
<1>10. FreshOK'
  BY <1>1, <1>2, <1>5, <1>6, <1>9, PanelKept
<1>11. ChatsTypeOK'
  BY <1>1, <1>4 DEF ChatsInv, ChatsTypeOK, Closed
<1> QED
  BY <1>8, <1>10, <1>11 DEF ChatsInv

LEMMA DestroyKeepsChats ==
  ASSUME ServiceInv, ChatsInv, NEW s \in Sessions, Destroy(s)
  PROVE  ChatsInv'
<1>1. UNCHANGED <<issued, session, pc, ask, log, web, fetched, beside>> /\ Drop(s)
  BY DEF Destroy, vars
<1>2. /\ \A u \in Sessions : /\ chat'[u] # NoChat => chat[u] # NoChat /\ shown'[u] = shown[u]
                             /\ shown'[u] = shown[u] \/ shown'[u] = <<>>
                             /\ u # s => chat'[u] = chat[u]
      /\ chat'[s] = NoChat
      /\ chat' \in [Sessions -> SnapshotType \cup {NoChat}]
      /\ shown' \in [Sessions -> Seq(Turns)]
      /\ \A u \in Sessions : shown'[u] # <<>> => chat'[u] # NoChat
  BY <1>1, DropEffect
<1>3. Progress
  BY <1>1, <1>2 DEF Progress, Destroy
<1>4. WebOK' /\ BesideOK' /\ ShownOK' /\ Mirrored' \subseteq Mirrored
  BY <1>1, <1>3, ProgressKeeps
<1>5. \A u \in Mirrored' : chat'[u] = chat[u]
  BY <1>2 DEF Mirrored, Alive
<1>6. FreshOK'
  BY <1>1, <1>3, <1>4, <1>5, PanelKept
<1>7. ChatsTypeOK'
  BY <1>1, <1>2 DEF ChatsInv, ChatsTypeOK
<1> QED
  BY <1>4, <1>6, <1>7 DEF ChatsInv

LEMMA FetchKeepsChats ==
  ASSUME ServiceInv, ChatsInv, NEW t \in Turns, Fetch(t)
  PROVE  ChatsInv'
<1> DEFINE s == ChatOf(t)
<1>1. /\ web' = [web EXCEPT ![t] = "fetched"]
      /\ fetched' = [fetched EXCEPT ![t] = Snapshot(s)]
      /\ UNCHANGED <<vars, chat, shown, beside>>
      /\ web[t] = "recorded" /\ session[s] # Nothing
  BY DEF Fetch
<1>2. /\ UNCHANGED <<issued, session, pc, ask, log>>
      /\ web'[t] = "fetched" /\ \A u \in Turns \ {t} : web'[u] = web[u]
  BY <1>1, CloseEffect DEF vars
<1>3. pc[t] = "answered"
  BY <1>1 DEF ChatsInv, WebOK
<1>4. s \in Sessions /\ s \in Alive
  BY <1>1, <1>3 DEF ServiceInv, TypeOK, Request, ChatOf, Alive
<1>5. Mirrored' = Mirrored /\ Mirrored \subseteq Alive
  BY <1>1, <1>2 DEF Mirrored, Alive
<1>6. WebOK' /\ BesideOK' /\ ShownOK'
  <2>1. Progress
    BY <1>1, <1>2 DEF Progress, InFlight
  <2>2. Allowed(t)
    <3>1. ~(s \in Mirrored /\ t \in Elems(log[s]) \ Elems(shown[s]))
      BY <1>1 DEF ChatsInv, ShownOK
    <3> QED
      BY <1>1, <1>2, <1>3, <1>5, <3>1 DEF Allowed
  <2> QED
    BY <1>2, <2>1, <2>2, ProgressKeeps
<1>7. Snapshot(s) \in SnapshotType /\ Snapshot(s).covers = {u \in Elems(log[s]) : pc[u] = "answered"}
  <2>1. session[s].window \in Seq(Entry) /\ Len(session[s].window) <= MaxTurns + 1
    BY <1>4 DEF ServiceInv, TypeOK, Alive, SessionRecord
  <2>2. Len(session[s].window) \in 0..MaxTurns + 1
    BY <2>1, ConversationConstantsOK
  <2>3. {u \in Elems(log[s]) : pc[u] = "answered"} \subseteq Turns
    BY <1>4, LogIsKept
  <2> QED
    BY <2>2, <2>3 DEF Snapshot, SnapshotType
<1>8. ChatsTypeOK' /\ fetched'[t] = Snapshot(s) /\ \A u \in Turns \ {t} : fetched'[u] = fetched[u]
  BY <1>1, <1>7 DEF ChatsInv, ChatsTypeOK, InFlight
<1>9. \A u \in Turns : Excused(u) => Excused(u)'
  BY <1>1, <1>2 DEF Excused, InFlight
<1>10. \A r \in Mirrored : Elems(log[r]) \subseteq Turns
  BY <1>5, LogIsKept
<1>11. PanelFresh'
  <2> SUFFICES ASSUME NEW r \in Mirrored, NEW u \in Elems(log[r]),
                      pc[u] = "answered", u \notin chat[r].covers
               PROVE  Excused(u)'
    BY <1>1, <1>2, <1>5 DEF PanelFresh, Excused
  <2>1. Excused(u)
    BY DEF ChatsInv, FreshOK, PanelFresh, Excused
  <2> QED
    BY <1>9, <1>10, <2>1
<1>12. ASSUME NEW v \in Turns, web'[v] = "fetched", ChatOf(v) \in Mirrored
       PROVE  /\ v \in fetched'[v].covers
              /\ \A u \in Elems(log[ChatOf(v)]) :
                   pc[u] = "answered" /\ u \notin fetched'[v].covers /\ u # v => Excused(u)'
  <2>1. CASE v = t
    <3>1. t \in Elems(log[s])
      BY <1>3, <1>4, LogIsKept DEF ChatOf, Kept
    <3> QED
      BY <1>3, <1>7, <1>8, <2>1, <3>1
  <2>2. CASE v # t
    <3>1. web[v] = "fetched" /\ fetched'[v] = fetched[v]
      BY <1>2, <1>8, <1>12, <2>2
    <3>2. /\ v \in fetched[v].covers
          /\ \A u \in Elems(log[ChatOf(v)]) :
               pc[u] = "answered" /\ u \notin fetched[v].covers /\ u # v => Excused(u)
      BY <1>12, <3>1 DEF ChatsInv, FreshOK
    <3> QED
      BY <1>9, <1>10, <1>12, <3>1, <3>2
  <2> QED
    BY <2>1, <2>2
<1>13. FreshOK'
  <2>1. \A v \in Turns : ChatOf(v)' = ChatOf(v)
    BY <1>2 DEF ChatOf
  <2> QED
    BY <1>2, <1>5, <1>11, <1>12, <2>1 DEF FreshOK
<1> QED
  BY <1>6, <1>8, <1>13 DEF ChatsInv

LEMMA UpdateKeepsChats ==
  ASSUME ServiceInv, ChatsInv, NEW t \in Turns, Update(t)
  PROVE  ChatsInv'
<1> DEFINE s == ChatOf(t)
<1>1. PICK e \in {"shown", "stale"} :
        /\ web' = [web EXCEPT ![t] = e]
        /\ \/ e = "shown" /\ chat[s] # NoChat /\ chat' = [chat EXCEPT ![s] = fetched[t]]
           \/ e = "stale" /\ chat[s] = NoChat /\ chat' = chat
        /\ UNCHANGED <<vars, shown, beside>>
        /\ fetched' = [fetched EXCEPT ![t] = NoSnapshot]
        /\ web[t] = "fetched"
  BY DEF Update, CloseAs
<1>2. /\ UNCHANGED <<issued, session, pc, ask, log>>
      /\ web'[t] = e /\ \A u \in Turns \ {t} : web'[u] = web[u]
  BY <1>1, CloseEffect DEF vars
<1>3. pc[t] = "answered"
  BY <1>1 DEF ChatsInv, WebOK
<1>4. s \in Sessions
  BY <1>3 DEF ServiceInv, TypeOK, Request, ChatOf
<1>5. /\ \A r \in Sessions : chat'[r] # NoChat <=> chat[r] # NoChat
      /\ \A r \in Sessions \ {s} : chat'[r] = chat[r]
      /\ e = "shown" => chat'[s] = fetched[t]
      /\ chat' \in [Sessions -> SnapshotType \cup {NoChat}]
  BY <1>1, <1>4, ChatConstantsOK DEF ChatsInv, ChatsTypeOK
<1>6. Mirrored' = Mirrored /\ Mirrored \subseteq Alive /\ Mirrored \subseteq Sessions
  BY <1>2, <1>5 DEF Mirrored, Alive
<1>7. WebOK' /\ BesideOK' /\ ShownOK'
  <2>1. Progress
    BY <1>1, <1>2, <1>5 DEF Progress, InFlight
  <2>2. Allowed(t)
    <3>1. ~(s \in Mirrored /\ t \in Elems(log[s]) \ Elems(shown[s]))
      BY <1>1 DEF ChatsInv, ShownOK
    <3> QED
      BY <1>1, <1>2, <1>3, <1>6, <3>1 DEF Allowed
  <2> QED
    BY <1>2, <2>1, <2>2, ProgressKeeps
<1>8. ChatsTypeOK' /\ \A u \in Turns \ {t} : fetched'[u] = fetched[u]
  <2>1. NoSnapshot \in SnapshotType
    BY ConversationConstantsOK DEF NoSnapshot, SnapshotType
  <2> QED
    BY <1>1, <1>5, <2>1 DEF ChatsInv, ChatsTypeOK, Closed
<1>9. \A u \in Turns \ {t} : Excused(u) => Excused(u)'
  BY <1>1, <1>2 DEF Excused
<1>10. \A r \in Mirrored : \A u \in Elems(log[r]) : u \in Turns /\ ChatOf(u) = r
  BY <1>6, LogIsKept DEF ChatOf
<1>11. e = "stale" => s \notin Mirrored
  BY <1>1 DEF Mirrored
<1>12. PanelFresh'
  <2> SUFFICES ASSUME NEW r \in Mirrored, NEW u \in Elems(log[r]),
                      pc[u] = "answered", u \notin chat'[r].covers
               PROVE  Excused(u)'
    BY <1>1, <1>2, <1>6 DEF PanelFresh, Excused
  <2>1. CASE r = s
    <3>1. chat'[s] = fetched[t]
      BY <1>1, <1>5, <1>11, <2>1
    <3>2. t \in fetched[t].covers /\ (u # t => Excused(u))
      BY <1>1, <2>1, <3>1 DEF ChatsInv, FreshOK
    <3> QED
      BY <1>9, <1>10, <2>1, <3>1, <3>2
  <2>2. CASE r # s
    <3>1. chat'[r] = chat[r]
      BY <1>5, <1>6, <2>2
    <3>2. Excused(u)
      BY <3>1 DEF ChatsInv, FreshOK, PanelFresh, Excused
    <3> QED
      BY <1>9, <1>10, <2>2, <3>2
  <2> QED
    BY <2>1, <2>2
<1>13. ASSUME NEW v \in Turns, web'[v] = "fetched", ChatOf(v) \in Mirrored
       PROVE  /\ v \in fetched'[v].covers
              /\ \A u \in Elems(log[ChatOf(v)]) :
                   pc[u] = "answered" /\ u \notin fetched'[v].covers /\ u # v => Excused(u)'
  <2>1. v # t /\ web[v] = "fetched" /\ fetched'[v] = fetched[v]
    BY <1>1, <1>2, <1>8, <1>13
  <2>2. /\ v \in fetched[v].covers
        /\ \A u \in Elems(log[ChatOf(v)]) :
             pc[u] = "answered" /\ u \notin fetched[v].covers /\ u # v => Excused(u)
    BY <1>13, <2>1 DEF ChatsInv, FreshOK
  <2>3. t \in Elems(log[ChatOf(v)]) => Excused(t)'
    <3> SUFFICES ASSUME t \in Elems(log[ChatOf(v)]) PROVE t \in beside
      BY <1>1 DEF Excused
    <3>1. ChatOf(t) = ChatOf(v)
      BY <1>10, <1>13
    <3>2. web[t] \in InFlight /\ web[v] \in InFlight
      BY <1>1, <2>1 DEF InFlight
    <3> QED
      BY <2>1, <3>1, <3>2 DEF ChatsInv, BesideOK
  <2> QED
    BY <1>9, <1>10, <1>13, <2>1, <2>2, <2>3
<1>14. FreshOK'
  <2>1. \A v \in Turns : ChatOf(v)' = ChatOf(v)
    BY <1>2 DEF ChatOf
  <2> QED
    BY <1>2, <1>6, <1>12, <1>13, <2>1 DEF FreshOK
<1> QED
  BY <1>7, <1>8, <1>14 DEF ChatsInv

LEMMA RecordKeepsChats ==
  ASSUME ServiceInv, ChatsInv, NEW t \in Turns, Record(t)
  PROVE  ChatsInv'
<1> DEFINE s == ChatOf(t)
<1>1. /\ UNCHANGED <<vars, chat, fetched, beside>>
      /\ UNCHANGED <<issued, session, pc, ask, log>>
      /\ web[t] = "posting" /\ pc[t] = "answered"
      /\ Mirrored' = Mirrored /\ Mirrored \subseteq Alive /\ Mirrored \subseteq Sessions
  BY DEF Record, vars, Mirrored, Alive
<1>2. s \in Sessions
  BY <1>1 DEF ServiceInv, TypeOK, Request, ChatOf
<1>3. \A r \in Mirrored : \A u \in Elems(log[r]) : u \in Turns /\ ChatOf(u) = r
  BY <1>1, LogIsKept DEF ChatOf
<1>4. CASE chat[s] = NoChat /\ web' = [web EXCEPT ![t] = "orphaned"] /\ shown' = shown
  <2>1. web'[t] = "orphaned" /\ \A u \in Turns \ {t} : web'[u] = web[u]
    BY <1>4, CloseEffect
  <2>2. Progress
    BY <1>1, <1>4, <2>1 DEF Progress, InFlight
  <2>3. s \notin Mirrored
    BY <1>4 DEF Mirrored
  <2>4. Allowed(t)
    <3>1. t \notin Elems(shown[s])
      BY <1>1, <1>2 DEF ChatsInv, ShownOK
    <3> QED
      BY <1>1, <1>4, <2>1, <2>3, <3>1 DEF Allowed
  <2>5. WebOK' /\ BesideOK' /\ ShownOK'
    BY <2>1, <2>2, <2>4, ProgressKeeps
  <2>6. FreshOK'
    BY <1>1, <2>1, <2>2, <2>3, PanelKept
  <2>7. ChatsTypeOK'
    BY <1>1, <1>4 DEF ChatsInv, ChatsTypeOK, Closed
  <2> QED
    BY <2>5, <2>6, <2>7 DEF ChatsInv
<1>5. CASE /\ chat[s] # NoChat
           /\ shown' = [shown EXCEPT ![s] = Append(@, t)]
           /\ web' = [web EXCEPT ![t] = "recorded"]
  <2>1. web'[t] = "recorded" /\ \A u \in Turns \ {t} : web'[u] = web[u]
    BY <1>5, CloseEffect
  <2>2. /\ shown[s] \in Seq(Turns) /\ shown'[s] = Append(shown[s], t)
        /\ \A r \in Sessions \ {s} : shown'[r] = shown[r]
        /\ shown' \in [Sessions -> Seq(Turns)]
    BY <1>2, <1>5 DEF ChatsInv, ChatsTypeOK
  <2>3. PICK n \in Nat : n = Len(shown[s])
    BY <2>2
  <2>4. /\ Elems(shown'[s]) = Elems(shown[s]) \cup {t}
        /\ Len(shown'[s]) = n + 1
        /\ \A i \in 1..n : shown'[s][i] = shown[s][i] /\ shown[s][i] \in Elems(shown[s])
        /\ shown'[s][n + 1] = t
    <3>1. /\ Elems(shown'[s]) = Elems(shown[s]) \cup {t}
          /\ Len(shown'[s]) = n + 1
          /\ \A i \in 1..n : shown'[s][i] = shown[s][i]
          /\ shown'[s][n + 1] = t
      BY <2>2, <2>3, ElemsAppend
    <3>2. \A i \in 1..n : shown[s][i] \in Elems(shown[s])
      BY <2>2, <2>3 DEF Elems
    <3> QED
      BY <3>1, <3>2
  <2>5. \A r \in Sessions : \A u \in Elems(shown[r]) : u \in Turns \ {t}
    <3>1. \A r \in Sessions : t \notin Elems(shown[r])
      BY <1>1 DEF ChatsInv, ShownOK
    <3>2. \A r \in Sessions : Elems(shown[r]) \subseteq Turns
      BY DEF ChatsInv, ChatsTypeOK, Elems
    <3> QED
      BY <3>1, <3>2
  <2>6. ChatsTypeOK'
    BY <1>1, <1>5, <2>2 DEF ChatsInv, ChatsTypeOK, InFlight
  <2>7. WebOK'
    BY <1>1, <2>1 DEF ChatsInv, WebOK
  <2>8. \A u \in Turns : web'[u] \in InFlight => web[u] \in InFlight
    BY <1>1, <2>1 DEF InFlight
  <2>9. BesideOK'
    BY <1>1, <2>8 DEF ChatsInv, BesideOK, ChatOf
  <2>10. ASSUME NEW r \in Sessions
         PROVE  /\ chat'[r] # NoChat => r \in issued'
                /\ \A u \in Elems(shown'[r]) :
                     ChatOf(u)' = r /\ web'[u] \in {"recorded", "fetched", "shown", "stale"}
    <3>1. chat[r] # NoChat => r \in issued
      BY DEF ChatsInv, ShownOK
    <3>2. \A u \in Elems(shown[r]) :
            ChatOf(u) = r /\ web'[u] \in {"recorded", "fetched", "shown", "stale"}
      BY <2>1, <2>5 DEF ChatsInv, ShownOK
    <3>3. r # s => Elems(shown'[r]) = Elems(shown[r])
      BY <2>2
    <3>4. \A u : ChatOf(u)' = ChatOf(u)
      BY <1>1 DEF ChatOf
    <3> QED
      BY <1>1, <2>1, <2>4, <3>1, <3>2, <3>3, <3>4
  <2>11. ASSUME NEW r \in Mirrored
         PROVE  /\ \A u \in Elems(log[r]) \ Elems(shown'[r]) : web'[u] \in {"posting", "timed_out"}
                /\ \A x \in Elems(shown'[r]), u \in Elems(log[r]) :
                     web'[u] \in InFlight /\ x # u /\ {x, u} \cap beside = {} => Before(r, x, u)
                /\ \A i, j \in 1..Len(shown'[r]) :
                     i < j /\ {shown'[r][i], shown'[r][j]} \cap beside = {} =>
                       Before(r, shown'[r][i], shown'[r][j])
    <3>1. /\ \A u \in Elems(log[r]) \ Elems(shown[r]) : web[u] \in {"posting", "timed_out"}
          /\ \A x \in Elems(shown[r]), u \in Elems(log[r]) :
               web[u] \in InFlight /\ x # u /\ {x, u} \cap beside = {} => Before(r, x, u)
          /\ \A i, j \in 1..Len(shown[r]) :
               i < j /\ {shown[r][i], shown[r][j]} \cap beside = {} =>
                 Before(r, shown[r][i], shown[r][j])
      BY DEF ChatsInv, ShownOK
    <3>2. CASE r # s
      <4>1. shown'[r] = shown[r] /\ \A u \in Elems(log[r]) : u # t /\ u \in Turns
        BY <1>1, <1>3, <2>2, <3>2
      <4> QED
        BY <2>1, <2>8, <3>1, <4>1
    <3>3. CASE r = s
      <4>1. \A u \in Elems(log[s]) \ Elems(shown'[s]) : web'[u] \in {"posting", "timed_out"}
        <5>1. \A u \in Elems(log[s]) \ Elems(shown'[s]) :
                 u \in Elems(log[s]) \ Elems(shown[s]) /\ u \in Turns \ {t}
          BY <1>3, <2>4, <3>3
        <5> QED
          BY <2>1, <3>1, <3>3, <5>1
      <4>2. t \in Elems(log[s])
        BY <1>1, <3>3, LogIsKept DEF Kept, ChatOf
      <4>3. ASSUME NEW x \in Elems(shown'[s]), NEW u \in Elems(log[s]),
                   web'[u] \in InFlight, x # u, {x, u} \cap beside = {}
            PROVE  Before(s, x, u)
        <5>1. u \in Turns /\ ChatOf(u) = s /\ web[u] \in InFlight
          BY <1>3, <2>8, <3>3, <4>3
        <5>2. x # t
          <6>1. web[t] \in InFlight
            BY <1>1 DEF InFlight
          <6>2. t # u => t \in beside
            BY <5>1, <6>1 DEF ChatsInv, BesideOK
          <6> QED
            BY <4>3, <6>2
        <5> QED
          BY <2>4, <3>1, <3>3, <4>3, <5>1, <5>2
      <4>4. ASSUME NEW i \in 1..(n + 1), NEW j \in 1..(n + 1), i < j,
                   {shown'[s][i], shown'[s][j]} \cap beside = {}
            PROVE  Before(s, shown'[s][i], shown'[s][j])
        <5>1. i \in 1..n
          BY <4>4
        <5>2. CASE j = n + 1
          <6>1. PICK x : x = shown[s][i]
            OBVIOUS
          <6>2. shown'[s][i] = x /\ shown'[s][j] = t /\ x \in Elems(shown[s])
            BY <2>4, <5>1, <5>2, <6>1
          <6>3. x # t /\ web[t] \in InFlight
            BY <1>1, <1>2, <2>5, <6>2 DEF InFlight
          <6>4. Before(s, x, t)
            BY <3>1, <3>3, <4>2, <4>4, <6>2, <6>3
          <6> QED
            BY <6>2, <6>4
        <5>3. CASE j # n + 1
          <6>1. j \in 1..n
            BY <5>3
          <6>2. shown'[s][i] = shown[s][i] /\ shown'[s][j] = shown[s][j]
            BY <2>4, <5>1, <6>1
          <6>3. Before(s, shown[s][i], shown[s][j])
            BY <2>3, <3>1, <3>3, <4>4, <5>1, <6>1, <6>2
          <6> QED
            BY <6>2, <6>3
        <5> QED
          BY <5>2, <5>3
      <4> QED
        BY <2>4, <3>3, <4>1, <4>3, <4>4
    <3> QED
      BY <3>2, <3>3
  <2>12. ShownOK'
    <3>1. ASSUME NEW r \in Mirrored
          PROVE  /\ \A x \in Elems(shown'[r]), u \in Elems(log[r]) :
                      web'[u] \in InFlight /\ x # u /\ {x, u} \cap beside = {} => Before(r, x, u)'
                 /\ \A i, j \in 1..Len(shown'[r]) :
                      i < j /\ {shown'[r][i], shown'[r][j]} \cap beside = {} =>
                        Before(r, shown[r][i], shown[r][j])'
      <4>1. PICK q : q = shown'[r]
        OBVIOUS
      <4>2. \A x, y : Before(r, x, y)' <=> Before(r, x, y)
        BY <1>1 DEF Before
      <4>3. \A i, j : Before(r, shown[r][i], shown[r][j])' <=> Before(r, q[i], q[j])
        BY <1>1, <4>1 DEF Before
      <4> QED
        BY <2>11, <4>1, <4>2, <4>3
    <3>2. \A r \in Mirrored' :
            /\ \A u \in Elems(log'[r]) \ Elems(shown'[r]) : web'[u] \in {"posting", "timed_out"}
            /\ \A x \in Elems(shown'[r]), u \in Elems(log'[r]) :
                 web'[u] \in InFlight /\ x # u /\ {x, u} \cap beside' = {} => Before(r, x, u)'
            /\ \A i, j \in 1..Len(shown'[r]) :
                 i < j /\ {shown'[r][i], shown'[r][j]} \cap beside' = {} =>
                   Before(r, shown[r][i], shown[r][j])'
      BY <1>1, <2>11, <3>1
    <3> QED
      BY <2>10, <3>2 DEF ShownOK
  <2>13. FreshOK'
    <3>1. \A u \in Turns : Excused(u) => Excused(u)'
      BY <1>1, <2>1 DEF Excused, InFlight
    <3>2. PanelFresh'
      <4> SUFFICES ASSUME NEW r \in Mirrored, NEW u \in Elems(log[r]),
                          pc[u] = "answered", u \notin chat[r].covers
                   PROVE  Excused(u)'
        BY <1>1 DEF PanelFresh, Excused
      <4>1. Excused(u)
        BY DEF ChatsInv, FreshOK, PanelFresh, Excused
      <4> QED
        BY <1>3, <3>1, <4>1
    <3>3. \A v \in Turns : web'[v] = "fetched" => web[v] = "fetched"
      BY <2>1
    <3>4. ASSUME NEW v \in Turns, web'[v] = "fetched", ChatOf(v) \in Mirrored
          PROVE  /\ v \in fetched[v].covers
                 /\ \A u \in Elems(log[ChatOf(v)]) :
                      pc[u] = "answered" /\ u \notin fetched[v].covers /\ u # v => Excused(u)'
      <4>1. /\ v \in fetched[v].covers
            /\ \A u \in Elems(log[ChatOf(v)]) :
                 pc[u] = "answered" /\ u \notin fetched[v].covers /\ u # v => Excused(u)
        BY <3>3, <3>4 DEF ChatsInv, FreshOK
      <4> QED
        BY <1>3, <3>1, <3>4, <4>1
    <3>5. \A v \in Turns : ChatOf(v)' = ChatOf(v)
      BY <1>1 DEF ChatOf
    <3> QED
      BY <1>1, <3>2, <3>4, <3>5 DEF FreshOK
  <2> QED
    BY <2>6, <2>7, <2>9, <2>12, <2>13 DEF ChatsInv
<1> QED
  BY <1>4, <1>5 DEF Record, CloseAs

LEMMA InitChatsInv ==
  ASSUME InitChats
  PROVE  ChatsInv
<1>1. Alive = {} /\ Mirrored = {}
  BY DEF InitChats, Init, Alive, Mirrored
<1>2. Elems(<<>>) = {} /\ <<>> \in Seq(Turns)
  BY DEF Elems
<1>3. NoSnapshot \in SnapshotType
  BY ConversationConstantsOK DEF NoSnapshot, SnapshotType
<1>4. ChatsTypeOK
  BY <1>2, <1>3 DEF InitChats, ChatsTypeOK
<1>5. WebOK /\ BesideOK
  BY DEF InitChats, Init, WebOK, BesideOK, InFlight
<1>6. ShownOK
  BY <1>1, <1>2 DEF InitChats, ShownOK
<1>7. FreshOK
  BY <1>1 DEF InitChats, FreshOK, PanelFresh
<1> QED
  BY <1>4, <1>5, <1>6, <1>7 DEF ChatsInv

LEMMA NextKeepsChats ==
  ASSUME ServiceInv, ChatsInv, [NextChats]_<<vars, chatVars>>
  PROVE  ChatsInv'
<1>1. CASE NextChats
  <2>1. ASSUME NEW s \in Sessions, New(s) \/ Destroy(s) PROVE ChatsInv'
    BY <2>1, NewKeepsChats, DestroyKeepsChats
  <2>2. ASSUME NEW t \in Turns, NEW s \in Sessions, NEW form \in Forms, Submit(t, s, form)
        PROVE  ChatsInv'
    BY <2>2, SubmitKeepsChats
  <2>3. ASSUME NEW t \in Turns, ChatStep(t) PROVE ChatsInv'
    BY <2>3, RecordKeepsChats, RefusedKeepsChats, ExpiredKeepsChats, FetchKeepsChats,
       UpdateKeepsChats DEF ChatStep
  <2>4. CASE ServiceStep
    BY <2>4, RestartKeepsChats, ServiceKeepsChats DEF ServiceStep
  <2> QED
    BY <1>1, <2>1, <2>2, <2>3, <2>4 DEF NextChats
<1>2. CASE UNCHANGED <<vars, chatVars>>
  <2>1. /\ UNCHANGED <<issued, session, pc, ask, log, chat, shown, web, fetched, beside>>
        /\ Mirrored' = Mirrored
    BY <1>2 DEF vars, chatVars, Mirrored, Alive
  <2>2. ChatsTypeOK' /\ WebOK' /\ BesideOK'
    BY <2>1 DEF ChatsInv, ChatsTypeOK, WebOK, BesideOK, ChatOf
  <2>3. ShownOK'
    BY <2>1 DEF ChatsInv, ShownOK, Before, ChatOf
  <2>4. FreshOK'
    BY <2>1 DEF ChatsInv, FreshOK, PanelFresh, Excused, ChatOf
  <2> QED
    BY <2>2, <2>3, <2>4 DEF ChatsInv
<1> QED
  BY <1>1, <1>2

LEMMA SystemInvariant == SpecChats => [](ServiceInv /\ ChatsInv)
<1>1. ServiceInv /\ ServiceInv' /\ ChatsInv /\ [NextChats]_<<vars, chatVars>> => ChatsInv'
  BY NextKeepsChats
<1>2. InitChats => ChatsInv
  BY InitChatsInv
<1> QED
  BY <1>1, <1>2, ChatsInvariant, PTL DEF SpecChats

\* The rows, the requests and the snapshots keep their shape; estimations are
\* shown under rows that exist, and no panel counts more turns than a window
\* that is being compressed may hold.
THEOREM ChatsTypeCorrect == SpecChats => []ChatsTypeOK
<1>1. ChatsInv => ChatsTypeOK
  BY DEF ChatsInv
<1> QED
  BY <1>1, SystemInvariant, PTL

LEMMA InvMirrors ==
  ASSUME ServiceInv, ChatsInv
  PROVE  ChatMirrorsSession
<1>1. ASSUME NEW s \in Mirrored
      PROVE  /\ Elems(shown[s]) \subseteq Elems(log[s])
             /\ \A t \in Elems(log[s]) \ Elems(shown[s]) : web[t] \in {"posting", "timed_out"}
             /\ \A i, j \in DOMAIN shown[s] : i < j /\ {shown[s][i], shown[s][j]} \cap beside = {} =>
                  \E k, l \in DOMAIN log[s] :
                    k < l /\ log[s][k] = shown[s][i] /\ log[s][l] = shown[s][j]
  <2>1. s \in Alive /\ s \in Sessions
    BY DEF Mirrored, Alive
  <2>2. shown[s] \in Seq(Turns) /\ log[s] \in Seq(Turns)
    BY <2>1 DEF ChatsInv, ChatsTypeOK, ServiceInv, TypeOK
  <2>3. DOMAIN shown[s] = 1..Len(shown[s]) /\ DOMAIN log[s] = 1..Len(log[s])
    BY <2>2
  <2>4. Elems(shown[s]) \subseteq Elems(log[s])
    BY <2>1, ShownIsLogged DEF ChatsInv
  <2>5. \A t \in Elems(log[s]) \ Elems(shown[s]) : web[t] \in {"posting", "timed_out"}
    BY DEF ChatsInv, ShownOK
  <2>6. \A i, j \in 1..Len(shown[s]) :
          i < j /\ {shown[s][i], shown[s][j]} \cap beside = {} =>
            Before(s, shown[s][i], shown[s][j])
    BY DEF ChatsInv, ShownOK
  <2>7. \A i, j \in DOMAIN shown[s] : i < j /\ {shown[s][i], shown[s][j]} \cap beside = {} =>
          \E k, l \in DOMAIN log[s] :
            k < l /\ log[s][k] = shown[s][i] /\ log[s][l] = shown[s][j]
    <3> SUFFICES ASSUME NEW i \in DOMAIN shown[s], NEW j \in DOMAIN shown[s],
                        i < j, {shown[s][i], shown[s][j]} \cap beside = {}
                 PROVE  Before(s, shown[s][i], shown[s][j])
      BY <2>3 DEF Before
    <3> QED
      BY <2>3, <2>6
  <2> QED
    BY <2>4, <2>5, <2>7
<1>2. \A t \in Turns : web[t] = "expired" => ChatOf(t) \notin Alive
  BY DEF ChatsInv, WebOK, ServiceInv, WorkOK, ChatOf
<1> QED
  BY <1>1, <1>2 DEF ChatMirrorsSession

\* However tabs, failures, time-outs and restarts interleave, the transcript
\* of a chat never shows what its session does not remember, nor in another
\* order, and hides only turns that Rails is not done with or gave up on.
THEOREM ChatsMirrorSessions == SpecChats => []ChatMirrorsSession
<1>1. ServiceInv /\ ChatsInv => ChatMirrorsSession
  BY InvMirrors
<1> QED
  BY <1>1, SystemInvariant, PTL

\* The side panel is behind only by turns whose refresh is to come or failed,
\* or that crossed another request of the same chat.
THEOREM PanelsAreFresh == SpecChats => []PanelFresh
<1>1. ChatsInv => PanelFresh
  BY DEF ChatsInv, FreshOK
<1> QED
  BY <1>1, SystemInvariant, PTL

=============================================================================
