---------------------------- MODULE Conversation ----------------------------
(***************************************************************************)
(* Conversational estimation (api/sessions.py, domain/estimation_service   *)
(* .py, generation/conversation/): turns against in-memory sessions, with  *)
(* the Actor-Critic-Boss variant, the compression of the history and the   *)
(* metadata refresh.                                                       *)
(*                                                                         *)
(* The turn endpoints are coroutines that await nothing but the uploads:   *)
(* the pipeline itself is synchronous code on the event loop, so one turn  *)
(* runs at a time.  It still makes one blocking LLM call after another,    *)
(* and GET /sessions/{id}, which runs on a worker thread, sees the session *)
(* between them: each action is one such call together with the code up to *)
(* the next.  A restart of the process loses every session.                *)
(*                                                                         *)
(* A turn stands for its user/assistant pair of messages.                  *)
(***************************************************************************)
EXTENDS Naturals, Sequences, FiniteSets

CONSTANTS
  Sessions,       \* session ids; each is issued once
  Turns,          \* turn requests; each is sent once
  MaxTurns,       \* MAX_CONVERSATION_TURNS, the sliding window in turns
  MaxIterations,  \* BOSS_MAX_ITERATIONS
  AnchorMode,     \* ANCHOR_DETECTION_MODE
  Forms,          \* what callers may send: text, tier override, endpoint
  Drafts,         \* the estimates the actor may return
  Extracts,       \* the metadata the extractor may return
  Nothing         \* None

Tiers == {"executive", "pm", "developer", "default"}

\* The vocabularies of the tier rules.
Patterns == {"nda", "regulatory", "technical"}

\* commits: an anchor pattern matches the transcript; hits: the tier patterns
\* that do; override: the tier asked for, if any; path: the endpoint.
Form == [commits : BOOLEAN, hits : SUBSET Patterns, override : Tiers \cup {Nothing},
         path : {"estimate", "estimate-acb"}]

\* No agreed scope, as opposed to one that matches no pattern.
NoScope == {"none"}

\* scope, techs: the tier patterns the agreed scope and the technologies
\* match; team: whether the assumed team has at most two people.
Metadata == [scope : (SUBSET Patterns) \cup {NoScope}, techs : SUBSET Patterns,
             team : {"none", "small", "large"}]

LowConfidence == 30

\* What validation lets through: a low confidence says "Out of scope:".
Draft == {d \in [confidence : 0..100, outOfScope : BOOLEAN, caveats : BOOLEAN] :
            d.confidence < LowConfidence => d.outOfScope}

\* A turn as the history keeps it.
Entry == [turn : Turns, result : Draft]

RuleNames == {"explicit_override", "nda_detected", "regulatory_context", "technical_audience",
              "low_budget_pm", "default"}

SessionRecord ==
  [window : Seq(Entry), anchors : Seq(Entry), summary : SUBSET Turns,
   metadata : Metadata, tier : Tiers \cup {Nothing}, rule : RuleNames \cup {Nothing}]

ASSUME ConversationConstantsOK ==
  /\ MaxTurns \in Nat \ {0} /\ MaxIterations \in Nat \ {0}
  /\ AnchorMode \in {"heuristic", "llm"}
  /\ Forms \subseteq Form
  /\ Drafts \subseteq {d \in Draft : ~d.caveats}
  /\ Extracts \subseteq Metadata
  /\ Nothing \notin Tiers /\ Nothing \notin Draft /\ Nothing \notin SessionRecord

VARIABLES
  issued,     \* session ids handed out so far
  session,    \* the session store
  pc,         \* the call each turn is waiting for, or how it ended
  ask,        \* its session and form
  work,       \* the locals of the turn on the event loop
  answer,     \* the result each caller was sent
  log,        \* history: the turns appended to each session, in order
  forgotten,  \* history: turns dropped because the summarizer failed
  regulated   \* history: sessions whose extractor reported regulated tech

vars == <<issued, session, pc, ask, work, answer, log, forgotten, regulated>>

\* Calls the turn on the event loop may be waiting for.
Running == {"actor", "critic", "compress", "summarize", "extract"}

\* How a turn ends: 200; 404; 400, 415 or 422; 502; the process is gone.
Ended == {"answered", "not_found", "rejected", "failed", "lost"}

EmptyMetadata == [scope |-> NoScope, techs |-> {}, team |-> "none"]

NewSession == [window |-> <<>>, anchors |-> <<>>, summary |-> {},
               metadata |-> EmptyMetadata, tier |-> Nothing, rule |-> Nothing]

\* current: the draft under review; rounds: the audit trail; result: the
\* estimate chosen; index: turn_index; evicted: turns for the summarizer.
Idle == [tier |-> Nothing, current |-> Nothing, rounds |-> <<>>,
         result |-> Nothing, index |-> 0, evicted |-> {}]

Elems(s) == {s[i] : i \in DOMAIN s}

Bigger(a, b) == IF a > b THEN a ELSE b

Init ==
  /\ issued = {}
  /\ session = [s \in Sessions |-> Nothing]
  /\ pc = [t \in Turns |-> "unsent"]
  /\ ask = [t \in Turns |-> Nothing]
  /\ work = Idle
  /\ answer = [t \in Turns |-> Nothing]
  /\ log = [s \in Sessions |-> <<>>]
  /\ forgotten = {}
  /\ regulated = {}

Busy == \E t \in Turns : pc[t] \in Running

At(t, call) == pc[t] = call
Goto(t, call) == pc' = [pc EXCEPT ![t] = call]

\* The session of turn t.
Of(t) == session[ask[t].session]

TurnsIn(entries) == [i \in DOMAIN entries |-> entries[i].turn]

\* The turns that the prompt of the next call quotes after the summary.
ToMessages(s) == TurnsIn(session[s].anchors) \o TurnsIn(session[s].window)

-----------------------------------------------------------------------------
(* Sessions and requests.                                                  *)

\* POST /sessions.
Create(s) ==
  /\ s \notin issued
  /\ issued' = issued \cup {s}
  /\ session' = [session EXCEPT ![s] = NewSession]
  /\ UNCHANGED <<pc, ask, work, answer, log, forgotten, regulated>>

\* POST /sessions/{id}/estimate or /estimate-acb, waiting for the event loop.
Send(t, s, form) ==
  /\ pc[t] = "unsent"
  /\ s \in issued
  /\ ask' = [ask EXCEPT ![t] = [session |-> s, form |-> form]]
  /\ Goto(t, "queued")
  /\ UNCHANGED <<issued, session, work, answer, log, forgotten, regulated>>

NotFound(t) ==
  /\ At(t, "queued") /\ ~Busy
  /\ Of(t) = Nothing
  /\ Goto(t, "not_found")
  /\ UNCHANGED <<issued, session, ask, work, answer, log, forgotten, regulated>>

\* An attachment that cannot be read, or the input guardrail.
Reject(t) ==
  /\ At(t, "queued") /\ ~Busy
  /\ Of(t) # Nothing
  /\ Goto(t, "rejected")
  /\ UNCHANGED <<issued, session, ask, work, answer, log, forgotten, regulated>>

-----------------------------------------------------------------------------
(* The tier.                                                               *)

Mentions(pattern, form, m) == pattern \in form.hits \cup m.scope

Rules == <<
  [name |-> "nda_detected", tier |-> "executive"],
  [name |-> "regulatory_context", tier |-> "executive"],
  [name |-> "technical_audience", tier |-> "developer"],
  [name |-> "low_budget_pm", tier |-> "pm"]>>

Predicate(rule, form, m) ==
  \/ rule = "nda_detected" /\ Mentions("nda", form, m)
  \/ rule = "regulatory_context" /\ (Mentions("regulatory", form, m) \/ "regulatory" \in m.techs)
  \/ rule = "technical_audience" /\ "technical" \in form.hits
  \/ rule = "low_budget_pm" /\ m.team = "small"

ResolveTier(form, m) ==
  LET fired == {i \in DOMAIN Rules : Predicate(Rules[i].name, form, m)} IN
  IF form.override # Nothing THEN [name |-> "explicit_override", tier |-> form.override]
  ELSE IF fired = {} THEN [name |-> "default", tier |-> "default"]
  ELSE Rules[CHOOSE i \in fired : \A j \in fired : i <= j]

\* The guardrail passed: the tier is recorded before anything is generated.
Begin(t) ==
  /\ At(t, "queued") /\ ~Busy
  /\ Of(t) # Nothing
  /\ LET rule == ResolveTier(ask[t].form, Of(t).metadata) IN
       /\ session' = [session EXCEPT ![ask[t].session].tier = rule.tier,
                                     ![ask[t].session].rule = rule.name]
       /\ work' = [Idle EXCEPT !.tier = rule.tier]
  /\ Goto(t, "actor")
  /\ UNCHANGED <<issued, ask, answer, log, forgotten, regulated>>

-----------------------------------------------------------------------------
(* The estimate: one actor call, or the Actor-Critic-Boss loop.            *)

EnforceScope(d) == [d EXCEPT !.outOfScope = @ \/ d.confidence < LowConfidence]

\* ConversationHistory.append, with what else changes in the caller's locals.
AppendTurn(t, result, locals) ==
  LET s == ask[t].session IN
  /\ session' = [session EXCEPT ![s].window =
                   Append(@, [turn |-> t, result |-> result])]
  /\ log' = [log EXCEPT ![s] = Append(@, t)]
  /\ work' = [locals EXCEPT !.result = result]
  /\ Goto(t, "compress")

\* The estimate of the turn.  turn_index is read after the append, before
\* compression.
Generate(t) ==
  /\ At(t, "actor") /\ ask[t].form.path = "estimate"
  /\ \E d \in Drafts :
       AppendTurn(t, EnforceScope(d), [work EXCEPT !.index = Len(Of(t).window) + 1])
  /\ UNCHANGED <<issued, ask, answer, forgotten, regulated>>

\* A draft for the critic.
Actor(t) ==
  /\ At(t, "actor") /\ ask[t].form.path = "estimate-acb"
  /\ \E d \in Drafts : work' = [work EXCEPT !.current = EnforceScope(d)]
  /\ Goto(t, "critic")
  /\ UNCHANGED <<issued, session, ask, answer, log, forgotten, regulated>>

\* The generation failed in every retry: 502.
ActorFails(t) ==
  /\ At(t, "actor")
  /\ work' = Idle
  /\ Goto(t, "failed")
  /\ UNCHANGED <<issued, session, ask, answer, log, forgotten, regulated>>

CriticVerdict == {"accept", "needs_iteration", "reject"}

\* "down": the critic call failed, and is taken for an acceptance.
Verdicts == CriticVerdict \cup {"down"}

Decide(verdict, iterationsLeft) ==
  IF verdict \in {"accept", "down"} THEN "accept"
  ELSE IF verdict = "needs_iteration" /\ iterationsLeft > 0 THEN "iterate"
  ELSE "synthesize"

\* A verdict that is synthesized from always has issues to attach.
SynthesizeFallback(d) ==
  [confidence |-> Bigger(LowConfidence, d.confidence \div 2),
   outOfScope |-> FALSE, caveats |-> TRUE]

\* Mutant: every reviewed draft enters the history.
Review_KeepsDrafts(t) ==
  /\ At(t, "critic")
  /\ \E v \in Verdicts :
       LET decision == Decide(v, MaxIterations - Len(work.rounds) - 1)
           audited == [work EXCEPT !.rounds = Append(@, [verdict |-> v, decision |-> decision])]
           s == ask[t].session
       IN \/ decision = "accept" /\ AppendTurn(t, work.current, audited)
          \/ decision = "synthesize" /\ AppendTurn(t, SynthesizeFallback(work.current), audited)
          \/ /\ decision = "iterate"
             /\ work' = audited
             /\ Goto(t, "actor")
             /\ session' = [session EXCEPT ![s].window =
                              Append(@, [turn |-> t, result |-> work.current])]
             /\ log' = [log EXCEPT ![s] = Append(@, t)]
  /\ UNCHANGED <<issued, ask, answer, forgotten, regulated>>

Review(t) ==
  /\ At(t, "critic")
  /\ \E v \in Verdicts :
       LET decision == Decide(v, MaxIterations - Len(work.rounds) - 1)
           audited == [work EXCEPT !.rounds = Append(@, [verdict |-> v, decision |-> decision])]
       IN \/ decision = "accept" /\ AppendTurn(t, work.current, audited)
          \/ decision = "synthesize" /\ AppendTurn(t, SynthesizeFallback(work.current), audited)
          \/ /\ decision = "iterate"
             /\ work' = audited
             /\ Goto(t, "actor")
             /\ UNCHANGED <<session, log>>
  /\ UNCHANGED <<issued, ask, answer, forgotten, regulated>>

-----------------------------------------------------------------------------
(* CompressionPolicy.apply.                                                *)

\* One of the curated phrases occurs in the user's message of the turn.
Commits(t) == ask[t].form.commits

\* An LLM detector may find a commitment anywhere, or nowhere; when its call
\* fails the patterns decide.
Detect(t) == IF AnchorMode = "heuristic" THEN {Commits(t)} ELSE BOOLEAN

\* Mutant: the pair is deleted before the detector looks at the front.
Evict_DetectsNext(t) ==
  /\ At(t, "compress")
  /\ Len(Of(t).window) > MaxTurns
  /\ LET s == ask[t].session
         oldest == Head(Of(t).window) IN
     \E isAnchor \in Detect(Head(Tail(Of(t).window)).turn) :
       /\ session' = [session EXCEPT
            ![s].window = Tail(@),
            ![s].anchors = IF isAnchor THEN Append(@, oldest) ELSE @]
       /\ work' = [work EXCEPT !.evicted = IF isAnchor THEN @ ELSE @ \cup {oldest.turn}]
  /\ UNCHANGED <<issued, pc, ask, answer, log, forgotten, regulated>>

Evict(t) ==
  /\ At(t, "compress")
  /\ Len(Of(t).window) > MaxTurns
  /\ LET s == ask[t].session
         oldest == Head(Of(t).window) IN
     \E isAnchor \in Detect(oldest.turn) :
       /\ session' = [session EXCEPT
            ![s].window = Tail(@),
            ![s].anchors = IF isAnchor THEN Append(@, oldest) ELSE @]
       /\ work' = [work EXCEPT !.evicted = IF isAnchor THEN @ ELSE @ \cup {oldest.turn}]
  /\ UNCHANGED <<issued, pc, ask, answer, log, forgotten, regulated>>

Evicted(t) ==
  /\ At(t, "compress")
  /\ Len(Of(t).window) <= MaxTurns
  /\ Goto(t, IF work.evicted = {} THEN "extract" ELSE "summarize")
  /\ UNCHANGED <<issued, session, ask, work, answer, log, forgotten, regulated>>

\* Mutant: the new summary is written from the evicted turns alone.
Summarize_Replaces(t) ==
  /\ At(t, "summarize")
  /\ session' = [session EXCEPT ![ask[t].session].summary = work.evicted]
  /\ work' = [work EXCEPT !.evicted = {}]
  /\ Goto(t, "extract")
  /\ UNCHANGED <<issued, ask, answer, log, forgotten, regulated>>

\* The new summary is written from the previous one and the evicted turns.
Summarize(t) ==
  /\ At(t, "summarize")
  /\ session' = [session EXCEPT ![ask[t].session].summary = @ \cup work.evicted]
  /\ work' = [work EXCEPT !.evicted = {}]
  /\ Goto(t, "extract")
  /\ UNCHANGED <<issued, ask, answer, log, forgotten, regulated>>

\* The previous summary stays, and the evicted turns are gone.
SummarizeFails(t) ==
  /\ At(t, "summarize")
  /\ forgotten' = forgotten \cup work.evicted
  /\ work' = [work EXCEPT !.evicted = {}]
  /\ Goto(t, "extract")
  /\ UNCHANGED <<issued, session, ask, answer, log, regulated>>

-----------------------------------------------------------------------------
(* update_metadata, and the answer.                                        *)

\* Mutant: the technologies of the last turn replace the earlier ones.
MergeWith_Replaces(old, update) ==
  [scope |-> IF update.scope = NoScope THEN old.scope ELSE update.scope,
   techs |-> update.techs,
   team |-> IF update.team = "none" THEN old.team ELSE update.team]

MergeWith(old, update) ==
  [scope |-> IF update.scope = NoScope THEN old.scope ELSE update.scope,
   techs |-> old.techs \cup update.techs,
   team |-> IF update.team = "none" THEN old.team ELSE update.team]

Reply(t) ==
  /\ answer' = [answer EXCEPT ![t] = work.result]
  /\ work' = Idle
  /\ Goto(t, "answered")

UpdateMetadata(t) ==
  /\ At(t, "extract")
  /\ LET s == ask[t].session IN
     \E extracted \in Extracts :
       /\ session' = [session EXCEPT ![s].metadata = MergeWith(@, extracted)]
       /\ regulated' = IF "regulatory" \in extracted.techs THEN regulated \cup {s} ELSE regulated
  /\ Reply(t)
  /\ UNCHANGED <<issued, ask, log, forgotten>>

UpdateMetadataFails(t) ==
  /\ At(t, "extract")
  /\ Reply(t)
  /\ UNCHANGED <<issued, session, ask, log, forgotten, regulated>>

-----------------------------------------------------------------------------

\* The process restarts: the store is empty, callers lose their connection.
Restart ==
  /\ \E s \in Sessions : session[s] # Nothing
  /\ session' = [s \in Sessions |-> Nothing]
  /\ pc' = [t \in Turns |-> IF pc[t] \in Running \cup {"queued"} THEN "lost" ELSE pc[t]]
  /\ work' = Idle
  /\ log' = [s \in Sessions |-> <<>>]
  /\ forgotten' = {}
  /\ regulated' = {}
  /\ UNCHANGED <<issued, ask, answer>>

Step(t) ==
  \/ NotFound(t) \/ Reject(t) \/ Begin(t)
  \/ Generate(t) \/ Actor(t) \/ ActorFails(t) \/ Review(t)
  \/ Evict(t) \/ Evicted(t) \/ Summarize(t) \/ SummarizeFails(t)
  \/ UpdateMetadata(t) \/ UpdateMetadataFails(t)

Next ==
  \/ \E s \in Sessions : Create(s)
  \/ \E t \in Turns, s \in Sessions, form \in Forms : Send(t, s, form)
  \/ \E t \in Turns : Step(t)
  \/ Restart

Spec == Init /\ [][Next]_vars

-----------------------------------------------------------------------------
(* Properties.                                                             *)

Alive == {s \in Sessions : session[s] # Nothing}

\* A turn whose result is chosen and that is being remembered.
Remembering(t) == pc[t] \in {"compress", "summarize", "extract"}

Request == [session : Sessions, form : Forms]

\* The shape of the state; one turn at most on the event loop; a window is
\* over its cap only while it is compressed, and then by one turn.
TypeOK ==
  /\ issued \subseteq Sessions /\ Alive \subseteq issued
  /\ session \in [Sessions -> SessionRecord \cup {Nothing}]
  /\ pc \in [Turns -> {"unsent", "queued"} \cup Running \cup Ended]
  /\ ask \in [Turns -> Request \cup {Nothing}]
  /\ answer \in [Turns -> Draft \cup {Nothing}]
  /\ log \in [Sessions -> Seq(Turns)]
  /\ forgotten \subseteq Turns /\ regulated \subseteq Alive
  /\ \A s \in Sessions \ Alive : log[s] = <<>>
  /\ \A s \in Alive :
       /\ Len(session[s].window) <= MaxTurns + 1
       /\ Len(session[s].window) > MaxTurns => \E t \in Turns : At(t, "compress") /\ ask[t].session = s
  /\ \A t \in Turns :
       /\ pc[t] # "unsent" => ask[t] \in Request /\ ask[t].session \in issued
       /\ pc[t] \in Running => /\ Of(t) # Nothing
                               /\ \A u \in Turns \ {t} : pc[u] \notin Running
                               /\ Len(work.rounds) <= MaxIterations
                               /\ Remembering(t) => work.result \in Draft
  /\ ~Busy => work = Idle

\* Every turn of a session is in exactly one place: in the window, among the
\* anchors, in the running summary, on its way to the summarizer, or, if the
\* summarizer failed, forgotten; and the window is the end of the session.
MemoryAccounted ==
  \A s \in Alive :
    LET window == TurnsIn(session[s].window)
        anchors == TurnsIn(session[s].anchors)
        dropped == forgotten \cap Elems(log[s])
        waiting == {t \in work.evicted : ask[t].session = s}
    IN /\ Elems(log[s]) = Elems(window) \cup Elems(anchors) \cup session[s].summary
                            \cup dropped \cup waiting
       /\ Len(log[s]) = Len(window) + Len(anchors) + Cardinality(session[s].summary)
                            + Cardinality(dropped) + Cardinality(waiting)
       /\ window = SubSeq(log[s], Len(log[s]) - Len(window) + 1, Len(log[s]))

\* Under the heuristic detector a turn with a commitment stays verbatim in the
\* prompt for as long as its session lives, and what the prompt quotes is in
\* the order it was said.
CommitmentsKept ==
  \A s \in Alive :
    LET quoted == ToMessages(s) IN
    /\ AnchorMode = "heuristic" =>
         \A t \in Elems(log[s]) : Commits(t) => t \in Elems(quoted)
    /\ \A i, j \in DOMAIN quoted : i < j =>
         \E k, l \in DOMAIN log[s] : k < l /\ log[s][k] = quoted[i] /\ log[s][l] = quoted[j]

\* A session remembers the turns it answered and no other, once each and with
\* the estimate its caller got: neither a failed turn nor a draft of the
\* Actor-Critic-Boss loop leaves anything behind.
HistoryIsAnswers ==
  \A s \in Alive :
    /\ \A i, j \in DOMAIN log[s] : log[s][i] = log[s][j] => i = j
    /\ Elems(log[s]) =
         {t \in Turns : (pc[t] = "answered" \/ Remembering(t)) /\ ask[t].session = s}
    /\ \A e \in Elems(session[s].window) \cup Elems(session[s].anchors) :
         e.result = IF Remembering(e.turn) THEN work.result ELSE answer[e.turn]

\* Once a session was told of a regulated technology, every later turn that
\* asks for no tier is written for executives, whatever was evicted,
\* summarized, or failed to be extracted in between.
RegulationRemembered ==
  \A t \in Turns :
    pc[t] \in Running /\ ask[t].session \in regulated /\ ask[t].form.override = Nothing =>
      work.tier = "executive"
=============================================================================
