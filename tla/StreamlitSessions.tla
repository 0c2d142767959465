--------------------------- MODULE StreamlitSessions ---------------------------
(***************************************************************************)
(* The conversation the Streamlit page was written for: the page, a script *)
(* rerun on every click, against the previous version of the service,      *)
(* whose sessions are a dictionary in memory.  An estimate runs on the     *)
(* event loop from the session it reads to the turn it records, so only    *)
(* the uploads of two of them interleave; the page stops waiting for it    *)
(* after three minutes, and nothing cancels it.                            *)
(***************************************************************************)
EXTENDS Naturals, Sequences

CONSTANTS
  Texts,        \* transcripts, the form's options included
  Files,        \* attachments
  Readable,     \* those whose text can be extracted
  Similar(_, _),\* closer than SEMANTIC_CACHE_THRESHOLD, in one bucket
  MaxTurns,     \* SESSION_MAX_TURNS
  MaxSessions,  \* bound: sessions created
  MaxPosts,     \* bound: turns posted
  None          \* no session, no text, no file

\* What is estimated: a transcript and the text of the file appended to it.
Description == [text : Texts, file : Files \cup {None}]

\* Assumed of the constants.
StreamlitConstantsOK ==
  /\ MaxTurns \in Nat \ {0} /\ Readable \subseteq Files
  /\ None \notin Nat \cup Texts \cup Files \cup Description

Extracts(file) == file \in Readable \cup {None}

\* ProjectMetadata: what the caches' key knows of (name, team, technologies,
\* scope: the latest wins), and the cumulative lists that it leaves out.
Metadata == [scope : Texts \cup {None}, constraints : SUBSET Texts]

NoMetadata == [scope |-> None, constraints |-> {}]

VARIABLES
  sessions,  \* _SESSIONS: the messages and metadata of every session in memory
  caches,    \* the answers in Redis: those with a key, and those with a vector
  posts,     \* the estimates on the server, and what they answered
  page,      \* st.session_state
  form,      \* the turn being typed
  log        \* history: the turns each session recorded, and the state before

talkVars == <<sessions, caches, posts, page, form, log>>

\* A fresh page state: what _ensure_session assigns.  panel: the metadata that
\* the sidebar shows, and with it the number of turns; history: the messages.
Page(session) ==
  [session |-> session, turns |-> <<>>, panel |-> NoMetadata, history |-> <<>>,
   version |-> 0, waiting |-> 0]

TalkInit ==
  /\ sessions = <<>> /\ log = <<>> /\ posts = <<>>
  /\ caches = [exact |-> {}, semantic |-> {}]
  /\ page = Page(None)
  /\ form = [entry |-> 0, of |-> None]

Alive(s) == s \in DOMAIN sessions /\ sessions[s] # None

-----------------------------------------------------------------------------
(* A session's window.                                                     *)

\* Whole pairs go; the first message kept is a user's.
Trim(messages) ==
  LET excess == Len(messages) - 2 * MaxTurns
      kept == SubSeq(messages, excess + (excess % 2) + 1, Len(messages))
  IN IF excess <= 0 THEN messages
     ELSE IF kept # <<>> /\ Head(kept).role # "user" THEN Tail(kept) ELSE kept

Add(messages, role, content) == Trim(Append(messages, [role |-> role, content |-> content]))

\* _merge_unique.
MergedMetadata(old, new) == old \cup new

\* extract_project_metadata: the call fails and nothing changes, or the model
\* returns what it likes and the lists are merged.
Extracted(metadata, text) ==
  {metadata} \cup
    {[scope |-> s, constraints |-> MergedMetadata(metadata.constraints, new)] :
       s \in {None, text, metadata.scope}, new \in SUBSET {text}}

-----------------------------------------------------------------------------
(* The estimate.                                                           *)

\* An answer is what it was computed from.
Answer(d, metadata, messages) == [of |-> d, metadata |-> metadata, messages |-> messages]

Fingerprint(metadata) == metadata.scope

ExactKey(d, metadata) == [of |-> d, known |-> Fingerprint(metadata)]

\* Both are in one Redis: its failing reads as a miss, and writes neither.
Hits(d, metadata) ==
  {e.answer : e \in {x \in caches.exact : x.key = ExactKey(d, metadata)}}

SemanticHits(d, metadata) ==
  {a \in caches.semantic : metadata.scope = None /\ Similar(a.of, d)}

\* An answer replaces the one under its key; the vectors only grow.
Stored(key, answer) ==
  [exact |-> {e \in caches.exact : e.key # key} \cup {[key |-> key, answer |-> answer]},
   semantic |-> caches.semantic \cup {a \in {answer} : answer.metadata.scope = None}]

\* Mutant: a turn of a conversation goes through the caches.
IsMultiTurn_Never(messages) == FALSE

IsMultiTurn(messages) == messages # <<>>

\* The answers an estimate may give, with the caches it leaves.  A conversation
\* bypasses both; metadata the vector's bucket does not hold bypasses that one.
Estimated(d, metadata, messages) ==
  LET fresh == Answer(d, metadata, messages)
  IN IF IsMultiTurn(messages) THEN {[answer |-> fresh, caches |-> caches]}
     ELSE {[answer |-> a, caches |-> caches] : a \in Hits(d, metadata) \cup SemanticHits(d, metadata)}
            \cup {[answer |-> fresh, caches |-> k] : k \in {caches, Stored(ExactKey(d, metadata), fresh)}}

\* POST /estimate, the form without a session: no metadata, no history.
EstimateStateless ==
  /\ \E t \in Texts : \E r \in Estimated([text |-> t, file |-> None], NoMetadata, <<>>) :
       caches' = r.caches
  /\ UNCHANGED <<sessions, posts, page, form, log>>

Pending == {i \in DOMAIN posts : posts[i].status = "pending"}

\* No such session; an unreadable file, a refused input, a model that gives up
\* or a failure further down: nothing of the turn is kept.
EstimateFails ==
  /\ \E i \in Pending : posts' = [posts EXCEPT ![i].status = "error"]
  /\ UNCHANGED <<sessions, caches, page, form, log>>

\* The transcript goes into the window without its file.
EstimateInSession ==
  \E i \in Pending :
    LET s == posts[i].session
        d == posts[i].of
        before == sessions[s]
    IN /\ Alive(s) /\ Extracts(d.file)
       /\ \E r \in Estimated(d, before.metadata, before.messages),
             m \in Extracted(before.metadata, d.text) :
            /\ sessions' = [sessions EXCEPT ![s] =
                 [messages |-> Add(Add(before.messages, "user", i), "assistant", i), metadata |-> m]]
            /\ caches' = r.caches
            /\ posts' = [posts EXCEPT ![i].status = "ok", ![i].body = [answer |-> r.answer, metadata |-> m]]
            /\ log' = [log EXCEPT ![s] = Append(@, [post |-> i, answer |-> r.answer, metadata |-> m])]
       /\ UNCHANGED <<page, form>>

\* The process ends: the dictionary is gone, what was under way with it.
Restart ==
  /\ \E s \in DOMAIN sessions : Alive(s)
  /\ sessions' = [s \in DOMAIN sessions |-> None]
  /\ posts' = [i \in DOMAIN posts |->
       IF i \in Pending THEN [posts[i] EXCEPT !.status = "gone"] ELSE posts[i]]
  /\ UNCHANGED <<caches, page, form, log>>

-----------------------------------------------------------------------------
(* The page.                                                               *)

Snapshot(p) == [p EXCEPT !.panel = sessions[p.session].metadata,
                         !.history = sessions[p.session].messages]

\* GET /sessions/{id}, at the head of every rerun: no answer and a 404 leave the
\* page as it was.
Refreshed(p) == {p} \cup (IF Alive(p.session) THEN {Snapshot(p)} ELSE {})

\* POST /sessions; its answer may be lost.
Created(left) ==
  /\ Len(sessions) < MaxSessions
  /\ sessions' = Append(sessions, [messages |-> <<>>, metadata |-> NoMetadata])
  /\ log' = Append(log, <<>>)
  /\ page' \in {Page(Len(sessions) + 1), left}

EnsureSession ==
  /\ page.session = None
  /\ Created(page)
  /\ UNCHANGED <<caches, posts, form>>

Idle == page.session # None /\ page.waiting = 0

\* Nueva conversacion.  The widgets' key is their version: a text stays under
\* key 0, a page that stops without them drops it.
ResetSession ==
  /\ Idle
  /\ \/ Created([Page(None) EXCEPT !.version = page.version])
     \/ page' = [Page(None) EXCEPT !.version = page.version] /\ UNCHANGED <<sessions, log>>
  /\ form' = IF page'.session # None /\ page.version = 0 THEN form ELSE [form EXCEPT !.of = None]
  /\ UNCHANGED <<caches, posts>>

\* To the session of the page as it is now; waited for 180 seconds.
PostEstimate(d, entry) ==
  [session |-> page.session, of |-> d, entry |-> entry, status |-> "pending", body |-> None]

\* A click on Send turn, with what is still in the form or a new entry.
SubmitTurn ==
  /\ Idle /\ Len(posts) < MaxPosts
  /\ \E d \in Description :
       LET entry == IF d = form.of THEN form.entry ELSE form.entry + 1
       IN /\ form' = [entry |-> entry, of |-> d]
          /\ posts' = Append(posts, PostEstimate(d, entry))
  /\ page' \in Refreshed([page EXCEPT !.waiting = Len(posts) + 1])
  /\ UNCHANGED <<sessions, caches, log>>

\* The connection is lost or no answer comes in time; or it is an error: the
\* text stays for another try.
GiveUp ==
  /\ page.waiting # 0
  /\ page' = [page EXCEPT !.waiting = 0]
  /\ UNCHANGED <<sessions, caches, posts, form, log>>

\* Mutant: the widgets keep their version.
ClearForm_KeepsVersion == form

\* New widgets.
ClearForm == [form EXCEPT !.of = None]

\* The turn is shown, the panel takes the metadata of its answer, and the page is
\* rerun: only the GET brings the history.
ShowTurn ==
  /\ page.waiting # 0 /\ posts[page.waiting].status = "ok"
  /\ LET body == posts[page.waiting].body
     IN page' \in Refreshed(
          [page EXCEPT !.turns = Append(@, [post |-> page.waiting, answer |-> body.answer]),
                       !.panel = body.metadata, !.version = @ + 1, !.waiting = 0])
  /\ posts' = [posts EXCEPT ![page.waiting].status = "shown"]
  /\ form' = ClearForm
  /\ UNCHANGED <<sessions, caches, log>>

-----------------------------------------------------------------------------

TalkNext ==
  \/ EstimateStateless \/ EstimateFails \/ EstimateInSession \/ Restart
  \/ EnsureSession \/ ResetSession \/ SubmitTurn \/ GiveUp \/ ShowTurn

TalkSpec == TalkInit /\ [][TalkNext]_talkVars

-----------------------------------------------------------------------------
(* Properties.                                                             *)

\* The turns that the k-th of a session may still see, and the metadata it starts
\* from.
Context(turns, k) == SubSeq(turns, IF k > MaxTurns THEN k - MaxTurns ELSE 1, k - 1)
MetadataBefore(turns, k) == IF k = 1 THEN NoMetadata ELSE turns[k - 1].metadata

\* The messages of some turns: of each the user's, then the assistant's.
Pairs(turns) ==
  [m \in 1..(2 * Len(turns)) |->
     [role |-> IF m % 2 = 1 THEN "user" ELSE "assistant", content |-> turns[(m + 1) \div 2].post]]

\* What the page shows is the conversation it is attached to, though answers
\* are lost, retried and overtaken: the turns are recorded turns of that
\* session, in their order; the panel is the metadata after one recorded turn,
\* the last one shown or a later one; the history is the window after that turn or
\* after an earlier one, for an answer brings the panel alone and the GET behind it
\* may fail; and what was entered once is sent again only if no answer to it was
\* shown.
PageHonest ==
  /\ \A i, j \in DOMAIN posts :
       i < j /\ posts[i].entry = posts[j].entry => posts[i].status # "shown"
  /\ page.session # None =>
       LET recorded == log[page.session]
           at(t) == CHOOSE k \in DOMAIN recorded : recorded[k].post = page.turns[t].post
       IN /\ \A t \in DOMAIN page.turns :
               /\ \E k \in DOMAIN recorded :
                    recorded[k].post = page.turns[t].post /\ recorded[k].answer = page.turns[t].answer
               /\ t > 1 => at(t - 1) < at(t)
          /\ \E k \in 0..Len(recorded) :
               /\ page.turns # <<>> => k >= at(Len(page.turns))
               /\ page.panel = MetadataBefore(recorded, k + 1)
               /\ \E h \in 0..k : page.history = Pairs(Context(recorded, h + 1))

\* Every turn a session records was answered in its own context: from the whole
\* pairs of the last MaxTurns turns and the metadata as they left it, of which
\* no constraint was ever dropped.  Only the first may be the answer to another
\* text, a similar one that was asked out of any context too.
AnswersInContext ==
  \A s \in DOMAIN log : \A k \in DOMAIN log[s] :
    LET turn == log[s][k]
        metadata == MetadataBefore(log[s], k)
    IN /\ turn.answer.messages = Pairs(Context(log[s], k))
       /\ turn.answer.metadata = metadata
       /\ metadata.constraints \subseteq turn.metadata.constraints
       /\ \/ turn.answer.of = posts[turn.post].of
          \/ k = 1 /\ Similar(turn.answer.of, posts[turn.post].of)
=============================================================================
