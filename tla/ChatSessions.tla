---------------------------- MODULE ChatSessions ----------------------------
(***************************************************************************)
(* The Rails chat (chat_sessions_controller.rb): a chat_sessions row       *)
(* mirrors a conversational session of the service.  Each submitted turn   *)
(* is a POST to the service, an estimations row for its answer, a GET of   *)
(* the session, and an update of the snapshot the side panel shows.        *)
(* Several tabs may submit at once; a row is shared by all of them.        *)
(*                                                                         *)
(* Composed with Conversation: the turns are those of the service, which   *)
(* keeps working on a turn after Rails stopped waiting for it.  A row is   *)
(* identified by its remote_session_id, which is unique.                   *)
(***************************************************************************)
EXTENDS Conversation

CONSTANTS
  NoChat,  \* there is no row for a session
  MaxTabs  \* bound: requests of the browser in flight at once

\* What the side panel shows of a session.
SnapshotType == [turnCount : 0..MaxTurns + 1, covers : SUBSET Turns]

ASSUME ChatConstantsOK == MaxTabs \in Nat /\ NoChat \notin SnapshotType

VARIABLES
  chat,    \* the chat_sessions rows: the snapshot of each
  shown,   \* the estimations of each chat, by created_at
  web,     \* how far the request of each turn got
  fetched, \* the snapshot it read
  beside   \* history: turns submitted while another of the chat was in flight

chatVars == <<chat, shown, web, fetched, beside>>

InFlight == {"posting", "recorded", "fetched"}

\* How a request ends: everything shown; panel not refreshed; the answer not
\* recorded, as its chat was deleted; 422; 503; gave up waiting; chat dropped.
Closed == {"shown", "stale", "orphaned", "invalid", "unavailable", "timed_out", "expired"}

\* turnCount: message_count / 2; covers stands for latest_metadata: the turns
\* whose extraction is behind it.
Snapshot(s) ==
  [turnCount |-> Len(session[s].window),
   covers |-> {t \in Elems(log[s]) : pc[t] = "answered"}]

NoSnapshot == [turnCount |-> 0, covers |-> {}]

InitChats ==
  /\ Init
  /\ chat = [s \in Sessions |-> NoChat]
  /\ shown = [s \in Sessions |-> <<>>]
  /\ web = [t \in Turns |-> "unsent"]
  /\ fetched = [t \in Turns |-> NoSnapshot]
  /\ beside = {}

ChatOf(t) == ask[t].session

CloseAs(t, end) == web' = [web EXCEPT ![t] = end]

-----------------------------------------------------------------------------

\* ChatSessionsController#new; if the answer is lost the session is orphaned.
New(s) ==
  /\ Create(s)
  /\ \/ chat' = [chat EXCEPT ![s] = NoSnapshot]
     \/ UNCHANGED chat
  /\ UNCHANGED <<shown, web, fetched, beside>>

\* ChatSessionsController#create, up to the POST.
Submit(t, s, form) ==
  /\ chat[s] # NoChat
  /\ Cardinality({u \in Turns : web[u] \in InFlight}) < MaxTabs
  /\ Send(t, s, form)
  /\ web' = [web EXCEPT ![t] = "posting"]
  /\ LET others == {u \in Turns : web[u] \in InFlight /\ ChatOf(u) = s} IN
       beside' = IF others = {} THEN beside ELSE beside \cup others \cup {t}
  /\ UNCHANGED <<chat, shown, fetched>>

\* 200: the estimation row; its foreign key needs the chat to be there still.
Record(t) ==
  /\ web[t] = "posting" /\ pc[t] = "answered"
  /\ \/ /\ chat[ChatOf(t)] # NoChat
        /\ shown' = [shown EXCEPT ![ChatOf(t)] = Append(@, t)]
        /\ web' = [web EXCEPT ![t] = "recorded"]
     \/ /\ chat[ChatOf(t)] = NoChat
        /\ CloseAs(t, "orphaned")
        /\ UNCHANGED shown
  /\ UNCHANGED <<vars, chat, fetched, beside>>

\* 400, 415, 422; 502 or a broken connection.
Refused(t) ==
  /\ web[t] = "posting"
  /\ \/ pc[t] = "rejected" /\ CloseAs(t, "invalid")
     \/ pc[t] \in {"failed", "lost"} /\ CloseAs(t, "unavailable")
  /\ UNCHANGED <<vars, chat, shown, fetched, beside>>

\* Destroying a chat nullifies its estimations.
Drop(s) ==
  /\ chat' = [chat EXCEPT ![s] = NoChat]
  /\ shown' = [shown EXCEPT ![s] = <<>>]

\* Mutant: any failure of the service counts as an expired session.
Expired_OnFailure(t) ==
  /\ web[t] = "posting" /\ pc[t] \in {"not_found", "failed"}
  /\ Drop(ChatOf(t))
  /\ CloseAs(t, "expired")
  /\ UNCHANGED <<vars, fetched, beside>>

\* 404: the service restarted; the mirror is dropped.
Expired(t) ==
  /\ web[t] = "posting" /\ pc[t] = "not_found"
  /\ Drop(ChatOf(t))
  /\ CloseAs(t, "expired")
  /\ UNCHANGED <<vars, fetched, beside>>

\* Faraday gives up; the service does not know.
TimesOut(t) ==
  /\ web[t] = "posting"
  /\ CloseAs(t, "timed_out")
  /\ UNCHANGED <<vars, chat, shown, fetched, beside>>

\* Mutant: the refresh is answered from what the row already holds.
Fetch_Cached(t) ==
  /\ web[t] = "recorded"
  /\ session[ChatOf(t)] # Nothing
  /\ chat[ChatOf(t)] # NoChat
  /\ fetched' = [fetched EXCEPT ![t] = chat[ChatOf(t)]]
  /\ web' = [web EXCEPT ![t] = "fetched"]
  /\ UNCHANGED <<vars, chat, shown, beside>>

\* refresh_metadata_snapshot: the GET, whose failures are swallowed.
Fetch(t) ==
  /\ web[t] = "recorded"
  /\ session[ChatOf(t)] # Nothing
  /\ fetched' = [fetched EXCEPT ![t] = Snapshot(ChatOf(t))]
  /\ web' = [web EXCEPT ![t] = "fetched"]
  /\ UNCHANGED <<vars, chat, shown, beside>>

FetchFails(t) ==
  /\ web[t] = "recorded"
  /\ CloseAs(t, "stale")
  /\ UNCHANGED <<vars, chat, shown, fetched, beside>>

\* refresh_metadata_snapshot: the update, a no-op on a deleted row.
Update(t) ==
  /\ web[t] = "fetched"
  /\ \/ /\ chat[ChatOf(t)] # NoChat
        /\ chat' = [chat EXCEPT ![ChatOf(t)] = fetched[t]]
        /\ CloseAs(t, "shown")
     \/ /\ chat[ChatOf(t)] = NoChat
        /\ CloseAs(t, "stale")
        /\ UNCHANGED chat
  /\ fetched' = [fetched EXCEPT ![t] = NoSnapshot]
  /\ UNCHANGED <<vars, shown, beside>>

\* ChatSessionsController#destroy.
Destroy(s) ==
  /\ chat[s] # NoChat
  /\ Drop(s)
  /\ UNCHANGED <<vars, web, fetched, beside>>

-----------------------------------------------------------------------------

ChatStep(t) ==
  \/ Record(t) \/ Refused(t) \/ Expired(t) \/ TimesOut(t)
  \/ Fetch(t) \/ FetchFails(t) \/ Update(t)

ServiceStep == (Restart \/ \E t \in Turns : Step(t)) /\ UNCHANGED chatVars

NextChats ==
  \/ \E s \in Sessions : New(s) \/ Destroy(s)
  \/ \E t \in Turns, s \in Sessions, form \in Forms : Submit(t, s, form)
  \/ \E t \in Turns : ChatStep(t)
  \/ ServiceStep

SpecChats == InitChats /\ [][NextChats]_<<vars, chatVars>>

-----------------------------------------------------------------------------
(* Properties.                                                             *)

\* The shape of the state; a turn count is at most one over the window.
ChatsTypeOK ==
  /\ chat \in [Sessions -> SnapshotType \cup {NoChat}]
  /\ shown \in [Sessions -> Seq(Turns)]
  /\ \A s \in Sessions : shown[s] # <<>> => chat[s] # NoChat
  /\ web \in [Turns -> {"unsent"} \cup InFlight \cup Closed]
  /\ fetched \in [Turns -> SnapshotType]
  /\ beside \subseteq Turns

Mirrored == {s \in Alive : chat[s] # NoChat}

\* While its session lives, a chat shows nothing the session did not keep, in
\* the order of the session unless tabs submitted at the same time; what the
\* session kept and the chat does not show is a turn Rails waits for or gave
\* up on; and a chat is dropped as expired only after a restart.
ChatMirrorsSession ==
  /\ \A s \in Mirrored :
       /\ Elems(shown[s]) \subseteq Elems(log[s])
       /\ \A t \in Elems(log[s]) \ Elems(shown[s]) : web[t] \in {"posting", "timed_out"}
       /\ \A i, j \in DOMAIN shown[s] : i < j /\ {shown[s][i], shown[s][j]} \cap beside = {} =>
            \E k, l \in DOMAIN log[s] : k < l /\ log[s][k] = shown[s][i] /\ log[s][l] = shown[s][j]
  /\ \A t \in Turns : web[t] = "expired" => ChatOf(t) \notin Alive

\* The panel knows of every answered turn of its session, except one whose own
\* refresh is to come, failed or was never reached, or one that was submitted
\* next to another whose older snapshot was written last.
PanelFresh ==
  \A s \in Mirrored : \A t \in Elems(log[s]) :
    pc[t] = "answered" /\ t \notin chat[s].covers =>
      web[t] \in InFlight \cup {"timed_out", "stale"} \/ t \in beside

=============================================================================
