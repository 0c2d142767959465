------------------------------ MODULE Settings ------------------------------
(***************************************************************************)
(* The runtime configuration: overrides of the .env defaults in one Redis  *)
(* hash, GET and PUT /api/v1/config/models in front of it, the Rails       *)
(* settings screen that renders the hash as a form and sends the whole     *)
(* form back, the badge of the navigation bar that caches the primary      *)
(* model, and the model calls that read the hash.                          *)
(*                                                                         *)
(* A step is a Redis command or an HTTP exchange with the code around it:  *)
(* other tabs, API clients and a restart come in between.                  *)
(***************************************************************************)
EXTENDS Naturals, Sequences, Functions

CONSTANTS
  Knobs,       \* MODEL_KEYS
  Form,        \* Ai::ModelConfig::KEYS: those on the screen, in its order
  Primary,     \* PRIMARY_MODEL
  Models,      \* AVAILABLE_MODELS
  Provider,    \* _provider_from_model
  Client,      \* the provider whose SDK a knob's calls go through, or None
  Default,     \* the model of each knob in .env
  Tabs,        \* browser tabs on the settings screen
  Pages,       \* pages of the client being rendered, with the badge in their layout
  Scripts,     \* API clients: they send the knobs they want changed
  None,        \* no override, the option "Por defecto", no model
  Blank,       \* a tab without a form
  MaxPuts,     \* bound: saves
  MaxOutages   \* bound: times that Redis goes away

Providers == {Provider[m] : m \in Models}
Clients == Tabs \cup Scripts
Options == Models \cup {None}

ASSUME SettingsConstantsOK ==
  /\ Primary \in Knobs
  /\ Form \in Seq(Knobs) /\ IsInjective(Form)
  /\ Default \in [Knobs -> Models]
  /\ Client \in [Knobs -> Providers \cup {None}]
  /\ None \notin Models \cup Providers
  /\ Tabs \cap Scripts = {}
  /\ MaxPuts \in Nat /\ MaxOutages \in Nat

VARIABLES
  redis,      \* whether Redis answers
  keys,       \* the providers with an API key in .env
  overrides,  \* the hash estimator:runtime_config
  page,       \* the option selected for each knob on a tab's form
  put,        \* the PUT of each client: knobs still to write, all its values,
              \* and the knobs whose value its user chose
  badge,      \* Rails.cache "ai:primary_model"
  fetch,      \* what a page being rendered has read for the badge
  behind,     \* history: knobs of a form another client wrote since it was rendered
  blind,      \* history: knobs whose override a form could not show
  puts, outages, restarted

vars == <<redis, keys, overrides, page, put, badge, fetch, behind, blind,
          puts, outages, restarted>>

NoPut == [todo |-> <<>>, values |-> [k \in Knobs |-> None], chosen |-> {}]

TypeOK ==
  /\ redis \in BOOLEAN /\ restarted \in BOOLEAN
  /\ keys \subseteq Providers
  /\ overrides \in [Knobs -> Options]
  /\ page \in [Tabs -> [Knobs -> Options] \cup {Blank}]
  /\ put \in [Clients -> [todo : Seq(Knobs), values : [Knobs -> Options], chosen : SUBSET Knobs]]
  /\ badge \in Options
  /\ fetch \in [Pages -> Options]
  /\ behind \in [Tabs -> SUBSET Knobs] /\ blind \in [Tabs -> SUBSET Knobs]
  /\ puts \in 0..MaxPuts /\ outages \in 0..MaxOutages

Init ==
  /\ redis = TRUE
  /\ keys \in SUBSET Providers
  /\ overrides = [k \in Knobs |-> None]
  /\ page = [t \in Tabs |-> Blank]
  /\ put = [c \in Clients |-> NoPut]
  /\ badge = None
  /\ fetch = [g \in Pages |-> None]
  /\ behind = [t \in Tabs |-> {}] /\ blind = [t \in Tabs |-> {}]
  /\ puts = 0 /\ outages = 0 /\ restarted = FALSE

Idle(c) == put[c].todo = <<>>

\* _available_models.
Available == {m \in Models : Provider[m] \in keys}

\* RuntimeModelConfig.get: an unreadable hash reads as no override.
Get(k) == IF redis THEN overrides[k] ELSE None

Effective(k) == IF Get(k) = None THEN Default[k] ELSE Get(k)

-----------------------------------------------------------------------------
(* AiSettingsController#show and the form.                                 *)

\* Mutant: the select starts at "Por defecto" whatever is in force.
X_Selected(k) == None

\* The select of a knob starts at the override, when it is among the options.
Selected(k) == IF Get(k) \in Available THEN Get(k) ELSE None

\* GET /config/models, rendered; the other state of the tab starts over.
Rendered(t) ==
  /\ page' = [page EXCEPT ![t] = [k \in Knobs |-> Selected(k)]]
  /\ behind' = [behind EXCEPT ![t] = {}]
  /\ blind' = [blind EXCEPT ![t] =
                 {k \in Knobs : ~redis \/ overrides[k] \notin Available \cup {None}}]

Show(t) ==
  /\ Idle(t)
  /\ Rendered(t)
  /\ UNCHANGED <<redis, keys, overrides, put, badge, fetch, puts, outages, restarted>>

\* update: every knob of the form travels, the one the user changed included.
Save(t, k, m) ==
  /\ Idle(t) /\ page[t] # Blank /\ puts < MaxPuts
  /\ k \in Range(Form) /\ m # page[t][k]
  /\ put' = [put EXCEPT ![t] = [todo |-> Form, values |-> [page[t] EXCEPT ![k] = m],
                                chosen |-> {k}]]
  /\ page' = [page EXCEPT ![t] = Blank]
  /\ puts' = puts + 1
  /\ UNCHANGED <<redis, keys, overrides, badge, fetch, behind, blind, outages, restarted>>

\* A partial update of the API: only the knobs present are touched.
Patch(c, ks, m) ==
  /\ Idle(c) /\ puts < MaxPuts
  /\ put' = [put EXCEPT ![c] = [todo |-> ks, values |-> [k \in Knobs |-> m], chosen |-> Range(ks)]]
  /\ puts' = puts + 1
  /\ UNCHANGED <<redis, keys, overrides, page, badge, fetch, behind, blind, outages, restarted>>

-----------------------------------------------------------------------------
(* update_models: validated as a whole, written key by key.                *)

\* Mutant: a model of the catalog is accepted without its provider's key.
X_Accepted(c) == \A k \in Range(put[c].todo) : put[c].values[k] \in Options

Accepted(c) == \A k \in Range(put[c].todo) : put[c].values[k] \in Available \cup {None}

\* 400 or 422, or 503 from the store: a tab reads the configuration again.
Refuse(c) ==
  /\ put' = [put EXCEPT ![c] = NoPut]
  /\ IF c \in Tabs THEN Rendered(c) ELSE UNCHANGED <<page, behind, blind>>
  /\ UNCHANGED <<redis, keys, overrides, badge, fetch, puts, outages, restarted>>

Reject(c) == ~Idle(c) /\ ~Accepted(c) /\ Refuse(c)

StoreDown(c) == ~Idle(c) /\ Accepted(c) /\ ~redis /\ Refuse(c)

\* RuntimeModelConfig.set of the next key; after the last one a tab drops the
\* badge and goes back to the screen.
Write(c) ==
  /\ ~Idle(c) /\ Accepted(c) /\ redis
  /\ LET k == Head(put[c].todo)
         last == Len(put[c].todo) = 1
     IN /\ overrides' = [overrides EXCEPT ![k] = put[c].values[k]]
        /\ put' = [put EXCEPT ![c] = IF last THEN NoPut ELSE [put[c] EXCEPT !.todo = Tail(put[c].todo)]]
        /\ behind' = [t \in Tabs |-> CASE t = c -> IF last THEN {} ELSE behind[t]
                                        [] t # c /\ overrides'[k] # overrides[k] -> behind[t] \cup {k}
                                        [] OTHER -> behind[t]]
        /\ blind' = IF last /\ c \in Tabs THEN [blind EXCEPT ![c] = {}] ELSE blind
        /\ badge' = IF last /\ c \in Tabs THEN None ELSE badge
  /\ UNCHANGED <<redis, keys, page, fetch, puts, outages, restarted>>

-----------------------------------------------------------------------------
(* AiSettingsHelper#current_primary_model, on every page of the client.    *)

ReadBadge(g) ==
  /\ badge = None /\ fetch[g] = None
  /\ fetch' = [fetch EXCEPT ![g] = Effective(Primary)]
  /\ UNCHANGED <<redis, keys, overrides, page, put, badge, behind, blind, puts, outages, restarted>>

StoreBadge(g) ==
  /\ fetch[g] # None
  /\ badge' = fetch[g]
  /\ fetch' = [fetch EXCEPT ![g] = None]
  /\ UNCHANGED <<redis, keys, overrides, page, put, behind, blind, puts, outages, restarted>>

\* Mutant: the entry is cached without expires_in.
X_ExpireBadge == FALSE

\* expires_in: 15 seconds.
ExpireBadge ==
  /\ badge # None
  /\ badge' = None
  /\ UNCHANGED <<redis, keys, overrides, page, put, fetch, behind, blind, puts, outages, restarted>>

-----------------------------------------------------------------------------
(* The calls that read the hash, and what happens around it.               *)

\* The wrapper picks the key of the model's provider.
Reachable(target) == Provider[target] \in keys

\* A call resolves its knob's model once; the chunkers hold one provider's client.
Served(k) ==
  LET target == Effective(k)
  IN Reachable(target) /\ Client[k] \in {None, Provider[target]}

Outage ==
  /\ redis /\ outages < MaxOutages
  /\ redis' = FALSE /\ outages' = outages + 1
  /\ UNCHANGED <<keys, overrides, page, put, badge, fetch, behind, blind, puts, restarted>>

Recover ==
  /\ ~redis /\ redis' = TRUE
  /\ UNCHANGED <<keys, overrides, page, put, badge, fetch, behind, blind, puts, outages, restarted>>

\* The service comes back with other API keys; the hash is still there, the
\* updates under way are not.
Restart(ps) ==
  /\ ~restarted
  /\ restarted' = TRUE /\ keys' = ps
  /\ put' = [c \in Clients |-> NoPut]
  /\ page' = [t \in Tabs |-> IF Idle(t) THEN page[t] ELSE Blank]
  /\ UNCHANGED <<redis, overrides, badge, fetch, behind, blind, puts, outages>>

Next ==
  \/ \E t \in Tabs : Show(t)
  \/ \E g \in Pages : ReadBadge(g) \/ StoreBadge(g)
  \/ \E t \in Tabs, k \in Knobs, m \in Options : Save(t, k, m)
  \/ \E c \in Scripts, k, l \in Knobs, m \in Options :
       Patch(c, <<k>>, m) \/ (k # l /\ Patch(c, <<k, l>>, m))
  \/ \E c \in Clients : Reject(c) \/ StoreDown(c) \/ Write(c)
  \/ ExpireBadge \/ Outage \/ Recover
  \/ \E ps \in SUBSET Providers : Restart(ps)

Spec == Init /\ [][Next]_vars

\* Handlers run on, pages get rendered and time passes; Redis comes back.
Fairness ==
  /\ \A c \in Clients : WF_vars(Reject(c) \/ StoreDown(c) \/ Write(c))
  /\ \A g \in Pages : WF_vars(StoreBadge(g))
  /\ WF_vars(ExpireBadge) /\ WF_vars(Recover)

FairSpec == Spec /\ Fairness

-----------------------------------------------------------------------------
(* Properties.                                                             *)

\* A save changes the override of a knob its user chose; it changes another
\* one only where its form was behind: somebody wrote the knob after the form
\* was rendered, or the form could not show its override (the store was
\* unreadable, or the override is no longer on offer).  The controller sends
\* every knob on each save (ai_settings_controller.rb:31).
OnlyChosen ==
  [][\A k \in Knobs : overrides'[k] # overrides[k] =>
       \E c \in Clients :
         /\ ~Idle(c) /\ Head(put[c].todo) = k
         /\ k \in put[c].chosen \/ (c \in Tabs /\ k \in behind[c] \cup blind[c])]_vars

\* An override leads calls to a model they can reach, because PUT checks the key
\* of its provider: except that the two chunkers are bound to one SDK whatever
\* the knob says, and that nothing checks again after a restart (config.py:207).
OverridesServed ==
  \A k \in Knobs : Get(k) # None => Served(k) \/ Client[k] # None \/ restarted

\* When the saves are over the badge ends up, and stays, showing the primary
\* model in use, whatever page had read an older one when the entry was dropped
\* (ai_settings_helper.rb:6).
BadgeCatchesUp == <>[](badge \in {None, Effective(Primary)})
=============================================================================
