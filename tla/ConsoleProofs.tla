---------------------------- MODULE ConsoleProofs ----------------------------
(***************************************************************************)
(* What the consoles of the Rails client keep, proved with TLAPS: Settings *)
(* for every catalog, set of knobs, form, number of tabs, clients and      *)
(* pages, and number of saves and outages; AgentProfiles for every finite  *)
(* set of rows and every set of concurrent saves and deletions;            *)
(* StageToggles for every sequence of toggles, their values in .env, and   *)
(* every set of writers and number of outages.  They share no state and no *)
(* lemma: one part is about each, in that order.                           *)
(***************************************************************************)
EXTENDS Settings, AgentProfiles, StageToggles, FiniteSetTheorems, WellFoundedInduction, TLAPS

-----------------------------------------------------------------------------
(* Settings.                                                               *)

Put == [todo : Seq(Knobs), values : [Knobs -> Options], chosen : SUBSET Knobs]

\* The options of the form and of the API.
LEMMA OptionFacts ==
  /\ None \in Options /\ Available \subseteq Models /\ Models \subseteq Options
  /\ Form \in Seq(Knobs)
  /\ NoPut \in Put
  /\ \A k \in Knobs : Default[k] \in Options
<1>1. None \in Options /\ Models \subseteq Options
  BY DEF Options
<1>2. NoPut \in Put
  BY <1>1 DEF NoPut, Put
<1> QED
  BY <1>1, <1>2, SettingsConstantsOK DEF Available, Options

\* What a knob shows and what it resolves to are options.
LEMMA ReadFacts ==
  ASSUME TypeOK, NEW k \in Knobs
  PROVE  Get(k) \in Options /\ Selected(k) \in Options /\ Effective(k) \in Options
<1>1. Get(k) \in Options
  BY OptionFacts DEF Get, TypeOK
<1> QED
  BY <1>1, OptionFacts DEF Selected, Effective

\* The elements of a sequence of knobs.
LEMMA Elements ==
  ASSUME NEW s \in Seq(Knobs), s # <<>>
  PROVE  /\ Head(s) \in Knobs /\ Tail(s) \in Seq(Knobs)
         /\ Head(s) \in Range(s) /\ Range(Tail(s)) \subseteq Range(s)
         /\ Range(s) \subseteq Knobs
<1>1. 1 \in DOMAIN s /\ Head(s) = s[1]
  OBVIOUS
<1>2. \A i \in DOMAIN Tail(s) : i + 1 \in DOMAIN s /\ Tail(s)[i] = s[i + 1]
  OBVIOUS
<1> QED
  BY <1>1, <1>2 DEF Range

LEMMA Elements2 ==
  /\ \A k \in Knobs : <<k>> \in Seq(Knobs) /\ Range(<<k>>) \subseteq Knobs
  /\ \A k, l \in Knobs : <<k, l>> \in Seq(Knobs) /\ Range(<<k, l>>) \subseteq Knobs
  /\ Range(Form) \subseteq Knobs
  BY OptionFacts DEF Range

-----------------------------------------------------------------------------
(* Type correctness.                                                       *)

LEMMA InitTypeOK == Init => TypeOK
<1> SUFFICES ASSUME Init PROVE TypeOK
  OBVIOUS
<1>1. put \in [Clients -> Put]
  BY OptionFacts DEF Init
<1>2. overrides \in [Knobs -> Options] /\ badge \in Options /\ fetch \in [Pages -> Options]
  BY OptionFacts DEF Init
<1>3. /\ page \in [Tabs -> [Knobs -> Options] \cup {Blank}]
      /\ behind \in [Tabs -> SUBSET Knobs] /\ blind \in [Tabs -> SUBSET Knobs]
  BY DEF Init
<1>4. puts \in 0..MaxPuts /\ outages \in 0..MaxOutages
  BY SettingsConstantsOK DEF Init
<1> QED
  BY <1>1, <1>2, <1>3, <1>4 DEF Init, TypeOK, Put

LEMMA RenderedTypeOK ==
  ASSUME TypeOK, NEW t \in Tabs, Rendered(t)
  PROVE  /\ page' \in [Tabs -> [Knobs -> Options] \cup {Blank}]
         /\ behind' \in [Tabs -> SUBSET Knobs] /\ blind' \in [Tabs -> SUBSET Knobs]
<1>1. [k \in Knobs |-> Selected(k)] \in [Knobs -> Options]
  BY ReadFacts
<1> QED
  BY <1>1 DEF Rendered, TypeOK

LEMMA SaveTypeOK ==
  ASSUME TypeOK, NEW t \in Tabs, NEW k \in Knobs, NEW m \in Options, Save(t, k, m)
  PROVE  TypeOK'
<1>1. t \in Clients /\ page[t] \in [Knobs -> Options]
  BY DEF Save, TypeOK, Clients
<1>2. [todo |-> Form, values |-> [page[t] EXCEPT ![k] = m], chosen |-> {k}] \in Put
  BY <1>1, OptionFacts DEF Put
<1>3. put' \in [Clients -> Put]
  BY <1>2 DEF Save, TypeOK, Put
<1>4. page' \in [Tabs -> [Knobs -> Options] \cup {Blank}]
  BY DEF Save, TypeOK
<1>5. puts' \in 0..MaxPuts
  BY SettingsConstantsOK DEF Save, TypeOK
<1> QED
  BY <1>3, <1>4, <1>5 DEF Save, TypeOK, Put

LEMMA PatchTypeOK ==
  ASSUME TypeOK, NEW c \in Clients, NEW s \in Seq(Knobs), Range(s) \subseteq Knobs,
         NEW m \in Options, Patch(c, s, m)
  PROVE  TypeOK'
<1>1. [todo |-> s, values |-> [k \in Knobs |-> m], chosen |-> Range(s)] \in Put
  BY DEF Put
<1>2. put' \in [Clients -> Put]
  BY <1>1 DEF Patch, TypeOK, Put
<1>3. puts' \in 0..MaxPuts
  BY SettingsConstantsOK DEF Patch, TypeOK
<1> QED
  BY <1>2, <1>3 DEF Patch, TypeOK, Put

LEMMA RefuseTypeOK ==
  ASSUME TypeOK, NEW c \in Clients, Refuse(c)
  PROVE  TypeOK'
<1>1. put' \in [Clients -> Put]
  BY OptionFacts DEF Refuse, TypeOK, Put
<1>2. /\ page' \in [Tabs -> [Knobs -> Options] \cup {Blank}]
      /\ behind' \in [Tabs -> SUBSET Knobs] /\ blind' \in [Tabs -> SUBSET Knobs]
  <2>1. CASE c \in Tabs
    BY <2>1, RenderedTypeOK DEF Refuse
  <2>2. CASE c \notin Tabs
    BY <2>2 DEF Refuse, TypeOK
  <2> QED BY <2>1, <2>2
<1> QED
  BY <1>1, <1>2 DEF Refuse, TypeOK, Put

LEMMA WriteTypeOK ==
  ASSUME TypeOK, NEW c \in Clients, Write(c)
  PROVE  TypeOK'
<1>1. put[c] \in Put
  BY DEF TypeOK, Put
<1>2. put[c].todo \in Seq(Knobs) /\ put[c].todo # <<>> /\ put[c].values \in [Knobs -> Options]
  BY <1>1 DEF Put, Write, Idle
<1>3. Head(put[c].todo) \in Knobs /\ Tail(put[c].todo) \in Seq(Knobs)
  BY <1>2, Elements
<1>4. overrides' \in [Knobs -> Options]
  BY <1>2, <1>3 DEF Write, TypeOK
<1>5. [put[c] EXCEPT !.todo = Tail(put[c].todo)] \in Put
  BY <1>1, <1>3 DEF Put
<1>6. put' \in [Clients -> Put]
  <2>1. put \in [Clients -> Put]
    BY DEF TypeOK, Put
  <2>2. put' = [put EXCEPT ![c] = IF Len(put[c].todo) = 1 THEN NoPut
                                   ELSE [put[c] EXCEPT !.todo = Tail(put[c].todo)]]
    BY DEF Write
  <2> QED BY <1>5, <2>1, <2>2, OptionFacts
<1>7. behind' \in [Tabs -> SUBSET Knobs]
  <2>1. \A t \in Tabs : behind'[t] \in SUBSET Knobs
    BY <1>3 DEF Write, TypeOK
  <2>2. behind' = [t \in Tabs |-> behind'[t]]
    BY DEF Write
  <2> QED BY <2>1, <2>2
<1>8. blind' \in [Tabs -> SUBSET Knobs]
  <2>1. blind' = [blind EXCEPT ![c] = {}] \/ blind' = blind
    BY DEF Write
  <2> QED BY <2>1 DEF TypeOK
<1>9. badge' \in Options
  <2>1. badge' = None \/ badge' = badge
    BY DEF Write
  <2> QED BY <2>1, OptionFacts DEF TypeOK
<1> QED
  BY <1>4, <1>6, <1>7, <1>8, <1>9 DEF Write, TypeOK, Put

LEMMA NextTypeOK ==
  ASSUME TypeOK, [Next]_vars
  PROVE  TypeOK'
<1>1. CASE \E t \in Tabs : Show(t)
  BY <1>1, RenderedTypeOK DEF Show, TypeOK
<1>2. CASE \E g \in Pages : ReadBadge(g)
  <2>1. Effective(Primary) \in Options
    BY ReadFacts, SettingsConstantsOK
  <2> QED BY <1>2, <2>1 DEF ReadBadge, TypeOK
<1>3. CASE \E g \in Pages : StoreBadge(g)
  BY <1>3, OptionFacts DEF StoreBadge, TypeOK
<1>4. CASE \E t \in Tabs, k \in Knobs, m \in Options : Save(t, k, m)
  BY <1>4, SaveTypeOK
<1>5. CASE \E c \in Scripts, k, l \in Knobs, m \in Options :
             Patch(c, <<k>>, m) \/ (k # l /\ Patch(c, <<k, l>>, m))
  <2>1. PICK c \in Scripts, k \in Knobs, l \in Knobs, m \in Options :
               Patch(c, <<k>>, m) \/ Patch(c, <<k, l>>, m)
    BY <1>5
  <2>2. c \in Clients
    BY DEF Clients
  <2>3. CASE Patch(c, <<k>>, m)
    BY <2>2, <2>3, Elements2, PatchTypeOK
  <2>4. CASE Patch(c, <<k, l>>, m)
    BY <2>2, <2>4, Elements2, PatchTypeOK
  <2> QED BY <2>1, <2>3, <2>4
<1>6. CASE \E c \in Clients : Reject(c) \/ StoreDown(c)
  BY <1>6, RefuseTypeOK DEF Reject, StoreDown
<1>7. CASE \E c \in Clients : Write(c)
  BY <1>7, WriteTypeOK
<1>8. CASE ExpireBadge
  BY <1>8, OptionFacts DEF ExpireBadge, TypeOK
<1>9. CASE Outage \/ Recover
  <2>1. redis' \in BOOLEAN
    BY <1>9 DEF Outage, Recover
  <2>2. outages' \in 0..MaxOutages
    BY <1>9, SettingsConstantsOK DEF Outage, Recover, TypeOK
  <2>3. UNCHANGED <<keys, overrides, page, put, badge, fetch, behind, blind, puts, restarted>>
    BY <1>9 DEF Outage, Recover
  <2> QED BY <2>1, <2>2, <2>3 DEF TypeOK
<1>10. CASE \E ps \in SUBSET Providers : Restart(ps)
  <2>1. put' \in [Clients -> Put]
    BY <1>10, OptionFacts DEF Restart
  <2>2. page' \in [Tabs -> [Knobs -> Options] \cup {Blank}]
    BY <1>10 DEF Restart, TypeOK
  <2> QED BY <1>10, <2>1, <2>2 DEF Restart, TypeOK, Put
<1>11. CASE UNCHANGED vars
  BY <1>11 DEF vars, TypeOK
<1> QED
  BY <1>1, <1>2, <1>3, <1>4, <1>5, <1>6, <1>7, <1>8, <1>9, <1>10, <1>11 DEF Next

\* Type correctness, for every value of the constants.
THEOREM TypeCorrect == Spec => []TypeOK
<1>1. Init => TypeOK
  BY InitTypeOK
<1>2. TypeOK /\ [Next]_vars => TypeOK'
  BY NextTypeOK
<1> QED
  BY <1>1, <1>2, PTL DEF Spec

-----------------------------------------------------------------------------
(* What the overrides lead to.                                             *)

\* Until a restart the keys are those the overrides were validated against.
Validated == ~restarted => \A k \in Knobs : overrides[k] \in Available \cup {None}

LEMMA ValidatedServes == TypeOK /\ Validated => OverridesServed
<1> SUFFICES ASSUME TypeOK, Validated, NEW k \in Knobs, Get(k) # None,
                    Client[k] = None, ~restarted
             PROVE  Served(k)
  BY DEF OverridesServed
<1>1. Get(k) = overrides[k] /\ overrides[k] \in Available
  BY DEF Get, Validated
<1>2. Effective(k) = overrides[k]
  BY <1>1 DEF Effective
<1> QED
  BY <1>1, <1>2 DEF Served, Reachable, Available

LEMMA WriteValidated ==
  ASSUME TypeOK, Validated, NEW c \in Clients, Write(c)
  PROVE  Validated'
<1>1. put[c] \in Put
  BY DEF TypeOK, Put
<1>2. put[c].todo \in Seq(Knobs) /\ put[c].todo # <<>>
  BY <1>1 DEF Put, Write, Idle
<1>3. Head(put[c].todo) \in Range(put[c].todo)
  BY <1>2, Elements
<1>4. put[c].values[Head(put[c].todo)] \in Available \cup {None}
  BY <1>3 DEF Write, Accepted
<1>5. Available' = Available /\ restarted' = restarted
  BY DEF Write, Available
<1>6. overrides' = [overrides EXCEPT ![Head(put[c].todo)] = put[c].values[Head(put[c].todo)]]
  BY DEF Write
<1> QED
  BY <1>4, <1>5, <1>6 DEF Validated, TypeOK

LEMMA NextValidated ==
  ASSUME TypeOK, Validated, [Next]_vars
  PROVE  Validated'
<1>1. CASE \E c \in Clients : Write(c)
  BY <1>1, WriteValidated
<1>2. CASE \E ps \in SUBSET Providers : Restart(ps)
  BY <1>2 DEF Restart, Validated
<1>3. CASE UNCHANGED <<overrides, keys, restarted>>
  BY <1>3 DEF Validated, Available
<1>4. UNCHANGED <<overrides, keys, restarted>> \/ (\E c \in Clients : Write(c))
        \/ (\E ps \in SUBSET Providers : Restart(ps))
  BY DEF Next, vars, Show, ReadBadge, StoreBadge, Save, Patch, Reject, StoreDown, Refuse,
         ExpireBadge, Outage, Recover
<1> QED
  BY <1>1, <1>2, <1>3, <1>4

\* Whoever wrote it, an override leads to a model that can be reached, except
\* after a restart and for the knobs whose calls go through one provider's SDK.
THEOREM ServedOverrides == Spec => []OverridesServed
<1>1. Init => TypeOK /\ Validated
  BY InitTypeOK DEF Init, Validated
<1>2. TypeOK /\ Validated /\ [Next]_vars => TypeOK' /\ Validated'
  BY NextTypeOK, NextValidated
<1> QED
  BY <1>1, <1>2, ValidatedServes, PTL DEF Spec

-----------------------------------------------------------------------------
(* What a save may change.                                                 *)

Excused(t) == behind[t] \cup blind[t]

\* A form shows what is in force, or is known to be behind.
FormSound(t) ==
  page[t] # Blank =>
    Idle(t) /\ \A k \in Knobs : page[t][k] = overrides[k] \/ k \in Excused(t)

\* So does what is left of an update, but for the knobs its user chose.
PutSound(c) ==
  \A k \in Range(put[c].todo) :
    k \in put[c].chosen \/ (c \in Tabs /\ (put[c].values[k] = overrides[k] \/ k \in Excused(c)))

Sound == (\A t \in Tabs : FormSound(t)) /\ (\A c \in Clients : PutSound(c))

SInv == TypeOK /\ Sound

LEMMA NoPutSound ==
  Range(NoPut.todo) = {} /\ NoPut.todo = <<>>
  BY DEF NoPut, Range

LEMMA InitSound == Init => Sound
<1> SUFFICES ASSUME Init PROVE Sound
  OBVIOUS
<1>1. \A t \in Tabs : page[t] = Blank
  BY DEF Init
<1>2. \A c \in Clients : put[c] = NoPut
  BY DEF Init
<1> QED
  BY <1>1, <1>2, NoPutSound DEF Sound, FormSound, PutSound

\* A form that was just rendered.
LEMMA RenderedSound ==
  ASSUME SInv, NEW t \in Tabs, Rendered(t), overrides' = overrides, Idle(t)'
  PROVE  FormSound(t)'
<1> SUFFICES ASSUME NEW k \in Knobs
             PROVE  page'[t][k] = overrides[k] \/ k \in behind'[t] \cup blind'[t]
  BY DEF FormSound, Excused
<1>1. page'[t][k] = Selected(k)
  BY DEF Rendered, SInv, TypeOK
<1>2. blind'[t] = {l \in Knobs : ~redis \/ overrides[l] \notin Available \cup {None}}
  BY DEF Rendered, SInv, TypeOK
<1>3. CASE redis /\ overrides[k] \in Available \cup {None}
  BY <1>1, <1>3 DEF Selected, Get
<1>4. CASE ~redis \/ overrides[k] \notin Available \cup {None}
  BY <1>2, <1>4
<1> QED
  BY <1>3, <1>4

\* A step that leaves alone what Sound says of a tab or a client.
LEMMA FormKept ==
  ASSUME SInv, NEW t \in Tabs, overrides' = overrides,
         page'[t] = page[t], behind'[t] = behind[t], blind'[t] = blind[t],
         Idle(t) => Idle(t)'
  PROVE  FormSound(t)'
  BY DEF SInv, Sound, FormSound, Excused

LEMMA PutKept ==
  ASSUME SInv, NEW c \in Clients, overrides' = overrides, put'[c] = put[c],
         c \in Tabs => behind'[c] = behind[c] /\ blind'[c] = blind[c]
  PROVE  PutSound(c)'
  BY DEF SInv, Sound, PutSound, Excused

LEMMA IdleSound ==
  ASSUME NEW c \in Clients, put'[c] = NoPut
  PROVE  PutSound(c)' /\ Idle(c)'
  BY NoPutSound DEF PutSound, Idle

LEMMA ShowSound ==
  ASSUME SInv, NEW t \in Tabs, Show(t)
  PROVE  Sound'
<1>1. put' = put /\ overrides' = overrides /\ Rendered(t) /\ Idle(t)
  BY DEF Show
<1>2. Idle(t)'
  BY <1>1 DEF Idle
<1>3. \A u \in Tabs : u # t => page'[u] = page[u] /\ behind'[u] = behind[u] /\ blind'[u] = blind[u]
  BY <1>1 DEF Rendered, SInv, TypeOK
<1>4. \A u \in Tabs : FormSound(u)'
  <2> SUFFICES ASSUME NEW u \in Tabs PROVE FormSound(u)'
    OBVIOUS
  <2>1. CASE u = t
    BY <2>1, <1>1, <1>2, RenderedSound
  <2>2. CASE u # t
    <3>1. Idle(u) => Idle(u)'
      BY <1>1 DEF Idle
    <3> QED BY <2>2, <3>1, <1>1, <1>3, FormKept
  <2> QED BY <2>1, <2>2
<1>5. \A c \in Clients : PutSound(c)'
  <2> SUFFICES ASSUME NEW c \in Clients PROVE PutSound(c)'
    OBVIOUS
  <2>1. CASE c = t
    BY <2>1, <1>1 DEF Idle, PutSound, Range
  <2>2. CASE c # t
    BY <2>2, <1>1, <1>3, PutKept
  <2> QED BY <2>1, <2>2
<1> QED
  BY <1>4, <1>5 DEF Sound

LEMMA SaveSound ==
  ASSUME SInv, NEW t \in Tabs, NEW k \in Knobs, NEW m \in Options, Save(t, k, m)
  PROVE  Sound'
<1>1. UNCHANGED <<overrides, behind, blind>>
  BY DEF Save
<1>2. t \in Clients
  BY DEF Clients
<1>3. page'[t] = Blank /\ \A u \in Tabs : u # t => page'[u] = page[u]
  BY DEF Save, SInv, TypeOK
<1>4. \A c \in Clients : c # t => put'[c] = put[c]
  BY DEF Save, SInv, TypeOK
<1>5. put'[t] = [todo |-> Form, values |-> [page[t] EXCEPT ![k] = m], chosen |-> {k}]
  BY <1>2 DEF Save, SInv, TypeOK
<1>6. page[t] \in [Knobs -> Options] /\ page[t] # Blank
  BY DEF Save, SInv, TypeOK
<1>7. \A u \in Tabs : FormSound(u)'
  <2> SUFFICES ASSUME NEW u \in Tabs PROVE FormSound(u)'
    OBVIOUS
  <2>1. CASE u = t
    BY <2>1, <1>3 DEF FormSound
  <2>2. CASE u # t
    <3>1. Idle(u) => Idle(u)'
      BY <2>2, <1>4 DEF Idle, Clients
    <3> QED BY <2>2, <3>1, <1>1, <1>3, FormKept
  <2> QED BY <2>1, <2>2
<1>8. PutSound(t)'
  <2> SUFFICES ASSUME NEW l \in Range(Form), l # k
               PROVE  [page[t] EXCEPT ![k] = m][l] = overrides[l] \/ l \in Excused(t)
    BY <1>1, <1>5 DEF PutSound, Excused
  <2>1. l \in Knobs /\ [page[t] EXCEPT ![k] = m][l] = page[t][l]
    BY <1>6, Elements2
  <2>2. page[t][l] = overrides[l] \/ l \in Excused(t)
    BY <2>1, <1>6 DEF SInv, Sound, FormSound
  <2> QED BY <2>1, <2>2
<1>9. \A c \in Clients : PutSound(c)'
  <2> SUFFICES ASSUME NEW c \in Clients PROVE PutSound(c)'
    OBVIOUS
  <2>1. CASE c = t
    BY <2>1, <1>8
  <2>2. CASE c # t
    BY <2>2, <1>1, <1>4, PutKept
  <2> QED BY <2>1, <2>2
<1> QED
  BY <1>7, <1>9 DEF Sound

LEMMA PatchSound ==
  ASSUME SInv, NEW c \in Scripts, NEW s, NEW m, Patch(c, s, m)
  PROVE  Sound'
<1>1. UNCHANGED <<overrides, page, behind, blind>>
  BY DEF Patch
<1>2. c \in Clients /\ c \notin Tabs
  BY SettingsConstantsOK DEF Clients
<1>3. \A d \in Clients : d # c => put'[d] = put[d]
  BY DEF Patch, SInv, TypeOK
<1>4. put'[c] = [todo |-> s, values |-> [k \in Knobs |-> m], chosen |-> Range(s)]
  BY <1>2 DEF Patch, SInv, TypeOK
<1>5. \A t \in Tabs : FormSound(t)'
  <2> SUFFICES ASSUME NEW t \in Tabs PROVE FormSound(t)'
    OBVIOUS
  <2>1. Idle(t) => Idle(t)'
    BY <1>2, <1>3 DEF Idle, Clients
  <2> QED BY <2>1, <1>1, FormKept
<1>6. \A d \in Clients : PutSound(d)'
  <2> SUFFICES ASSUME NEW d \in Clients PROVE PutSound(d)'
    OBVIOUS
  <2>1. CASE d = c
    BY <2>1, <1>4 DEF PutSound
  <2>2. CASE d # c
    BY <2>2, <1>1, <1>3, PutKept
  <2> QED BY <2>1, <2>2
<1> QED
  BY <1>5, <1>6 DEF Sound

LEMMA RefuseSound ==
  ASSUME SInv, NEW c \in Clients, Refuse(c)
  PROVE  Sound'
<1>1. overrides' = overrides
  BY DEF Refuse
<1>2. put'[c] = NoPut /\ \A d \in Clients : d # c => put'[d] = put[d]
  BY DEF Refuse, SInv, TypeOK
<1>3. \A t \in Tabs : t # c =>
        page'[t] = page[t] /\ behind'[t] = behind[t] /\ blind'[t] = blind[t]
  BY DEF Refuse, Rendered, SInv, TypeOK
<1>4. \A t \in Tabs : FormSound(t)'
  <2> SUFFICES ASSUME NEW t \in Tabs PROVE FormSound(t)'
    OBVIOUS
  <2>1. CASE t = c
    <3>1. Rendered(c) /\ Idle(c)'
      BY <2>1, <1>2, IdleSound DEF Refuse
    <3> QED BY <2>1, <3>1, <1>1, RenderedSound
  <2>2. CASE t # c
    <3>1. Idle(t) => Idle(t)'
      BY <2>2, <1>2 DEF Idle, Clients
    <3> QED BY <2>2, <3>1, <1>1, <1>3, FormKept
  <2> QED BY <2>1, <2>2
<1>5. \A d \in Clients : PutSound(d)'
  <2> SUFFICES ASSUME NEW d \in Clients PROVE PutSound(d)'
    OBVIOUS
  <2>1. CASE d = c
    BY <2>1, <1>2, IdleSound
  <2>2. CASE d # c
    BY <2>2, <1>1, <1>2, <1>3, PutKept
  <2> QED BY <2>1, <2>2
<1> QED
  BY <1>4, <1>5 DEF Sound

\* The knob that an update writes next was chosen, or shown as it is, or its
\* form is behind.
LEMMA WriteJustified ==
  ASSUME SInv, NEW c \in Clients, Write(c)
  PROVE  LET k == Head(put[c].todo) IN
         /\ k \in Knobs /\ k \in Range(put[c].todo)
         /\ overrides' = [overrides EXCEPT ![k] = put[c].values[k]]
         /\ k \in put[c].chosen \/ overrides'[k] = overrides[k]
              \/ (c \in Tabs /\ k \in Excused(c))
<1> DEFINE k == Head(put[c].todo)
<1>1. put[c].todo \in Seq(Knobs) /\ put[c].todo # <<>>
  BY DEF Write, Idle, SInv, TypeOK
<1>2. k \in Knobs /\ k \in Range(put[c].todo)
  BY <1>1, Elements
<1>3. overrides' = [overrides EXCEPT ![k] = put[c].values[k]]
  BY DEF Write
<1>4. overrides'[k] = put[c].values[k]
  BY <1>2, <1>3 DEF SInv, TypeOK
<1>5. k \in put[c].chosen \/ (c \in Tabs /\ (put[c].values[k] = overrides[k] \/ k \in Excused(c)))
  BY <1>2 DEF SInv, Sound, PutSound
<1> QED
  BY <1>2, <1>3, <1>4, <1>5

\* What a write of another client's does to the excuses of a tab.
LEMMA WriteExcuses ==
  ASSUME SInv, NEW c \in Clients, Write(c), NEW t \in Tabs, t # c
  PROVE  /\ blind'[t] = blind[t] /\ behind[t] \subseteq behind'[t]
         /\ overrides'[Head(put[c].todo)] # overrides[Head(put[c].todo)] =>
              Head(put[c].todo) \in behind'[t]
<1>1. behind'[t] = IF overrides'[Head(put[c].todo)] # overrides[Head(put[c].todo)]
                   THEN behind[t] \cup {Head(put[c].todo)} ELSE behind[t]
  BY DEF Write
<1>2. blind' = [blind EXCEPT ![c] = {}] \/ blind' = blind
  BY DEF Write
<1>3. blind'[t] = blind[t]
  BY <1>2 DEF SInv, TypeOK
<1> QED
  BY <1>1, <1>3

LEMMA WriteSound ==
  ASSUME SInv, NEW c \in Clients, Write(c)
  PROVE  Sound'
<1> DEFINE k == Head(put[c].todo)
<1>1. /\ k \in Knobs /\ k \in Range(put[c].todo)
      /\ overrides' = [overrides EXCEPT ![k] = put[c].values[k]]
  BY WriteJustified
<1>2. overrides \in [Knobs -> Options] /\ put[c].todo \in Seq(Knobs) /\ put[c].todo # <<>>
  BY DEF Write, Idle, SInv, TypeOK
<1>3. \A l \in Knobs : l # k => overrides'[l] = overrides[l]
  BY <1>1, <1>2
<1>4. overrides'[k] = put[c].values[k]
  BY <1>1, <1>2
<1>5. \A d \in Clients : d # c => put'[d] = put[d]
  BY DEF Write, SInv, TypeOK
<1>6. put' = [put EXCEPT ![c] = IF Len(put[c].todo) = 1 THEN NoPut
                                ELSE [put[c] EXCEPT !.todo = Tail(put[c].todo)]]
  BY DEF Write
<1>7. put'[c] = IF Len(put[c].todo) = 1 THEN NoPut
                ELSE [put[c] EXCEPT !.todo = Tail(put[c].todo)]
  BY <1>6 DEF SInv, TypeOK
<1>8. page' = page
  BY DEF Write
<1>9. ASSUME NEW t \in Tabs, t # c, NEW v, NEW l \in Knobs,
             v = overrides[l] \/ l \in Excused(t)
      PROVE  v = overrides'[l] \/ l \in Excused(t)'
  <2>1. l \in Excused(t) => l \in Excused(t)'
    BY <1>9, WriteExcuses DEF Excused
  <2>2. CASE overrides'[l] = overrides[l]
    BY <1>9, <2>1, <2>2
  <2>3. CASE overrides'[l] # overrides[l]
    BY <1>3, <1>9, <2>3, WriteExcuses DEF Excused
  <2> QED BY <2>2, <2>3
<1> HIDE DEF k
<1>10. \A t \in Tabs : FormSound(t)'
  <2> SUFFICES ASSUME NEW t \in Tabs, page[t] # Blank
               PROVE  Idle(t)' /\ \A l \in Knobs : page[t][l] = overrides'[l] \/ l \in Excused(t)'
    BY <1>8 DEF FormSound
  <2>1. Idle(t) /\ \A l \in Knobs : page[t][l] = overrides[l] \/ l \in Excused(t)
    BY DEF SInv, Sound, FormSound
  <2>2. t # c
    BY <2>1 DEF Write
  <2>3. Idle(t)'
    BY <2>1, <2>2, <1>5 DEF Idle, Clients
  <2> QED BY <2>1, <2>2, <2>3, <1>9
<1>11. PutSound(c)'
  <2>1. CASE Len(put[c].todo) = 1
    BY <2>1, <1>7, IdleSound
  <2>2. CASE Len(put[c].todo) # 1
    <3>1. put'[c] = [put[c] EXCEPT !.todo = Tail(put[c].todo)]
      BY <2>2, <1>7
    <3>2. /\ put'[c].todo = Tail(put[c].todo) /\ put'[c].values = put[c].values
          /\ put'[c].chosen = put[c].chosen
      BY <3>1 DEF SInv, TypeOK
    <3>3. Range(put'[c].todo) \subseteq Range(put[c].todo) /\ Range(put[c].todo) \subseteq Knobs
      BY <1>2, <3>2, Elements
    <3>4. c \in Tabs => Excused(c)' = Excused(c)
      BY <2>2 DEF Write, Excused
    <3>5. ASSUME NEW l \in Range(put'[c].todo)
          PROVE  l \in put[c].chosen
                   \/ (c \in Tabs /\ (put[c].values[l] = overrides'[l] \/ l \in Excused(c)))
      <4>1. l \in put[c].chosen
              \/ (c \in Tabs /\ (put[c].values[l] = overrides[l] \/ l \in Excused(c)))
        BY <3>3 DEF SInv, Sound, PutSound
      <4>2. l \in Knobs
        BY <3>3
      <4> QED BY <4>1, <4>2, <1>3, <1>4, WriteJustified DEF k
    <3> QED BY <3>2, <3>4, <3>5 DEF PutSound
  <2> QED BY <2>1, <2>2
<1>12. \A d \in Clients : PutSound(d)'
  <2> SUFFICES ASSUME NEW d \in Clients, d # c PROVE PutSound(d)'
    BY <1>11
  <2> SUFFICES ASSUME NEW l \in Range(put[d].todo), l \notin put[d].chosen
               PROVE  d \in Tabs /\ (put[d].values[l] = overrides'[l] \/ l \in Excused(d)')
    BY <1>5 DEF PutSound
  <2>1. d \in Tabs /\ (put[d].values[l] = overrides[l] \/ l \in Excused(d))
    BY DEF SInv, Sound, PutSound
  <2>2. put[d].todo \in Seq(Knobs)
    BY DEF SInv, TypeOK
  <2>3. l \in Knobs
    BY <2>2 DEF Range
  <2> QED BY <2>1, <2>3, <1>9
<1> QED
  BY <1>10, <1>12 DEF Sound

LEMMA RestartSound ==
  ASSUME SInv, NEW ps \in SUBSET Providers, Restart(ps)
  PROVE  Sound'
<1>1. \A c \in Clients : put'[c] = NoPut
  BY DEF Restart
<1>2. UNCHANGED <<overrides, behind, blind>>
  BY DEF Restart
<1>3. \A t \in Tabs : FormSound(t)'
  <2> SUFFICES ASSUME NEW t \in Tabs PROVE FormSound(t)'
    OBVIOUS
  <2>1. Idle(t)'
    BY <1>1, IdleSound DEF Clients
  <2>2. page'[t] = page[t] \/ page'[t] = Blank
    BY DEF Restart
  <2> QED BY <1>2, <2>1, <2>2 DEF SInv, Sound, FormSound, Excused
<1> QED
  BY <1>1, <1>3, IdleSound DEF Sound

LEMMA NextSound ==
  ASSUME SInv, [Next]_vars
  PROVE  Sound'
<1>1. CASE \E t \in Tabs : Show(t)
  BY <1>1, ShowSound
<1>2. CASE \E t \in Tabs, k \in Knobs, m \in Options : Save(t, k, m)
  BY <1>2, SaveSound
<1>3. CASE \E c \in Scripts : \E s, m : Patch(c, s, m)
  BY <1>3, PatchSound
<1>4. CASE \E c \in Clients : Refuse(c)
  BY <1>4, RefuseSound
<1>5. CASE \E c \in Clients : Write(c)
  BY <1>5, WriteSound
<1>6. CASE \E ps \in SUBSET Providers : Restart(ps)
  BY <1>6, RestartSound
<1>7. CASE UNCHANGED <<overrides, page, put, behind, blind>>
  BY <1>7 DEF SInv, Sound, FormSound, PutSound, Excused, Idle
<1>8. \/ UNCHANGED <<overrides, page, put, behind, blind>>
      \/ \E t \in Tabs : Show(t)
      \/ \E t \in Tabs, k \in Knobs, m \in Options : Save(t, k, m)
      \/ \E c \in Scripts : \E s, m : Patch(c, s, m)
      \/ \E c \in Clients : Refuse(c) \/ Write(c)
      \/ \E ps \in SUBSET Providers : Restart(ps)
  BY DEF Next, vars, ReadBadge, StoreBadge, Reject, StoreDown, ExpireBadge, Outage, Recover
<1> QED
  BY <1>1, <1>2, <1>3, <1>4, <1>5, <1>6, <1>7, <1>8

\* Only a write changes an override.
LEMMA OnlyWritesWrite ==
  ASSUME [Next]_vars, overrides' # overrides
  PROVE  \E c \in Clients : Write(c)
  BY DEF Next, vars, Show, ReadBadge, StoreBadge, Save, Patch, Reject, StoreDown, Refuse,
         ExpireBadge, Outage, Recover, Restart

\* A save changes the knob its user chose, or one its form was behind on.
THEOREM ChosenOnly == Spec => OnlyChosen
<1>1. Init => SInv
  BY InitTypeOK, InitSound DEF SInv
<1>2. SInv /\ [Next]_vars => SInv'
  BY NextTypeOK, NextSound DEF SInv
<1>3. SInv /\ [Next]_vars =>
        [\A k \in Knobs : overrides'[k] # overrides[k] =>
           \E c \in Clients :
             /\ ~Idle(c) /\ Head(put[c].todo) = k
             /\ k \in put[c].chosen \/ (c \in Tabs /\ k \in behind[c] \cup blind[c])]_vars
  <2> SUFFICES ASSUME SInv, [Next]_vars, NEW k \in Knobs, overrides'[k] # overrides[k]
               PROVE  \E c \in Clients :
                        /\ ~Idle(c) /\ Head(put[c].todo) = k
                        /\ k \in put[c].chosen \/ (c \in Tabs /\ k \in behind[c] \cup blind[c])
    OBVIOUS
  <2>1. PICK c \in Clients : Write(c)
    BY OnlyWritesWrite
  <2>2. Head(put[c].todo) = k
    BY <2>1, WriteJustified DEF SInv, TypeOK
  <2>3. k \in put[c].chosen \/ (c \in Tabs /\ k \in Excused(c))
    BY <2>1, <2>2, WriteJustified
  <2> QED BY <2>1, <2>2, <2>3 DEF Write, Excused
<1> QED
  BY <1>1, <1>2, <1>3, PTL DEF Spec, OnlyChosen

-----------------------------------------------------------------------------
(* AgentProfiles.                                                          *)

Tx == [at : {"idle", "found", "clear", "write", "commit", "ended"},
       op : {"create", "update", "destroy"}, id : Profiles \cup {Nobody},
       ticks : BOOLEAN, loaded : Rows, edits : BOOLEAN,
       todo : SUBSET Profiles, wants : Profiles \cup {Nobody},
       version : [Profiles -> Rows \cup {Nobody}]]

\* What a transaction knows and holds at each point of its life.
Shape(r) ==
  /\ tx[r].at \in {"idle", "found", "ended"} =>
       tx[r].wants = Nobody /\ \A p \in Profiles : tx[r].version[p] = Nobody /\ lock[p] # r
  /\ tx[r].at \in {"idle", "ended"} => ~tx[r].ticks
  /\ r \in Open => /\ tx[r].id \in Profiles
                   /\ tx[r].op = "create" => ~Exists(tx[r].id)
                   /\ tx[r].op # "create" => tx[r].loaded # "absent"
  /\ tx[r].at = "clear" => tx[r].ticks
  /\ tx[r].at # "clear" => tx[r].todo = {}
  /\ tx[r].id \notin tx[r].todo
  /\ tx[r].wants # Nobody => \/ tx[r].at = "clear" /\ tx[r].wants \in tx[r].todo
                             \/ tx[r].at = "write" /\ tx[r].wants = tx[r].id /\ tx[r].op # "create"
  /\ tx[r].op = "destroy" => ~tx[r].ticks

\* The uncommitted versions of a transaction: of its own row only at the end, of
\* the others only "plain", and of no row that somebody else could change.
Versions(r) == \A p \in Profiles : tx[r].version[p] # Nobody =>
  /\ tx[r].op # "create" \/ p # tx[r].id => lock[p] = r /\ Exists(p)
  /\ p = tx[r].id => tx[r].at = "commit" /\ (tx[r].version[p] = "default" => tx[r].ticks)
  /\ p # tx[r].id => tx[r].ticks /\ tx[r].version[p] = "plain"

\* A transaction that ticks no box holds a lock only when it has nothing left to wait for.
LateLock(r) == \A p \in Profiles : lock[p] = r /\ ~tx[r].ticks => tx[r].at = "commit"

\* Two creates under way are of two rows.
Distinct == \A r, q \in Open :
  r # q /\ tx[r].op = "create" /\ tx[q].op = "create" => tx[r].id # tx[q].id

Structure == Distinct /\ \A r \in Requests : Shape(r) /\ Versions(r) /\ LateLock(r)

-----------------------------------------------------------------------------
(* Type correctness.                                                       *)

LEMMA TypeOKFields == ProfilesTypeOK => tx \in [Requests -> Tx]
  BY DEF ProfilesTypeOK, Tx

LEMMA NoTxType == NoTx \in Tx /\ [NoTx EXCEPT !.at = "ended"] \in Tx
  BY DEF NoTx, Tx, Rows

\* Nobody else's transaction changes.
Only(r) == /\ r \in Requests
           /\ tx' \in [Requests -> Tx]
           /\ \A q \in Requests \ {r} : tx'[q] = tx[q]

LEMMA ProfilesInitTypeOK == ProfilesInit => ProfilesTypeOK
<1> SUFFICES ASSUME ProfilesInit PROVE ProfilesTypeOK
  OBVIOUS
<1>1. tx \in [Requests -> Tx]
  BY NoTxType DEF ProfilesInit
<1>2. \A r \in Requests, p \in Profiles : tx[r].version[p] = Nobody
  BY DEF ProfilesInit, NoTx
<1>3. {asked, created, stale} \subseteq BOOLEAN
  BY DEF ProfilesInit
<1>4. row \in [Profiles -> Rows] /\ lock \in [Profiles -> Requests \cup {Nobody}]
  BY DEF ProfilesInit
<1> QED
  BY <1>1, <1>2, <1>3, <1>4 DEF ProfilesTypeOK, Tx

-----------------------------------------------------------------------------
\* The parts of a transaction that only Find sets.
Request(r) == <<tx[r].op, tx[r].id, tx[r].ticks, tx[r].loaded>>

LEMMA OnlyOne ==
  ASSUME ProfilesTypeOK, NEW r \in Requests, NEW t \in Tx, tx' = [tx EXCEPT ![r] = t]
  PROVE  Only(r) /\ tx'[r] = t
  BY TypeOKFields DEF Only

LEMMA FindStep ==
  ASSUME ProfilesTypeOK, NEW r \in Requests, NEW p \in Profiles, NEW op \in {"create", "update", "destroy"},
         NEW ticks \in BOOLEAN, NEW edits \in BOOLEAN, Find(r, op, p, ticks, edits)
  PROVE  /\ Only(r)
         /\ tx'[r].at = "found" /\ tx'[r].op = op /\ tx'[r].id = p /\ tx'[r].ticks = ticks
         /\ tx'[r].loaded = row[p] /\ tx'[r].todo = {} /\ tx'[r].wants = Nobody
         /\ \A x \in Profiles : tx'[r].version[x] = Nobody
<1> DEFINE t == [NoTx EXCEPT !.at = "found", !.op = op, !.id = p, !.ticks = ticks,
                             !.loaded = row[p], !.edits = edits]
<1>1. t \in Tx
  BY NoTxType DEF Tx, ProfilesTypeOK, NoTx
<1>2. /\ t.at = "found" /\ t.op = op /\ t.id = p /\ t.ticks = ticks
      /\ t.loaded = row[p] /\ t.todo = {} /\ t.wants = Nobody
      /\ \A x \in Profiles : t.version[x] = Nobody
  BY DEF NoTx
<1>3. tx' = [tx EXCEPT ![r] = t]
  BY DEF Find
<1> HIDE DEF t
<1>4. Only(r) /\ tx'[r] = t
  BY <1>1, <1>3, OnlyOne
<1> QED
  BY <1>2, <1>4

LEMMA BeginStep ==
  ASSUME ProfilesTypeOK, NEW r \in Requests, Begin(r)
  PROVE  /\ Only(r)
         /\ Request(r)' = Request(r) /\ tx'[r].version = tx[r].version
         /\ tx'[r].wants = tx[r].wants
         /\ tx'[r].at = (IF tx[r].ticks THEN "clear" ELSE "write")
         /\ tx'[r].todo = (IF tx[r].ticks THEN {p \in Profiles \ {tx[r].id} : Exists(p)} ELSE {})
<1> DEFINE at2 == IF tx[r].ticks THEN "clear" ELSE "write"
           todo2 == IF tx[r].ticks THEN {p \in Profiles \ {tx[r].id} : Exists(p)} ELSE {}
           t == [tx[r] EXCEPT !.at = at2, !.todo = todo2]
<1>1. at2 \in {"clear", "write"} /\ todo2 \in SUBSET Profiles
  OBVIOUS
<1>2. tx' = [tx EXCEPT ![r] = t]
  BY TypeOKFields DEF Begin, Tx
<1>3. tx[r] \in Tx
  BY TypeOKFields
<1> HIDE DEF at2, todo2
<1>4. t \in Tx
  BY <1>1, <1>3 DEF Tx
<1>5. /\ t.at = at2 /\ t.todo = todo2 /\ t.wants = tx[r].wants /\ t.version = tx[r].version
      /\ t.op = tx[r].op /\ t.id = tx[r].id /\ t.ticks = tx[r].ticks /\ t.loaded = tx[r].loaded
  BY <1>3 DEF Tx
<1> HIDE DEF t
<1>6. Only(r) /\ tx'[r] = t
  BY <1>2, <1>4, OnlyOne
<1> QED
  BY <1>5, <1>6 DEF Request, at2, todo2

LEMMA EndStep ==
  ASSUME ProfilesTypeOK, NEW r \in Requests, tx' = [tx EXCEPT ![r] = [NoTx EXCEPT !.at = "ended"]]
  PROVE  /\ Only(r)
         /\ tx'[r].at = "ended" /\ tx'[r].op = "create" /\ tx'[r].id = Nobody
         /\ tx'[r].ticks = FALSE /\ tx'[r].todo = {} /\ tx'[r].wants = Nobody
         /\ \A x \in Profiles : tx'[r].version[x] = Nobody
<1> DEFINE t == [NoTx EXCEPT !.at = "ended"]
<1>1. /\ t.at = "ended" /\ t.op = "create" /\ t.id = Nobody /\ t.ticks = FALSE
      /\ t.todo = {} /\ t.wants = Nobody /\ \A x \in Profiles : t.version[x] = Nobody
  BY DEF NoTx
<1>2. t \in Tx
  BY NoTxType
<1> HIDE DEF t
<1>3. Only(r) /\ tx'[r] = t
  BY <1>2, OnlyOne DEF t
<1> QED
  BY <1>1, <1>3

\* Reach and Cleared change one field of the transaction.
LEMMA ReachStep ==
  ASSUME ProfilesTypeOK, NEW r \in Requests, NEW p \in Profiles, Reach(r, p)
  PROVE  /\ Only(r)
         /\ Request(r)' = Request(r) /\ tx'[r].version = tx[r].version
         /\ tx'[r].at = tx[r].at /\ tx'[r].todo = tx[r].todo /\ tx'[r].wants = p
<1> DEFINE t == [tx[r] EXCEPT !.wants = p]
<1>1. t \in Tx
  BY TypeOKFields DEF Tx
<1>2. /\ t.at = tx[r].at /\ t.todo = tx[r].todo /\ t.wants = p /\ t.version = tx[r].version
      /\ t.op = tx[r].op /\ t.id = tx[r].id /\ t.ticks = tx[r].ticks /\ t.loaded = tx[r].loaded
  BY TypeOKFields DEF Tx
<1>3. tx' = [tx EXCEPT ![r] = t]
  BY TypeOKFields DEF Reach, Tx
<1> HIDE DEF t
<1>4. Only(r) /\ tx'[r] = t
  BY <1>1, <1>3, OnlyOne
<1> QED
  BY <1>2, <1>4 DEF Request

LEMMA ClearedStep ==
  ASSUME ProfilesTypeOK, NEW r \in Requests, Cleared(r)
  PROVE  /\ Only(r)
         /\ Request(r)' = Request(r) /\ tx'[r].version = tx[r].version
         /\ tx'[r].at = "write" /\ tx'[r].todo = tx[r].todo /\ tx'[r].wants = tx[r].wants
<1> DEFINE t == [tx[r] EXCEPT !.at = "write"]
<1>1. t \in Tx
  BY TypeOKFields DEF Tx
<1>2. /\ t.at = "write" /\ t.todo = tx[r].todo /\ t.wants = tx[r].wants /\ t.version = tx[r].version
      /\ t.op = tx[r].op /\ t.id = tx[r].id /\ t.ticks = tx[r].ticks /\ t.loaded = tx[r].loaded
  BY TypeOKFields DEF Tx
<1>3. tx' = [tx EXCEPT ![r] = t]
  BY TypeOKFields DEF Cleared, Tx
<1> HIDE DEF t
<1>4. Only(r) /\ tx'[r] = t
  BY <1>1, <1>3, OnlyOne
<1> QED
  BY <1>2, <1>4 DEF Request

LEMMA TakeStep ==
  ASSUME ProfilesTypeOK, NEW r \in Requests, Take(r)
  PROVE  /\ Only(r)
         /\ tx[r].wants \in Profiles
         /\ Request(r)' = Request(r)
         /\ tx'[r].at = (IF tx[r].at = "write" THEN "commit" ELSE tx[r].at)
         /\ tx'[r].wants = Nobody /\ tx'[r].todo = tx[r].todo \ {tx[r].wants}
         /\ tx'[r].version[tx[r].wants] = Written(r, tx[r].wants)
         /\ \A x \in Profiles \ {tx[r].wants} : tx'[r].version[x] = tx[r].version[x]
<1> DEFINE w == tx[r].wants
           v == Written(r, w)
           f == [tx[r].version EXCEPT ![w] = v]
           at2 == IF tx[r].at = "write" THEN "commit" ELSE tx[r].at
           t == [tx[r] EXCEPT !.wants = Nobody, !.todo = tx[r].todo \ {w}, !.version = f, !.at = at2]
<1>1. w \in Profiles /\ tx[r] \in Tx
  BY TypeOKFields DEF Take, Tx
<1>2. v \in Rows \cup {Nobody}
  BY DEF Written, Rows
<1>3. tx' = [tx EXCEPT ![r] = t]
  BY <1>1, TypeOKFields DEF Take, Tx
<1> HIDE DEF v
<1>4. /\ f \in [Profiles -> Rows \cup {Nobody}] /\ f[w] = v
      /\ \A x \in Profiles \ {w} : f[x] = tx[r].version[x]
  BY <1>1, <1>2 DEF Tx
<1>5. at2 \in {"idle", "found", "clear", "write", "commit", "ended"}
  BY <1>1 DEF Tx
<1> HIDE DEF f, at2
<1>6. t \in Tx
  BY <1>1, <1>4, <1>5 DEF Tx
<1>7. /\ t.at = at2 /\ t.todo = tx[r].todo \ {w} /\ t.wants = Nobody /\ t.version = f
      /\ t.op = tx[r].op /\ t.id = tx[r].id /\ t.ticks = tx[r].ticks /\ t.loaded = tx[r].loaded
  BY <1>1 DEF Tx
<1> HIDE DEF t
<1>8. Only(r) /\ tx'[r] = t
  BY <1>3, <1>6, OnlyOne
<1> QED
  BY <1>1, <1>4, <1>7, <1>8 DEF Request, v, at2

LEMMA WriteStep ==
  ASSUME ProfilesTypeOK, Structure, NEW r \in Requests, WriteNothingHeld(r)
  PROVE  /\ Only(r)
         /\ tx[r].id \in Profiles
         /\ Request(r)' = Request(r)
         /\ tx'[r].at = "commit" /\ tx'[r].wants = Nobody /\ tx'[r].todo = tx[r].todo
         /\ tx'[r].version[tx[r].id] = (IF tx[r].op # "create" THEN Nobody
                                        ELSE IF tx[r].ticks THEN "default" ELSE "plain")
         /\ \A x \in Profiles \ {tx[r].id} : tx'[r].version[x] = tx[r].version[x]
<1> DEFINE v == IF tx[r].op # "create" THEN Nobody ELSE IF tx[r].ticks THEN "default" ELSE "plain"
           f == [tx[r].version EXCEPT ![tx[r].id] = v]
           t == [tx[r] EXCEPT !.at = "commit", !.version = f]
<1>1. tx[r].id \in Profiles /\ tx[r] \in Tx
  BY TypeOKFields DEF WriteNothingHeld, Structure, Shape, Open
<1>2. v \in Rows \cup {Nobody}
  BY DEF Rows
<1>3. tx' = [tx EXCEPT ![r] = t]
  BY <1>1, TypeOKFields DEF WriteNothingHeld, Tx
<1> HIDE DEF v
<1>4. /\ f \in [Profiles -> Rows \cup {Nobody}] /\ f[tx[r].id] = v
      /\ \A x \in Profiles \ {tx[r].id} : f[x] = tx[r].version[x]
  BY <1>1, <1>2 DEF Tx
<1> HIDE DEF f
<1>5. t \in Tx
  BY <1>1, <1>4 DEF Tx
<1>6. /\ t.at = "commit" /\ t.todo = tx[r].todo /\ t.wants = tx[r].wants /\ t.version = f
      /\ t.op = tx[r].op /\ t.id = tx[r].id /\ t.ticks = tx[r].ticks /\ t.loaded = tx[r].loaded
  BY <1>1 DEF Tx
<1>7. tx[r].wants = Nobody
  BY DEF WriteNothingHeld
<1> HIDE DEF t
<1>8. Only(r) /\ tx'[r] = t
  BY <1>3, <1>5, OnlyOne
<1> QED
  BY <1>1, <1>4, <1>6, <1>7, <1>8 DEF Request, v

LEMMA Assemble ==
  ASSUME tx' \in [Requests -> Tx], row' \in [Profiles -> Rows],
         lock' \in [Profiles -> Requests \cup {Nobody}], {asked', created', stale'} \subseteq BOOLEAN,
         \A q \in Requests, p \in Profiles :
           tx'[q].version[p] # Nobody => lock'[p] = q \/ (tx'[q].op = "create" /\ tx'[q].id = p)
  PROVE  ProfilesTypeOK'
  BY DEF ProfilesTypeOK, Tx

\* A step that changes neither rows nor locks, and writes no new version.
LEMMA QuietTypeOK ==
  ASSUME ProfilesTypeOK, NEW r \in Requests, Only(r),
         row' = row, lock' = lock, {asked', created', stale'} \subseteq BOOLEAN,
         \A p \in Profiles : tx'[r].version[p] # Nobody =>
           tx[r].version[p] # Nobody /\ tx'[r].op = tx[r].op /\ tx'[r].id = tx[r].id
  PROVE  ProfilesTypeOK'
<1>1. row' \in [Profiles -> Rows] /\ lock' \in [Profiles -> Requests \cup {Nobody}]
  BY DEF ProfilesTypeOK
<1>2. \A q \in Requests, p \in Profiles :
        tx'[q].version[p] # Nobody => lock'[p] = q \/ (tx'[q].op = "create" /\ tx'[q].id = p)
  BY DEF ProfilesTypeOK, Only
<1> QED
  BY <1>1, <1>2, Assemble DEF Only

LEMMA StepTypeOK ==
  ASSUME NobodyIsNoId, ProfilesTypeOK, Structure, [ProfilesNext]_profileVars
  PROVE  ProfilesTypeOK'
<1> USE DEF Only, Request
<1>1. ASSUME NEW r \in Requests, NEW p \in Profiles, NEW op \in {"create", "update", "destroy"},
             NEW ticks \in BOOLEAN, NEW edits \in BOOLEAN, Find(r, op, p, ticks, edits)
      PROVE  ProfilesTypeOK'
  <2>1. \A x \in Profiles : tx'[r].version[x] = Nobody
    BY <1>1, FindStep
  <2>2. row' = row /\ lock' = lock /\ {asked', created', stale'} \subseteq BOOLEAN
    BY <1>1 DEF Find, ProfilesTypeOK
  <2> QED
    BY <1>1, <2>1, <2>2, FindStep, QuietTypeOK
<1>2. ASSUME NEW r \in Requests, Begin(r) \/ Cleared(r) PROVE ProfilesTypeOK'
  <2>1. tx'[r].version = tx[r].version /\ tx'[r].op = tx[r].op /\ tx'[r].id = tx[r].id /\ Only(r)
    BY <1>2, BeginStep, ClearedStep
  <2>2. row' = row /\ lock' = lock /\ {asked', created', stale'} \subseteq BOOLEAN
    BY <1>2 DEF Begin, Cleared, ProfilesTypeOK
  <2> QED
    BY <2>1, <2>2, QuietTypeOK
<1>3. ASSUME NEW r \in Requests, Invalid(r) PROVE ProfilesTypeOK'
  <2>1. Only(r) /\ \A x \in Profiles : tx'[r].version[x] = Nobody
    BY <1>3, EndStep DEF Invalid
  <2>2. row' = row /\ lock' = lock /\ {asked', created', stale'} \subseteq BOOLEAN
    BY <1>3 DEF Invalid, ProfilesTypeOK
  <2> QED
    BY <2>1, <2>2, QuietTypeOK
<1>4. ASSUME NEW r \in Requests, NEW p \in Profiles, Reach(r, p) PROVE ProfilesTypeOK'
  <2>1. tx'[r].version = tx[r].version /\ tx'[r].op = tx[r].op /\ tx'[r].id = tx[r].id /\ Only(r)
    BY <1>4, ReachStep
  <2>2. row' = row /\ lock' = lock /\ {asked', created', stale'} \subseteq BOOLEAN
    BY <1>4 DEF Reach, ProfilesTypeOK
  <2> QED
    BY <2>1, <2>2, QuietTypeOK
<1>5. ASSUME NEW r \in Requests, Take(r) PROVE ProfilesTypeOK'
  <2>1. /\ lock' = [lock EXCEPT ![tx[r].wants] = r] /\ lock[tx[r].wants] = Nobody
        /\ row' = row /\ asked' = asked /\ created' = created /\ stale' = stale
    BY <1>5 DEF Take
  <2>2. ASSUME NEW q \in Requests, NEW p \in Profiles, tx'[q].version[p] # Nobody
        PROVE  lock'[p] = q \/ (tx'[q].op = "create" /\ tx'[q].id = p)
    <3>1. CASE q = r /\ p = tx[r].wants
      BY <2>1, <3>1 DEF ProfilesTypeOK
    <3>2. CASE q = r /\ p # tx[r].wants
      BY <1>5, <2>1, <2>2, <3>2, TakeStep DEF ProfilesTypeOK
    <3>3. CASE q # r
      <4>1. tx'[q] = tx[q] /\ lock[tx[r].wants] # q
        BY <1>5, <2>1, <3>3, TakeStep, NobodyIsNoId DEF NobodyIsNoId
      <4> QED
        BY <2>1, <2>2, <4>1 DEF ProfilesTypeOK
    <3> QED
      BY <3>1, <3>2, <3>3
  <2>3. lock' \in [Profiles -> Requests \cup {Nobody}]
    BY <2>1 DEF ProfilesTypeOK
  <2> QED
    BY <1>5, <2>1, <2>2, <2>3, TakeStep, Assemble DEF ProfilesTypeOK
<1>7. ASSUME NEW r \in Requests, WriteNothingHeld(r) PROVE ProfilesTypeOK'
  <2>1. /\ tx'[r].op = tx[r].op /\ tx'[r].id = tx[r].id
        /\ \A p \in Profiles \ {tx[r].id} : tx'[r].version[p] = tx[r].version[p]
        /\ tx[r].op # "create" => tx'[r].version[tx[r].id] = Nobody
    BY <1>7, WriteStep
  <2>2. lock' = lock /\ row' = row /\ asked' = asked /\ created' = created /\ stale' = stale
    BY <1>7 DEF WriteNothingHeld
  <2>3. ASSUME NEW q \in Requests, NEW p \in Profiles, tx'[q].version[p] # Nobody
        PROVE  lock'[p] = q \/ (tx'[q].op = "create" /\ tx'[q].id = p)
    BY <1>7, <2>1, <2>2, <2>3, WriteStep DEF ProfilesTypeOK
  <2> QED
    BY <1>7, <2>2, <2>3, WriteStep, Assemble DEF ProfilesTypeOK
<1>8. ASSUME NEW r \in Requests, Commit(r) \/ Deadlock(r) PROVE ProfilesTypeOK'
  <2>1. Only(r) /\ \A x \in Profiles : tx'[r].version[x] = Nobody
    BY <1>8, EndStep DEF Commit, Deadlock
  <2>2. lock' = [p \in Profiles |-> IF lock[p] = r THEN Nobody ELSE lock[p]]
    BY <1>8 DEF Commit, Deadlock, Release
  <2>3. lock' \in [Profiles -> Requests \cup {Nobody}]
    BY <2>2 DEF ProfilesTypeOK
  <2>4. ASSUME NEW q \in Requests, NEW p \in Profiles, tx'[q].version[p] # Nobody
        PROVE  lock'[p] = q \/ (tx'[q].op = "create" /\ tx'[q].id = p)
    <3>1. q # r
      BY <2>1, <2>4
    <3> QED
      BY <2>1, <2>2, <2>4, <3>1 DEF ProfilesTypeOK
  <2>5. row' \in [Profiles -> Rows]
    <3>1. CASE Commit(r)
      <4>1. \A p \in Profiles : tx[r].version[p] \in Rows \cup {Nobody}
        BY TypeOKFields DEF Tx
      <4> QED
        BY <3>1, <4>1 DEF Commit, ProfilesTypeOK
    <3> QED
      BY <1>8, <3>1 DEF Deadlock, ProfilesTypeOK
  <2>6. {asked', created', stale'} \subseteq BOOLEAN
    <3>1. tx[r].ticks \in BOOLEAN
      BY TypeOKFields DEF Tx
    <3> QED
      BY <1>8, <3>1 DEF Commit, Deadlock, ProfilesTypeOK
  <2> QED
    BY <2>1, <2>3, <2>4, <2>5, <2>6, Assemble
<1>9. CASE UNCHANGED profileVars
  BY <1>9 DEF profileVars, ProfilesTypeOK
<1> QED
  BY <1>1, <1>2, <1>3, <1>4, <1>5, <1>7, <1>8, <1>9 DEF ProfilesNext
-----------------------------------------------------------------------------
(* The structure of the transactions.                                      *)

LEMMA OthersKeep ==
  ASSUME Structure, NEW r \in Requests, NEW q \in Requests \ {r}, Only(r), row' = row,
         \A p \in Profiles : lock'[p] = q <=> lock[p] = q
  PROVE  Shape(q)' /\ Versions(q)' /\ LateLock(q)'
<1>1. tx'[q] = tx[q]
  BY DEF Only
<1>2. Shape(q)'
  BY <1>1 DEF Structure, Shape, Open, Exists
<1>3. Versions(q)'
  BY <1>1 DEF Structure, Versions, Exists
<1>4. LateLock(q)'
  BY <1>1 DEF Structure, LateLock
<1> QED
  BY <1>2, <1>3, <1>4

LEMMA DistinctKeeps ==
  ASSUME Structure, NEW r \in Requests, Only(r),
         r \in Open' => r \in Open /\ tx'[r].op = tx[r].op /\ tx'[r].id = tx[r].id
  PROVE  Distinct'
<1>1. \A q \in Open' : q \in Open /\ tx'[q].op = tx[q].op /\ tx'[q].id = tx[q].id
  BY DEF Only, Open
<1> QED
  BY <1>1 DEF Structure, Distinct

\* The structure after a step of r that leaves the rows alone.
LEMMA QuietStructure ==
  ASSUME Structure, NEW r \in Requests, Only(r), row' = row, Distinct',
         \A q \in Requests \ {r}, p \in Profiles : lock'[p] = q <=> lock[p] = q,
         Shape(r)', Versions(r)', LateLock(r)'
  PROVE  Structure'
  BY OthersKeep DEF Structure

LEMMA WrittenFacts ==
  ASSUME NEW r \in Requests, NEW p \in Profiles
  PROVE  /\ ~Exists(p) => Written(r, p) = Nobody
         /\ Exists(p) /\ tx[r].at = "clear" => Written(r, p) = "plain"
         /\ Exists(p) /\ tx[r].at # "clear" /\ ~tx[r].ticks => Written(r, p) \in {Nobody, "plain", "absent"}
  BY DEF Written

LEMMA StepStructure ==
  ASSUME NobodyIsNoId, ProfilesTypeOK, Structure, [ProfilesNext]_profileVars
  PROVE  Structure'
<1> USE DEF Only, Request
<1>1. ASSUME NEW r \in Requests, NEW p \in Profiles, NEW op \in {"create", "update", "destroy"},
             NEW ticks \in BOOLEAN, NEW edits \in BOOLEAN, Find(r, op, p, ticks, edits)
      PROVE  Structure'
  <2>1. /\ tx[r].at = "idle" /\ row' = row /\ lock' = lock
        /\ IF op = "create" THEN ~Exists(p) /\ \A q \in Open : tx[q].id # p ELSE Exists(p)
        /\ op = "destroy" => ~ticks
    BY <1>1 DEF Find
  <2>2. \A x \in Profiles : lock'[x] # r
    BY <2>1 DEF Structure, Shape
  <2>3. Distinct'
    <3>1. \A q \in Open' : q # r => q \in Open /\ tx'[q] = tx[q]
      BY <1>1, FindStep DEF Open
    <3> QED
      BY <1>1, <2>1, <3>1, FindStep DEF Structure, Distinct
  <2>4. Shape(r)'
    BY <1>1, <2>1, <2>2, FindStep DEF Shape, Exists
  <2>5. Versions(r)' /\ LateLock(r)'
    BY <1>1, <2>2, FindStep DEF Versions, LateLock
  <2>6. Only(r)
    BY <1>1, FindStep
  <2> HIDE DEF Only
  <2> QED
    BY <2>1, <2>3, <2>4, <2>5, <2>6, QuietStructure
<1>2. ASSUME NEW r \in Requests, Begin(r) PROVE Structure'
  <2>1. tx[r].at = "found" /\ row' = row /\ lock' = lock
    BY <1>2 DEF Begin
  <2>2. \A x \in Profiles : lock'[x] # r /\ tx'[r].version[x] = Nobody
    <3>1. \A x \in Profiles : lock[x] # r /\ tx[r].version[x] = Nobody
      BY <2>1 DEF Structure, Shape
    <3> QED
      BY <1>2, <2>1, <3>1, BeginStep
  <2>3. Distinct'
    BY <1>2, <2>1, BeginStep, DistinctKeeps DEF Open
  <2>4. Shape(r)'
    <3>1. /\ tx[r].wants = Nobody /\ tx[r].id \in Profiles
          /\ tx[r].op = "create" => ~Exists(tx[r].id)
          /\ tx[r].op # "create" => tx[r].loaded # "absent"
          /\ tx[r].op = "destroy" => ~tx[r].ticks
      BY <2>1 DEF Structure, Shape, Open
    <3>2. /\ tx'[r].at = (IF tx[r].ticks THEN "clear" ELSE "write")
          /\ tx'[r].todo = (IF tx[r].ticks THEN {p \in Profiles \ {tx[r].id} : Exists(p)} ELSE {})
          /\ tx'[r].wants = Nobody /\ tx'[r].op = tx[r].op /\ tx'[r].id = tx[r].id
          /\ tx'[r].ticks = tx[r].ticks /\ tx'[r].loaded = tx[r].loaded
      BY <1>2, <3>1, BeginStep
    <3> QED
      BY <2>1, <3>1, <3>2 DEF Shape, Open, Exists
  <2>5. Versions(r)' /\ LateLock(r)'
    BY <2>2 DEF Versions, LateLock
  <2>6. Only(r)
    BY <1>2, BeginStep
  <2> HIDE DEF Only
  <2> QED
    BY <2>1, <2>3, <2>4, <2>5, <2>6, QuietStructure
<1>3. ASSUME NEW r \in Requests, Invalid(r) \/ Deadlock(r) PROVE Structure'
  <2>1. /\ row' = row
        /\ tx' = [tx EXCEPT ![r] = [NoTx EXCEPT !.at = "ended"]]
        /\ \/ tx[r].at = "found" /\ lock' = lock
           \/ lock' = [p \in Profiles |-> IF lock[p] = r THEN Nobody ELSE lock[p]]
    BY <1>3 DEF Invalid, Deadlock, Release
  <2>2. \A x \in Profiles : lock'[x] # r
    BY <2>1, NobodyIsNoId DEF Structure, Shape, NobodyIsNoId
  <2>3. \A q \in Requests \ {r}, p \in Profiles : lock'[p] = q <=> lock[p] = q
    BY <2>1, NobodyIsNoId DEF NobodyIsNoId
  <2>4. Distinct'
    BY <2>1, EndStep, DistinctKeeps DEF Open
  <2>5. Shape(r)' /\ Versions(r)' /\ LateLock(r)'
    BY <2>1, <2>2, EndStep DEF Shape, Versions, LateLock, Open
  <2>6. Only(r)
    BY <2>1, EndStep
  <2> HIDE DEF Only
  <2> QED
    BY <2>1, <2>3, <2>4, <2>5, <2>6, QuietStructure
<1>4. ASSUME NEW r \in Requests, NEW p \in Profiles, Reach(r, p) PROVE Structure'
  <2>1. /\ row' = row /\ lock' = lock
        /\ \/ tx[r].at = "clear" /\ p \in tx[r].todo
           \/ tx[r].at = "write" /\ p = tx[r].id /\ tx[r].op # "create"
    BY <1>4 DEF Reach
  <2>2. Distinct'
    BY <1>4, <2>1, ReachStep, DistinctKeeps DEF Open
  <2>3. Shape(r)'
    BY <1>4, <2>1, ReachStep DEF Structure, Shape, Open, Exists
  <2>4. Versions(r)'
    BY <1>4, <2>1, ReachStep DEF Structure, Versions, Exists
  <2>5. LateLock(r)'
    BY <1>4, <2>1, ReachStep DEF Structure, LateLock
  <2>6. Only(r)
    BY <1>4, ReachStep
  <2> HIDE DEF Only
  <2> QED
    BY <2>1, <2>2, <2>3, <2>4, <2>5, <2>6, QuietStructure
<1>5. ASSUME NEW r \in Requests, Cleared(r) PROVE Structure'
  <2>1. row' = row /\ lock' = lock /\ tx[r].at = "clear" /\ tx[r].todo = {}
    BY <1>5 DEF Cleared
  <2>2. Distinct'
    BY <1>5, <2>1, ClearedStep, DistinctKeeps DEF Open
  <2>3. Shape(r)'
    BY <1>5, <2>1, ClearedStep DEF Structure, Shape, Open, Exists
  <2>4. Versions(r)'
    BY <1>5, <2>1, ClearedStep DEF Structure, Versions, Exists
  <2>5. LateLock(r)'
    BY <1>5, <2>1, ClearedStep DEF Structure, LateLock, Shape
  <2>6. Only(r)
    BY <1>5, ClearedStep
  <2> HIDE DEF Only
  <2> QED
    BY <2>1, <2>2, <2>3, <2>4, <2>5, <2>6, QuietStructure
<1>6. ASSUME NEW r \in Requests, Take(r) PROVE Structure'
  <2> DEFINE w == tx[r].wants
  <2>1. /\ row' = row /\ lock[w] = Nobody /\ lock' = [lock EXCEPT ![w] = r] /\ w # Nobody /\ w \in Profiles
    BY <1>6, TakeStep DEF Take
  <2>2. /\ lock'[w] = r
        /\ \A p \in Profiles \ {w} : lock'[p] = lock[p]
    BY <2>1 DEF ProfilesTypeOK
  <2>3. \/ tx[r].at = "clear" /\ w \in tx[r].todo /\ w # tx[r].id /\ tx[r].ticks
        \/ tx[r].at = "write" /\ w = tx[r].id /\ tx[r].op # "create"
    BY <2>1 DEF Structure, Shape
  <2>4. /\ Written(r, w) # Nobody => Exists(w)
        /\ tx[r].at = "clear" => Written(r, w) \in {Nobody, "plain"}
        /\ Written(r, w) = "default" => tx[r].at = "clear" \/ tx[r].ticks
    <3>1. /\ ~Exists(w) => Written(r, w) = Nobody
          /\ Exists(w) /\ tx[r].at = "clear" => Written(r, w) = "plain"
          /\ Exists(w) /\ tx[r].at # "clear" /\ ~tx[r].ticks => Written(r, w) \in {Nobody, "plain", "absent"}
      BY <2>1, WrittenFacts
    <3>4. Nobody # "default"
      BY NobodyIsNoId DEF NobodyIsNoId
    <3> QED
      BY <3>1, <3>4
  <2>5. \A q \in Requests \ {r}, p \in Profiles : lock'[p] = q <=> lock[p] = q
    <3>1. \A q \in Requests : q # Nobody
      BY NobodyIsNoId DEF NobodyIsNoId
    <3> QED
      BY <2>1, <2>2, <3>1
  <2>6. Distinct'
    BY <1>6, <2>3, TakeStep, DistinctKeeps DEF Open
  <2>7. Shape(r)'
    BY <1>6, <2>1, <2>3, TakeStep DEF Structure, Shape, Open, Exists
  <2>8. Versions(r)'
    <3>1. ASSUME NEW p \in Profiles, p # w, tx'[r].version[p] # Nobody
          PROVE  tx[r].version[p] # Nobody /\ p # tx[r].id
      BY <1>6, <2>3, <3>1, TakeStep DEF Structure, Versions
    <3>2. \A p \in Profiles \ {w} : tx'[r].version[p] # Nobody =>
            lock'[p] = r /\ row'[p] # "absent" /\ p # tx'[r].id /\ tx'[r].ticks /\ tx'[r].version[p] = "plain"
      BY <1>6, <2>1, <2>2, <3>1, TakeStep DEF Structure, Versions, Exists
    <3>3. tx'[r].version[w] # Nobody =>
            /\ lock'[w] = r /\ row'[w] # "absent"
            /\ w = tx'[r].id => tx'[r].at = "commit" /\ (tx'[r].version[w] = "default" => tx'[r].ticks)
            /\ w # tx'[r].id => tx'[r].ticks /\ tx'[r].version[w] = "plain"
      <4>1. /\ tx'[r].version[w] = Written(r, w)
            /\ tx'[r].id = tx[r].id /\ tx'[r].ticks = tx[r].ticks
            /\ tx'[r].at = (IF tx[r].at = "write" THEN "commit" ELSE tx[r].at)
        BY <1>6, TakeStep
      <4>2. row'[w] # "absent" <=> Exists(w)
        BY <2>1 DEF Exists
      <4> HIDE DEF w
      <4> QED
        BY <2>2, <2>3, <2>4, <4>1, <4>2
    <3>4. /\ \A p \in Profiles \ {w} : tx'[r].version[p] # Nobody =>
               /\ lock'[p] = r /\ row'[p] # "absent"
               /\ p # tx'[r].id /\ tx'[r].ticks /\ tx'[r].version[p] = "plain"
          /\ tx'[r].version[w] # Nobody =>
               /\ lock'[w] = r /\ row'[w] # "absent"
               /\ w = tx'[r].id => tx'[r].at = "commit" /\ (tx'[r].version[w] = "default" => tx'[r].ticks)
               /\ w # tx'[r].id => tx'[r].ticks /\ tx'[r].version[w] = "plain"
      BY <3>2, <3>3
    <3> HIDE DEF w
    <3> QED
      BY <3>4 DEF Versions, Exists
  <2>9. LateLock(r)'
    BY <1>6, <2>1, <2>2, <2>3, TakeStep DEF Structure, LateLock
  <2>10. Only(r)
    BY <1>6, TakeStep
  <2> HIDE DEF Only
  <2> QED
    BY <2>1, <2>5, <2>6, <2>7, <2>8, <2>9, <2>10, QuietStructure
<1>7. ASSUME NEW r \in Requests, WriteNothingHeld(r) PROVE Structure'
  <2>1. row' = row /\ lock' = lock /\ tx[r].at = "write" /\ tx[r].wants = Nobody
    BY <1>7 DEF WriteNothingHeld
  <2>2. Distinct'
    BY <1>7, <2>1, WriteStep, DistinctKeeps DEF Open
  <2>3. Shape(r)'
    BY <1>7, <2>1, WriteStep DEF Structure, Shape, Open, Exists
  <2>4. Versions(r)'
    <3>1. \A p \in Profiles : tx[r].version[p] # Nobody => p # tx[r].id
      BY <2>1 DEF Structure, Versions
    <3> QED
      BY <1>7, <2>1, <3>1, WriteStep DEF Structure, Versions, Exists
  <2>5. LateLock(r)'
    BY <1>7, WriteStep DEF LateLock
  <2>6. Only(r)
    BY <1>7, WriteStep
  <2> HIDE DEF Only
  <2> QED
    BY <2>1, <2>2, <2>3, <2>4, <2>5, <2>6, QuietStructure
<1>8. ASSUME NEW r \in Requests, Commit(r) PROVE Structure'
  <2>1. /\ tx[r].at = "commit" /\ r \in Open
        /\ row' = [p \in Profiles |-> IF tx[r].version[p] = Nobody THEN row[p] ELSE tx[r].version[p]]
        /\ lock' = [p \in Profiles |-> IF lock[p] = r THEN Nobody ELSE lock[p]]
        /\ tx' = [tx EXCEPT ![r] = [NoTx EXCEPT !.at = "ended"]]
    BY <1>8 DEF Commit, Release, Open
  <2>2. \A p \in Profiles : /\ lock'[p] # r
                           /\ \A q \in Requests \ {r} : lock'[p] = q <=> lock[p] = q
    BY <2>1, NobodyIsNoId DEF NobodyIsNoId
  <2>3. Shape(r)' /\ Versions(r)' /\ LateLock(r)' /\ Distinct'
    BY <2>1, <2>2, EndStep, DistinctKeeps DEF Shape, Versions, LateLock, Open
  <2>4. ASSUME NEW q \in Requests \ {r} PROVE Shape(q)' /\ Versions(q)' /\ LateLock(q)'
    <3>1. tx'[q] = tx[q]
      BY <2>1, EndStep
    <3>2. q \in Open /\ tx[q].op = "create" => ~Exists(tx[q].id)'
      <4>1. SUFFICES ASSUME q \in Open, tx[q].op = "create" PROVE ~Exists(tx[q].id)'
        BY <3>1
      <4>2. tx[q].id \in Profiles /\ ~Exists(tx[q].id)
        BY <4>1 DEF Structure, Shape
      <4>3. tx[r].op = "create" => tx[q].id # tx[r].id
        BY <2>1, <4>1 DEF Structure, Distinct
      <4>4. tx[r].version[tx[q].id] = Nobody
        BY <4>2, <4>3 DEF Structure, Versions
      <4> QED
        BY <2>1, <3>1, <4>2, <4>4 DEF Exists
    <3>3. ASSUME NEW p \in Profiles, tx[q].version[p] # Nobody, lock[p] = q, Exists(p)
          PROVE  row'[p] = row[p]
      <4>1. tx[r].version[p] = Nobody
        BY <2>1, <3>3 DEF Structure, Versions, Shape
      <4> QED
        BY <2>1, <4>1
    <3>4. Shape(q)'
      BY <2>2, <3>1, <3>2 DEF Structure, Shape, Open
    <3>5. Versions(q)'
      BY <2>2, <3>1, <3>3 DEF Structure, Versions, Exists
    <3>6. LateLock(q)'
      BY <2>2, <3>1 DEF Structure, LateLock
    <3> QED
      BY <3>4, <3>5, <3>6
  <2> QED
    BY <2>3, <2>4 DEF Structure
<1>9. CASE UNCHANGED profileVars
  <2>1. tx' = tx /\ row' = row /\ lock' = lock
    BY <1>9 DEF profileVars
  <2> QED
    BY <2>1 DEF Structure, Shape, Versions, LateLock, Distinct, Open, Exists
<1> QED
  BY <1>1, <1>2, <1>3, <1>4, <1>5, <1>6, <1>7, <1>8, <1>9 DEF ProfilesNext
-----------------------------------------------------------------------------
(* How many default profiles.                                              *)

AtMostOne == \A p, q \in Profiles : row[p] = "default" /\ row[q] = "default" => p = q

\* No create overlaps a save when one of the two ticks the box.
Alone == \A r, q \in Open : r # q /\ (tx[r].ticks \/ tx[q].ticks) => tx[r].op # "create"

\* Every other row is unticked already, or is still to visit.
Clearing(r) ==
  r \in Open /\ tx[r].ticks /\ tx[r].at # "found" =>
    \A p \in Profiles \ {tx[r].id} : Exists(p) => p \in tx[r].todo \/ tx[r].version[p] = "plain"

OneDefault == ~created => AtMostOne /\ Alone /\ \A r \in Requests : Clearing(r)

\* The row a save will tick is as it found it.
Fresh(r) == r \in Open /\ tx[r].ticks => row[tx[r].id] = tx[r].loaded

\* Its own row comes out ticked.
Sure(r) ==
  tx[r].at = "commit" /\ tx[r].ticks =>
    \/ tx[r].version[tx[r].id] = "default"
    \/ tx[r].version[tx[r].id] = Nobody /\ tx[r].loaded = "default"

AskedKept == ~stale => /\ asked => \E p \in Profiles : row[p] = "default"
                       /\ \A r \in Requests : Fresh(r) /\ Sure(r)

\* The inductive invariant.
IInv == ProfilesTypeOK /\ Structure /\ OneDefault /\ AskedKept

\* A step of r that leaves the rows alone and is no Find.
LEMMA QuietDefaults ==
  ASSUME ProfilesTypeOK, OneDefault, AskedKept, NEW r \in Requests, Only(r),
         row' = row, asked' = asked, created' = created, stale' = stale,
         r \in Open' => r \in Open /\ Request(r)' = Request(r),
         Clearing(r) => Clearing(r)', Fresh(r) => Fresh(r)', Fresh(r) /\ Sure(r) => Sure(r)'
  PROVE  OneDefault' /\ AskedKept'
<1>1. \A q \in Requests \ {r} : tx'[q] = tx[q]
  BY DEF Only
<1>2. \A q \in Open' : q \in Open /\ tx'[q].op = tx[q].op /\ tx'[q].ticks = tx[q].ticks
  BY <1>1 DEF Open, Request
<1>3. OneDefault'
  <2>1. SUFFICES ASSUME ~created PROVE AtMostOne' /\ Alone' /\ \A q \in Requests : Clearing(q)'
    BY DEF OneDefault
  <2>2. AtMostOne'
    BY <2>1 DEF OneDefault, AtMostOne
  <2>3. Alone'
    BY <2>1, <1>2 DEF OneDefault, Alone
  <2>4. \A q \in Requests \ {r} : Clearing(q)'
    BY <2>1, <1>1 DEF OneDefault, Clearing, Open, Exists
  <2>5. Clearing(r)'
    BY <2>1 DEF OneDefault
  <2> QED
    BY <2>2, <2>3, <2>4, <2>5
<1>4. AskedKept'
  <2>1. SUFFICES ASSUME ~stale
                 PROVE  /\ asked => \E p \in Profiles : row[p] = "default"
                        /\ \A q \in Requests : Fresh(q)' /\ Sure(q)'
    BY DEF AskedKept
  <2>2. \A q \in Requests \ {r} : Fresh(q)' /\ Sure(q)'
    BY <2>1, <1>1 DEF AskedKept, Fresh, Sure, Open
  <2>3. Fresh(r)' /\ Sure(r)'
    BY <2>1 DEF AskedKept
  <2> QED
    BY <2>1, <2>2, <2>3 DEF AskedKept
<1> QED
  BY <1>3, <1>4

LEMMA StepDefaults ==
  ASSUME NobodyIsNoId, ProfilesTypeOK, Structure, OneDefault, AskedKept, [ProfilesNext]_profileVars
  PROVE  OneDefault' /\ AskedKept'
<1>1. ASSUME NEW r \in Requests, NEW p \in Profiles, NEW op \in {"create", "update", "destroy"},
             NEW ticks \in BOOLEAN, NEW edits \in BOOLEAN, Find(r, op, p, ticks, edits)
      PROVE  OneDefault' /\ AskedKept'
  <2>1. /\ row' = row /\ asked' = asked /\ stale' = stale
        /\ created' = (created \/ CreateOverlaps(op, ticks)) /\ tx[r].at = "idle"
    BY <1>1 DEF Find
  <2>2. /\ \A q \in Requests \ {r} : tx'[q] = tx[q]
        /\ tx'[r].at = "found" /\ tx'[r].op = op /\ tx'[r].id = p /\ tx'[r].ticks = ticks
        /\ tx'[r].loaded = row[p]
    BY <1>1, FindStep DEF Only
  <2>3. OneDefault'
    <3>1. SUFFICES ASSUME ~created, ~CreateOverlaps(op, ticks)
                   PROVE  AtMostOne' /\ Alone' /\ \A q \in Requests : Clearing(q)'
      BY <2>1 DEF OneDefault
    <3>2. Alone'
      BY <2>1, <2>2, <3>1 DEF OneDefault, Alone, CreateOverlaps, Open
    <3>3. \A q \in Requests : Clearing(q)'
      BY <2>1, <2>2, <3>1 DEF OneDefault, Clearing, Open, Exists
    <3> QED
      BY <2>1, <3>1, <3>2, <3>3 DEF OneDefault, AtMostOne
  <2>4. AskedKept'
    <3>1. SUFFICES ASSUME ~stale
                   PROVE  /\ asked => \E x \in Profiles : row[x] = "default"
                          /\ \A q \in Requests : Fresh(q)' /\ Sure(q)'
      BY <2>1 DEF AskedKept
    <3>2. \A q \in Requests : Fresh(q)' /\ Sure(q)'
      BY <2>1, <2>2, <3>1 DEF AskedKept, Fresh, Sure, Open
    <3> QED
      BY <3>1, <3>2 DEF AskedKept
  <2> QED
    BY <2>3, <2>4
<1>2. ASSUME NEW r \in Requests, Begin(r) PROVE OneDefault' /\ AskedKept'
  <2>1. /\ row' = row /\ asked' = asked /\ stale' = stale /\ created' = created
        /\ tx[r].at = "found" /\ r \in Open
    BY <1>2 DEF Begin, Open
  <2>2. /\ Only(r) /\ Request(r)' = Request(r)
        /\ tx'[r].at = (IF tx[r].ticks THEN "clear" ELSE "write")
        /\ tx'[r].todo = (IF tx[r].ticks THEN {p \in Profiles \ {tx[r].id} : Exists(p)} ELSE {})
    BY <1>2, BeginStep
  <2>3. Clearing(r)'
    BY <2>1, <2>2 DEF Clearing, Exists, Request
  <2>4. (Fresh(r) => Fresh(r)') /\ Sure(r)'
    BY <2>1, <2>2 DEF Fresh, Sure, Request
  <2> QED
    BY <2>1, <2>2, <2>3, <2>4, QuietDefaults
<1>3. ASSUME NEW r \in Requests, Invalid(r) \/ Deadlock(r) PROVE OneDefault' /\ AskedKept'
  <2>1. /\ row' = row /\ asked' = asked /\ stale' = stale /\ created' = created
        /\ tx' = [tx EXCEPT ![r] = [NoTx EXCEPT !.at = "ended"]]
    BY <1>3 DEF Invalid, Deadlock
  <2>2. Only(r) /\ tx'[r].at = "ended" /\ r \notin Open'
    BY <2>1, EndStep DEF Open
  <2>3. Clearing(r)' /\ Fresh(r)' /\ Sure(r)'
    BY <2>2 DEF Clearing, Fresh, Sure
  <2> QED
    BY <2>1, <2>2, <2>3, QuietDefaults
<1>4. ASSUME NEW r \in Requests, NEW p \in Profiles, Reach(r, p) PROVE OneDefault' /\ AskedKept'
  <2>1. /\ row' = row /\ asked' = asked /\ stale' = stale /\ created' = created
        /\ tx[r].at \in {"clear", "write"} /\ r \in Open
    BY <1>4 DEF Reach, Open
  <2>2. /\ Only(r) /\ Request(r)' = Request(r) /\ tx'[r].version = tx[r].version
        /\ tx'[r].at = tx[r].at /\ tx'[r].todo = tx[r].todo
    BY <1>4, ReachStep
  <2>3. Clearing(r) => Clearing(r)'
    BY <2>1, <2>2 DEF Clearing, Exists, Request, Open
  <2>4. (Fresh(r) => Fresh(r)') /\ Sure(r)'
    BY <2>1, <2>2 DEF Fresh, Sure, Request
  <2> QED
    BY <2>1, <2>2, <2>3, <2>4, QuietDefaults
<1>5. ASSUME NEW r \in Requests, Cleared(r) PROVE OneDefault' /\ AskedKept'
  <2>1. /\ row' = row /\ asked' = asked /\ stale' = stale /\ created' = created
        /\ tx[r].at = "clear" /\ r \in Open
    BY <1>5 DEF Cleared, Open
  <2>2. /\ Only(r) /\ Request(r)' = Request(r) /\ tx'[r].version = tx[r].version
        /\ tx'[r].at = "write" /\ tx'[r].todo = tx[r].todo
    BY <1>5, ClearedStep
  <2>3. Clearing(r) => Clearing(r)'
    BY <2>1, <2>2 DEF Clearing, Exists, Request, Open
  <2>4. (Fresh(r) => Fresh(r)') /\ Sure(r)'
    BY <2>1, <2>2 DEF Fresh, Sure, Request
  <2> QED
    BY <2>1, <2>2, <2>3, <2>4, QuietDefaults
<1>6. ASSUME NEW r \in Requests, Take(r) PROVE OneDefault' /\ AskedKept'
  <2>1. /\ row' = row /\ asked' = asked /\ stale' = stale /\ created' = created
        /\ tx[r].wants # Nobody
    BY <1>6 DEF Take
  <2>2. \/ tx[r].at = "clear" /\ tx[r].wants # tx[r].id
        \/ tx[r].at = "write" /\ tx[r].wants = tx[r].id /\ tx[r].op # "create"
    BY <2>1 DEF Structure, Shape
  <2>3. r \in Open /\ tx[r].id \in Profiles
    BY <2>2 DEF Open, Structure, Shape
  <2>4. /\ Only(r) /\ Request(r)' = Request(r) /\ tx[r].wants \in Profiles
        /\ tx'[r].at = (IF tx[r].at = "write" THEN "commit" ELSE tx[r].at)
        /\ tx'[r].todo = tx[r].todo \ {tx[r].wants}
        /\ tx'[r].version[tx[r].wants] = Written(r, tx[r].wants)
        /\ \A x \in Profiles \ {tx[r].wants} : tx'[r].version[x] = tx[r].version[x]
    BY <1>6, TakeStep
  <2>5. Clearing(r) => Clearing(r)'
    <3>1. Exists(tx[r].wants) /\ tx[r].at = "clear" => Written(r, tx[r].wants) = "plain"
      BY <2>4, WrittenFacts
    <3>2. tx'[r].id = tx[r].id /\ tx'[r].ticks = tx[r].ticks
      BY <2>4 DEF Request
    <3> QED
      BY <2>1, <2>2, <2>3, <2>4, <3>1, <3>2 DEF Clearing, Exists, Open
  <2>6. Fresh(r) => Fresh(r)'
    BY <2>1, <2>3, <2>4 DEF Fresh, Request
  <2>7. Fresh(r) => Sure(r)'
    <3>1. SUFFICES ASSUME Fresh(r), tx[r].at = "write", tx[r].ticks PROVE Sure(r)'
      BY <2>2, <2>4 DEF Sure, Request
    <3>2. /\ row[tx[r].id] = tx[r].loaded /\ tx[r].loaded # "absent"
          /\ tx[r].op # "destroy" /\ tx[r].wants = tx[r].id
      BY <2>2, <2>3, <3>1 DEF Fresh, Structure, Shape
    <3>3. tx[r].ticks = TRUE
      BY <3>1, TypeOKFields DEF Tx
    <3>4. Written(r, tx[r].id) = IF tx[r].loaded = "default" THEN Nobody ELSE "default"
      BY <3>1, <3>2, <3>3 DEF Written, Exists
    <3>5. tx'[r].id = tx[r].id /\ tx'[r].loaded = tx[r].loaded
      BY <2>4 DEF Request
    <3> QED
      BY <2>4, <3>2, <3>4, <3>5 DEF Sure
  <2> QED
    BY <2>1, <2>3, <2>4, <2>5, <2>6, <2>7, QuietDefaults
<1>7. ASSUME NEW r \in Requests, WriteNothingHeld(r) PROVE OneDefault' /\ AskedKept'
  <2>1. /\ row' = row /\ asked' = asked /\ stale' = stale /\ created' = created
        /\ tx[r].at = "write" /\ r \in Open
        /\ tx[r].op # "create" => (tx[r].loaded = "default") = tx[r].ticks
    BY <1>7 DEF WriteNothingHeld, Open
  <2>2. /\ Only(r) /\ Request(r)' = Request(r) /\ tx[r].id \in Profiles
        /\ tx'[r].at = "commit" /\ tx'[r].todo = tx[r].todo
        /\ tx'[r].version[tx[r].id] = (IF tx[r].op # "create" THEN Nobody
                                       ELSE IF tx[r].ticks THEN "default" ELSE "plain")
        /\ \A x \in Profiles \ {tx[r].id} : tx'[r].version[x] = tx[r].version[x]
    BY <1>7, WriteStep
  <2>3. tx'[r].id = tx[r].id /\ tx'[r].ticks = tx[r].ticks /\ tx'[r].loaded = tx[r].loaded
    BY <2>2 DEF Request
  <2>4. Clearing(r) => Clearing(r)'
    BY <2>1, <2>2, <2>3 DEF Clearing, Exists, Open
  <2>5. Fresh(r) => Fresh(r)'
    BY <2>1, <2>3 DEF Fresh
  <2>6. Sure(r)'
    <3>1. CASE tx[r].ticks
      BY <2>1, <2>2, <2>3, <3>1 DEF Sure
    <3> QED
      BY <2>3, <3>1 DEF Sure
  <2> QED
    BY <2>1, <2>2, <2>4, <2>5, <2>6, QuietDefaults
<1>8. ASSUME NEW r \in Requests, Commit(r) PROVE OneDefault' /\ AskedKept'
  <2>1. /\ tx[r].at = "commit" /\ r \in Open
        /\ row' = [p \in Profiles |-> IF tx[r].version[p] = Nobody THEN row[p] ELSE tx[r].version[p]]
        /\ asked' = (tx[r].ticks \/ (asked /\ (row[tx[r].id] = "default" => tx[r].version[tx[r].id] = Nobody)))
        /\ stale' = (stale \/ \E q \in Open \ {r} : tx[q].ticks)
        /\ tx' = [tx EXCEPT ![r] = [NoTx EXCEPT !.at = "ended"]] /\ created' = created
    BY <1>8 DEF Commit, Open
  <2>2. \A q \in Requests \ {r} : tx'[q] = tx[q]
    BY <2>1, EndStep DEF Only
  <2>3. tx'[r].at = "ended" /\ tx'[r].ticks = FALSE
    BY <2>1, EndStep
  <2>4. \A q \in Open' : q # r /\ q \in Open /\ tx'[q] = tx[q]
    BY <2>2, <2>3 DEF Open
  <2>5. tx[r].id \in Profiles /\ tx[r].todo = {}
    BY <2>1 DEF Structure, Shape
  <2>6. OneDefault'
    <3>1. SUFFICES ASSUME ~created PROVE AtMostOne' /\ Alone' /\ \A q \in Requests : Clearing(q)'
      BY <2>1 DEF OneDefault
    <3>2. AtMostOne'
      <4>1. CASE tx[r].ticks
        <5>1. \A p \in Profiles \ {tx[r].id} : row'[p] # "default"
          <6>1. SUFFICES ASSUME NEW p \in Profiles \ {tx[r].id} PROVE row'[p] # "default"
            OBVIOUS
          <6>2. CASE Exists(p)
            <7>1. tx[r].version[p] = "plain"
              BY <2>1, <2>5, <3>1, <4>1, <6>1, <6>2 DEF OneDefault, Clearing
            <7> QED
              BY <2>1, <6>1, <7>1, NobodyIsNoId DEF NobodyIsNoId
          <6>3. CASE ~Exists(p)
            <7>1. tx[r].version[p] = Nobody
              BY <6>1, <6>3 DEF Structure, Versions
            <7> QED
              BY <2>1, <6>1, <6>3, <7>1 DEF Exists
          <6> QED
            BY <6>2, <6>3
        <5> QED
          BY <5>1 DEF AtMostOne
      <4>2. CASE ~tx[r].ticks
        <5>1. \A p \in Profiles : tx[r].version[p] # "default"
          <6>1. "default" # Nobody
            BY NobodyIsNoId DEF NobodyIsNoId
          <6> QED
            BY <4>2, <6>1 DEF Structure, Versions
        <5>2. \A p \in Profiles : row'[p] = "default" => row[p] = "default"
          BY <2>1, <5>1
        <5> QED
          BY <3>1, <5>2 DEF OneDefault, AtMostOne
      <4> QED
        BY <4>1, <4>2
    <3>3. Alone'
      BY <2>4, <3>1 DEF OneDefault, Alone
    <3>4. ASSUME NEW q \in Requests PROVE Clearing(q)'
      <4>1. SUFFICES ASSUME q \in Open', tx'[q].ticks, tx'[q].at # "found",
                            NEW p \in Profiles \ {tx[q].id}, row'[p] # "absent"
                     PROVE  p \in tx'[q].todo \/ tx'[q].version[p] = "plain"
        <5>1. q \in Open' => tx'[q].id = tx[q].id
          BY <2>4
        <5> QED
          BY <5>1 DEF Clearing, Exists
      <4>2. q # r /\ q \in Open /\ tx'[q] = tx[q]
        BY <2>4, <4>1
      <4>3. tx[r].op # "create"
        BY <2>1, <3>1, <4>1, <4>2 DEF OneDefault, Alone
      <4>4. Exists(p)
        BY <2>1, <4>1, <4>3 DEF Structure, Versions, Exists
      <4> QED
        BY <3>1, <4>1, <4>2, <4>4 DEF OneDefault, Clearing
    <3> QED
      BY <3>2, <3>3, <3>4
  <2>7. AskedKept'
    <3>1. SUFFICES ASSUME ~stale, \A q \in Open \ {r} : ~tx[q].ticks
                   PROVE  /\ asked' => \E p \in Profiles : row'[p] = "default"
                          /\ \A q \in Requests : Fresh(q)' /\ Sure(q)'
      BY <2>1 DEF AskedKept
    <3>2. ASSUME NEW q \in Requests PROVE ~tx'[q].ticks
      <4>1. CASE q = r
        BY <2>3, <4>1
      <4>2. CASE q # r
        BY <2>2, <3>1, <4>2 DEF Structure, Shape, Open
      <4> QED
        BY <4>1, <4>2
    <3>3. CASE tx[r].ticks
      <4>1. Fresh(r) /\ Sure(r)
        BY <3>1 DEF AskedKept
      <4>2. row'[tx[r].id] = "default"
        BY <2>1, <2>5, <3>3, <4>1, NobodyIsNoId DEF Fresh, Sure, NobodyIsNoId
      <4> QED
        BY <2>5, <3>2, <4>2 DEF Fresh, Sure
    <3>4. CASE ~tx[r].ticks
      <4>1. ASSUME asked' PROVE \E p \in Profiles : row'[p] = "default"
        <5>1. asked /\ (row[tx[r].id] = "default" => tx[r].version[tx[r].id] = Nobody)
          BY <2>1, <3>4, <4>1
        <5>2. PICK p \in Profiles : row[p] = "default"
          BY <3>1, <5>1 DEF AskedKept
        <5>3. tx[r].version[p] = Nobody
          BY <3>4, <5>1, <5>2 DEF Structure, Versions
        <5> QED
          BY <2>1, <5>2, <5>3
      <4> QED
        BY <3>2, <4>1 DEF Fresh, Sure
    <3> QED
      BY <3>3, <3>4
  <2> QED
    BY <2>6, <2>7
<1>9. CASE UNCHANGED profileVars
  <2>1. tx' = tx /\ row' = row /\ asked' = asked /\ created' = created /\ stale' = stale
    BY <1>9 DEF profileVars
  <2> QED
    BY <2>1 DEF OneDefault, AskedKept, AtMostOne, Alone, Clearing, Fresh, Sure, Open, Exists
<1> QED
  BY <1>1, <1>2, <1>3, <1>4, <1>5, <1>6, <1>7, <1>8, <1>9 DEF ProfilesNext
-----------------------------------------------------------------------------
(* The theorems.                                                           *)

LEMMA InitIInv ==
  ASSUME NobodyIsNoId, IsFiniteSet(Profiles), ProfilesInit
  PROVE  IInv
<1>1. ProfilesTypeOK
  BY ProfilesInitTypeOK
<1>2. \A r \in Requests : /\ tx[r].at = "idle" /\ tx[r].ticks = FALSE /\ tx[r].todo = {}
                           /\ tx[r].wants = Nobody /\ tx[r].id = Nobody /\ tx[r].op = "create"
                           /\ \A p \in Profiles : tx[r].version[p] = Nobody
  BY DEF ProfilesInit, NoTx
<1>3. \A r \in Requests, p \in Profiles : lock[p] # r
  BY NobodyIsNoId DEF ProfilesInit, NobodyIsNoId
<1>4. Structure
  BY <1>2, <1>3 DEF Structure, Distinct, Shape, Versions, LateLock, Open
<1>5. AtMostOne
  <2> DEFINE D == {p \in Profiles : row[p] = "default"}
  <2>1. IsFiniteSet(D) /\ Cardinality(D) \in Nat /\ Cardinality(D) <= 1
    <3>1. D \in SUBSET Profiles
      OBVIOUS
    <3>2. IsFiniteSet(D) /\ Cardinality(D) \in Nat
      BY <3>1, FS_Subset, FS_CardinalityType
    <3> QED
      BY <3>2 DEF ProfilesInit
  <2>2. D = {} \/ \E x : D = {x}
    <3>1. Cardinality(D) = 0 \/ Cardinality(D) = 1
      BY <2>1
    <3> HIDE DEF D
    <3> QED
      BY <2>1, <3>1, FS_EmptySet, FS_Singleton
  <2> QED
    BY <2>2 DEF AtMostOne
<1>6. OneDefault
  BY <1>2, <1>5 DEF OneDefault, Alone, Clearing, Open
<1>7. AskedKept
  BY <1>2 DEF ProfilesInit, AskedKept, Fresh, Sure, Open
<1> QED
  BY <1>1, <1>4, <1>6, <1>7 DEF IInv

LEMMA Inductive ==
  ASSUME NobodyIsNoId, IInv, [ProfilesNext]_profileVars
  PROVE  IInv'
  BY StepTypeOK, StepStructure, StepDefaults DEF IInv

LEMMA Invariance ==
  ASSUME NobodyIsNoId, IsFiniteSet(Profiles)
  PROVE  ProfilesSpec => []IInv
<1>1. ProfilesInit => IInv
  BY InitIInv
<1>2. IInv /\ [ProfilesNext]_profileVars => IInv'
  BY Inductive
<1> QED
  BY <1>1, <1>2, PTL DEF ProfilesSpec

\* Rows, requests, locks and the versions that are not committed have their types,
\* and a version of a row is written only under the lock of the row.
THEOREM ProfilesTypeCorrect ==
  ASSUME NobodyIsNoId, IsFiniteSet(Profiles)
  PROVE  ProfilesSpec => []ProfilesTypeOK
<1>1. IInv => ProfilesTypeOK
  BY DEF IInv
<1> QED
  BY <1>1, Invariance, PTL

\* Two default profiles come only of a create that overlapped a save that ticks
\* the box, and none at all only of a save that found its row before another one
\* committed, for any number of concurrent requests (profile.rb:69-75).
THEOREM OneDefaultUnlessRaced ==
  ASSUME NobodyIsNoId, IsFiniteSet(Profiles)
  PROVE  ProfilesSpec => []DefaultsHaveCause
<1>1. IInv => DefaultsHaveCause
  <2> SUFFICES ASSUME IInv PROVE DefaultsHaveCause
    OBVIOUS
  <2>1. asked /\ Defaults = {} => stale
    BY DEF IInv, AskedKept, Defaults
  <2>2. ~created => ~(Cardinality(Defaults) > 1)
    <3>1. SUFFICES ASSUME ~created PROVE Cardinality(Defaults) \in {0, 1}
      OBVIOUS
    <3>2. AtMostOne
      BY <3>1 DEF IInv, OneDefault
    <3>3. CASE Defaults = {}
      BY <3>3, FS_EmptySet
    <3>4. CASE Defaults # {}
      <4>1. PICK x \in Defaults : TRUE
        BY <3>4
      <4>2. Defaults = {x}
        BY <3>2, <4>1 DEF AtMostOne, Defaults
      <4> QED
        BY <4>2, FS_Singleton
    <3> QED
      BY <3>3, <3>4
  <2> QED
    BY <2>1, <2>2 DEF DefaultsHaveCause
<1> QED
  BY <1>1, Invariance, PTL

\* Transactions wait for each other in a cycle only if every one of them ticks
\* the box: the rename, deletion or untick of a profile can wait, and is never in
\* the cycle PostgreSQL has to break.
THEOREM OnlyDefaultsDeadlock ==
  ASSUME NobodyIsNoId, IsFiniteSet(Profiles)
  PROVE  ProfilesSpec => []CycleNeedsDefaults
<1>1. IInv => CycleNeedsDefaults
  <2> SUFFICES ASSUME IInv, NEW rs \in SUBSET Requests, Deadlocked(rs), NEW r \in rs
               PROVE  tx[r].ticks
    BY DEF CycleNeedsDefaults
  <2>1. PICK q \in rs : Waits(q, r)
    BY DEF Deadlocked
  <2>2. PICK s \in rs : Waits(r, s)
    BY DEF Deadlocked
  <2>3. tx[q].wants \in Profiles /\ lock[tx[q].wants] = r
    BY <2>1, TypeOKFields DEF IInv, Tx, Waits
  <2>4. tx[r].at \in {"clear", "write"}
    BY <2>2 DEF Waits, IInv, Structure, Shape
  <2> QED
    BY <2>3, <2>4 DEF IInv, Structure, LateLock
<1> QED
  BY <1>1, Invariance, PTL

-----------------------------------------------------------------------------
(* StageToggles.                                                           *)

Names == Range(Toggles)

StageTypes ==
  /\ up \in BOOLEAN /\ away \in Nat
  /\ hash \in [Names -> Setting]
  /\ update \in [Writers -> [Names -> Setting \cup {"absent"}]]
  /\ explicit \in [Names -> Setting]
  /\ read \in Seq(Values) /\ Len(read) <= Len(Toggles)
  /\ writes \in Nat /\ deaf \in BOOLEAN

\* One configuration in force explains the stages read so far, and would be read
\* to the end if it stayed: what a write changed behind the reading is in it, or
\* what a write changed ahead of it is not.  Until a write it is the present one.
Explains(c) ==
  /\ \A i \in 1..Len(read) : read[i] = c[i]
  /\ \A i \in (Len(read) + 1)..Len(Toggles) : c[i] = InForce(hash)[i]
  /\ writes = 0 /\ Len(read) < Len(Toggles) => c = InForce(hash)

Explained ==
  read # <<>> /\ writes < 2 /\ ~deaf =>
    \E c \in inForce : c \in [Positions -> Values] /\ Explains(c)

StageInv == StageTypes /\ Explained

\* What a toggle resolves to is a value.
LEMMA ResolvedTypes ==
  ASSUME StageTogglesConstantsOK
  PROVE  /\ \A k \in Names : InEnv[k] \in Values
         /\ \A i \in Positions : Toggles[i] \in Names
         /\ Len(Toggles) \in Nat /\ Len(Toggles) # 0
  BY DEF StageTogglesConstantsOK, Positions, Names, Range

LEMMA ChosenTypes ==
  ASSUME StageTogglesConstantsOK, explicit \in [Names -> Setting],
         NEW h \in [Names -> Setting]
  PROVE  InForce(h) \in [Positions -> Values]
<1>1. \A k \in Names : h[k] # "unset" => h[k] \in Values
  BY DEF Setting
<1>2. \A k \in Names, v \in Values : Chosen(k, v) \in Values
  BY DEF Chosen, Setting
<1> QED
  BY <1>1, <1>2, ResolvedTypes DEF InForce

\* The configuration in force where its toggles are written: at most one place
\* of it changes with one key of the hash.
LEMMA InForceAt ==
  ASSUME NEW h, NEW i \in Positions
  PROVE  InForce(h)[i] =
           Chosen(Toggles[i], IF h[Toggles[i]] # "unset" THEN h[Toggles[i]]
                                                               ELSE InEnv[Toggles[i]])
  BY DEF InForce

LEMMA OnePlaceChanges ==
  ASSUME StageTogglesConstantsOK, NEW h, NEW g,
         NEW p \in Positions, \A k \in Names : k # Toggles[p] => g[k] = h[k],
         NEW i \in Positions, i # p
  PROVE  InForce(g)[i] = InForce(h)[i]
<1>1. Toggles[i] # Toggles[p] /\ Toggles[i] \in Names
  BY ResolvedTypes DEF StageTogglesConstantsOK
<1>2. g[Toggles[i]] = h[Toggles[i]]
  BY <1>1
<1>3. /\ InForce(g)[i] =
           Chosen(Toggles[i], IF g[Toggles[i]] # "unset" THEN g[Toggles[i]] ELSE InEnv[Toggles[i]])
      /\ InForce(h)[i] =
           Chosen(Toggles[i], IF h[Toggles[i]] # "unset" THEN h[Toggles[i]] ELSE InEnv[Toggles[i]])
  BY DEF InForce
<1> QED
  BY <1>2, <1>3

\* A nonempty set of numbers has a least one.
LEMMA LeastNumber ==
  ASSUME NEW S \in SUBSET Nat, S # {}
  PROVE  \E x \in S : \A y \in S : x <= y
<1>1. PICK x \in S : \A y \in S : ~ (<<y, x>> \in OpToRel(<, Nat))
  BY NatLessThanWellFounded, WFMin
<1>2. \A y \in S : ~ (y < x)
  BY <1>1 DEF OpToRel
<1> QED
  BY <1>2

\* The first toggle to write is one of those to write.
LEMMA NextToggle ==
  ASSUME StageTogglesConstantsOK, NEW w \in Writers, Pending(w) # {}
  PROVE  \E p \in Positions :
           Toggles[p] = NextKey(w) /\ Toggles[p] \in Pending(w)
<1> DEFINE S == {i \in Positions : Toggles[i] \in Pending(w)}
<1>1. S \subseteq Nat /\ S # {}
  <2>1. PICK k \in Names : k \in Pending(w)
    BY DEF Pending, Names
  <2>2. PICK i \in Positions : Toggles[i] = k
    BY <2>1 DEF Names, Range, Positions, StageTogglesConstantsOK
  <2> QED
    BY <2>1, <2>2 DEF Positions
<1>2. PICK x \in S : \A y \in S : x <= y
  <2> HIDE DEF S
  <2> QED
    BY <1>1, LeastNumber
<1>3. /\ x \in Positions /\ Toggles[x] \in Pending(w)
      /\ \A j \in Positions : Toggles[j] \in Pending(w) => x <= j
  BY <1>2
<1> HIDE DEF S
<1> DEFINE First(i) == /\ Toggles[i] \in Pending(w)
                       /\ \A j \in Positions : Toggles[j] \in Pending(w) => i <= j
           p == CHOOSE i \in Positions : First(i)
<1>4. p \in Positions /\ First(p)
  BY <1>3
<1>5. NextKey(w) = Toggles[p]
  BY DEF NextKey
<1> QED
  BY <1>4, <1>5

LEMMA StageInitOK ==
  ASSUME StageTogglesConstantsOK, ToggleInit
  PROVE  StageInv
<1>1. /\ up = TRUE /\ away = 0 /\ writes = 0 /\ deaf = FALSE /\ read = <<>>
      /\ hash = [k \in Names |-> "unset"]
      /\ update \in [Writers -> [Names -> Setting \cup {"absent"}]]
      /\ explicit \in [Names -> Setting]
  BY DEF ToggleInit, Names
<1>2. hash \in [Names -> Setting]
  BY <1>1 DEF Setting
<1>3. read \in Seq(Values) /\ Len(read) <= Len(Toggles)
  BY <1>1, ResolvedTypes
<1>4. StageTypes
  BY <1>1, <1>2, <1>3 DEF StageTypes
<1> QED
  BY <1>1, <1>4 DEF StageInv, Explained

LEMMA ReadExplained ==
  ASSUME StageTogglesConstantsOK, StageInv, Read
  PROVE  StageInv'
<1> DEFINE m == Len(read)
           k == Toggles[m + 1]
           now == InForce(hash)
<1>0. /\ m \in Nat /\ m < Len(Toggles) /\ m + 1 \in Positions /\ k \in Names
      /\ read' = Append(read, Chosen(k, EffectiveBool(k)))
      /\ deaf' = (deaf \/ (~up /\ explicit[k] = "unset"))
      /\ inForce' = inForce \cup {now}
      /\ UNCHANGED <<up, hash, update, explicit, writes, away>>
  BY ResolvedTypes DEF Read, StageInv, StageTypes, Positions
<1>1. now \in [Positions -> Values]
  BY ChosenTypes DEF StageInv, StageTypes
<1>2. Chosen(k, EffectiveBool(k)) \in Values
  BY <1>0, ResolvedTypes DEF Chosen, EffectiveBool, Setting, StageInv, StageTypes
<1>3. StageTypes'
  BY <1>0, <1>2 DEF StageInv, StageTypes, Setting, Values
<1>4. ~deaf' => Chosen(k, EffectiveBool(k)) = now[m + 1]
  BY <1>0, InForceAt DEF Chosen, EffectiveBool, StageInv, StageTypes
<1>5. InForce(hash)' = now
  BY <1>0 DEF InForce, Chosen
<1>6. /\ Len(read') = m + 1
      /\ \A i \in 1..m : read'[i] = read[i]
      /\ read'[m + 1] = Chosen(k, EffectiveBool(k))
  BY <1>0 DEF StageInv, StageTypes
<1>7. ASSUME writes' < 2, ~deaf'
      PROVE  \E c \in inForce' : c \in [Positions -> Values] /\ Explains(c)'
  <2>1. CASE read = <<>>
    <3>1. m = 0 /\ now \in inForce'
      BY <2>1, <1>0
    <3>2. PICK c : c = now
      OBVIOUS
    <3>3. Explains(c)'
      BY <3>1, <3>2, <1>0, <1>4, <1>5, <1>6, <1>7 DEF Explains
    <3> QED
      BY <1>1, <3>1, <3>2, <3>3
  <2>2. CASE read # <<>>
    <3>1. PICK c \in inForce : c \in [Positions -> Values] /\ Explains(c)
      BY <2>2, <1>0, <1>7 DEF StageInv, Explained
    <3>2. c[m + 1] = now[m + 1]
      BY <3>1, <1>0 DEF Explains, Positions
    <3>3. Explains(c)'
      BY <3>1, <3>2, <1>0, <1>4, <1>5, <1>6, <1>7, ResolvedTypes DEF Explains
    <3> QED
      BY <3>1, <3>3, <1>0
  <2> QED
    BY <2>1, <2>2
<1> QED
  BY <1>3, <1>7 DEF StageInv, Explained, Positions, Values

LEMMA WriteExplained ==
  ASSUME StageTogglesConstantsOK, StageInv, NEW w \in Writers, WriteToggle(w)
  PROVE  StageInv'
<1> DEFINE m == Len(read)
           before == InForce(hash)
           after == InForce(hash')
           k == NextKey(w)
<1>1. PICK p \in Positions : Toggles[p] = k /\ k \in Pending(w)
  BY NextToggle DEF WriteToggle
<1>2. /\ k \in Names /\ update[w][k] \in Setting
      /\ hash' = [hash EXCEPT ![k] = update[w][k]]
      /\ update' = [update EXCEPT ![w][k] = "absent"]
      /\ inForce' = IF Reading THEN inForce \cup {after} ELSE inForce
      /\ writes' = IF Reading /\ after # before THEN writes + 1 ELSE writes
      /\ UNCHANGED <<up, explicit, read, deaf, away>>
  <2>1. k \in Names /\ update[w][k] # "absent"
    BY <1>1 DEF Pending, Names
  <2>2. InForce(hash') = InForce(hash)'
    BY DEF WriteToggle, InForce, Chosen
  <2> QED
    BY <2>1, <2>2 DEF WriteToggle, StageInv, StageTypes
<1>3. StageTypes'
  BY <1>2 DEF StageInv, StageTypes
<1>4. /\ before \in [Positions -> Values]
      /\ after \in [Positions -> Values]
      /\ \A i \in Positions : i # p => after[i] = before[i]
      /\ InForce(hash)' = after
  <2>1. hash' \in [Names -> Setting]
    BY <1>3 DEF StageTypes
  <2>2. InForce(hash)' = after
    BY <1>2 DEF InForce, Chosen
  <2>3. hash' = [hash EXCEPT ![Toggles[p]] = update[w][k]]
    BY <1>1, <1>2
  <2>4. hash \in [Names -> Setting] /\ explicit \in [Names -> Setting]
    BY DEF StageInv, StageTypes
  <2>5. ASSUME NEW i \in Positions, i # p PROVE after[i] = before[i]
    <3>1. \A l \in Names : l # Toggles[p] => hash'[l] = hash[l]
      BY <2>3, <2>4
    <3>2. InForce(hash')[i] = InForce(hash)[i]
      <4> HIDE DEF before, after, k
      <4> QED
        BY <3>1, <2>5, OnePlaceChanges
    <3> QED
      BY <3>2
  <2>6. /\ before \in [Positions -> Values]
        /\ after \in [Positions -> Values]
    BY <2>1, <2>4, ChosenTypes
  <2> QED
    BY <2>2, <2>5, <2>6
<1>5. m \in Nat /\ Len(Toggles) \in Nat /\ read' = read /\ deaf' = deaf /\ writes \in Nat
  BY <1>2, ResolvedTypes DEF StageInv, StageTypes
<1> HIDE DEF before, after, k
<1>6. ASSUME read # <<>>, writes' < 2, ~deaf
      PROVE  \E c \in inForce' : c \in [Positions -> Values] /\ Explains(c)'
  <2>1. writes < 2
    BY <1>2, <1>5, <1>6
  <2>2. PICK c \in inForce : c \in [Positions -> Values] /\ Explains(c)
    BY <2>1, <1>6 DEF StageInv, Explained
  <2>3. CASE ~ Reading \/ after = before
    <3>1. \A i \in (m + 1)..Len(Toggles) : c[i] = after[i]
      BY <2>2, <2>3, <1>5, <1>6 DEF Explains, Reading, before
    <3>2. writes' = writes /\ c \in inForce'
      BY <2>3, <1>2
    <3>3. m < Len(Toggles) => Reading
      BY <1>5, <1>6 DEF Reading, StageInv, StageTypes
    <3>4. Explains(c)'
      BY <2>2, <2>3, <3>1, <3>2, <3>3, <1>4, <1>5 DEF Explains, before
    <3> QED
      BY <2>2, <3>2, <3>4
  <2>4. CASE Reading /\ after # before
    <3>1. writes = 0 /\ writes' = 1 /\ after \in inForce' /\ c \in inForce'
      BY <2>4, <1>2, <1>5, <1>6
    <3>2. c = before /\ m < Len(Toggles)
      BY <2>2, <2>4, <3>1, <1>5 DEF Explains, Reading, before
    <3>3. CASE p <= m
      <4>1. \A i \in (m + 1)..Len(Toggles) : c[i] = after[i]
        BY <3>2, <3>3, <1>4, <1>5 DEF Positions
      <4>2. Explains(c)'
        BY <2>2, <3>1, <4>1, <1>4, <1>5 DEF Explains
      <4> QED
        BY <2>2, <3>1, <4>2
    <3>4. CASE p > m
      <4>1. \A i \in 1..m : read[i] = after[i]
        BY <2>2, <3>2, <3>4, <1>4, <1>5 DEF Explains, Positions
      <4>2. PICK d : d = after
        OBVIOUS
      <4>3. Explains(d)'
        BY <3>1, <4>1, <4>2, <1>4, <1>5 DEF Explains
      <4> QED
        BY <1>4, <3>1, <4>2, <4>3
    <3> QED
      BY <3>3, <3>4, <1>5 DEF Positions
  <2> QED
    BY <2>3, <2>4
<1> QED
  BY <1>3, <1>5, <1>6 DEF StageInv, Explained

LEMMA StageStepOK ==
  ASSUME StageTogglesConstantsOK, StageInv, [ToggleNext]_(toggleVars)
  PROVE  StageInv'
<1>1. CASE Read
  BY <1>1, ReadExplained
<1>2. ASSUME NEW w \in Writers, WriteToggle(w) PROVE StageInv'
  BY <1>2, WriteExplained
<1>3. CASE \/ GoAway \/ ComeBack \/ UNCHANGED toggleVars
           \/ \E w \in Writers : WriteFails(w)
  <2>1. /\ UNCHANGED <<hash, explicit, read, inForce, writes, deaf>>
        /\ StageTypes'
    <3>1. CASE GoAway \/ ComeBack
      <4>1. /\ UNCHANGED <<hash, update, explicit, read, inForce, writes, deaf>>
            /\ away' = away + 1 \/ away' = away
        BY <3>1, Zenon DEF GoAway, ComeBack
      <4>2. up' \in BOOLEAN
        BY <3>1, Zenon DEF GoAway, ComeBack
      <4> QED
        BY <4>1, <4>2 DEF StageInv, StageTypes
    <3>2. CASE UNCHANGED toggleVars
      BY <3>2 DEF toggleVars, StageInv, StageTypes
    <3>3. CASE \E w \in Writers : WriteFails(w)
      BY <3>3 DEF WriteFails, StageInv, StageTypes, Names
    <3> QED
      BY <1>3, <3>1, <3>2, <3>3
  <2>2. InForce(hash)' = InForce(hash)
    BY <2>1 DEF InForce, Chosen
  <2> QED
    BY <2>1, <2>2 DEF StageInv, Explained, Explains
<1> QED
  BY <1>1, <1>2, <1>3 DEF ToggleNext

\* However many toggles there are and however many operators save them, the
\* stages of a request are those of one configuration that was in force while
\* it read them, unless two toggles changed meanwhile or Redis was away
\* (advanced_search, update_retrieval).
THEOREM StagesAreHeld ==
  ASSUME StageTogglesConstantsOK
  PROVE  ToggleSpec => []StagesHeld
<1>1. StageInv => StagesHeld
  <2> SUFFICES ASSUME StageInv, Len(read) = Len(Toggles), writes < 2, ~deaf
               PROVE  read \in inForce
    BY DEF StagesHeld, StageInv, StageTypes
  <2>1. read # <<>>
    BY ResolvedTypes
  <2>2. PICK c \in inForce : c \in [Positions -> Values] /\ Explains(c)
    BY <2>1 DEF StageInv, Explained
  <2>3. read \in [Positions -> Values]
    BY DEF StageInv, StageTypes, Positions
  <2>4. \A i \in Positions : read[i] = c[i]
    BY <2>2 DEF Explains, Positions
  <2>5. read = c
    BY <2>2, <2>3, <2>4
  <2> QED
    BY <2>2, <2>5
<1> QED
  BY <1>1, StageInitOK, StageStepOK, PTL DEF ToggleSpec
=============================================================================
