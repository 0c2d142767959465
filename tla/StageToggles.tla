---------------------------- MODULE StageToggles ----------------------------
(***************************************************************************)
(* The toggles of the retrieval stages: one Redis hash of overrides of the *)
(* .env defaults, PUT /api/v1/config/retrieval writing it key by key, and  *)
(* a request to /v1/retrieval/advanced-search reading it key by key.       *)
(***************************************************************************)
EXTENDS Naturals, Sequences, FiniteSets, Functions

CONSTANTS
  Toggles,    \* the keys of the hash, in the order both handlers take them
  InEnv,      \* their values in .env
  Writers,    \* PUT handlers
  MaxAway     \* bound: times that Redis goes away

Values == {"on", "off"}
Setting == Values \cup {"unset"}
Positions == 1..Len(Toggles)

\* Assumed of the constants: the toggles are some, and distinct.
StageTogglesConstantsOK ==
  /\ Toggles \in Seq(Range(Toggles)) /\ Toggles # <<>>
  /\ \A i, j \in Positions : Toggles[i] = Toggles[j] => i = j
  /\ InEnv \in [Range(Toggles) -> Values]

VARIABLES
  up,        \* whether Redis answers
  hash,      \* the hash estimator:runtime_retrieval
  update,    \* what each PUT has still to write: toggles to settings, or done
  explicit,  \* the stage fields of the request
  read,      \* the toggles the request has read, in order
  inForce,   \* history: the configurations in force for it since it began
  writes,    \* history: toggles that changed value since it began
  deaf,      \* history: it read a toggle while Redis was away
  away

toggleVars == <<up, hash, update, explicit, read, inForce, writes, deaf, away>>

\* _get_raw and _effective_bool: an unreadable hash reads as no override.
EffectiveBool(k) == IF up /\ hash[k] # "unset" THEN hash[k] ELSE InEnv[k]

\* Mutant: the field is tested for truth and not for presence.
X_Chosen(k, fallback) == IF explicit[k] = "on" THEN "on" ELSE fallback

\* An explicit field of the request wins over the configuration.
Chosen(k, fallback) == IF explicit[k] # "unset" THEN explicit[k] ELSE fallback

\* The configuration the request would run under, given a state of the hash.
InForce(h) ==
  [i \in Positions |->
     LET k == Toggles[i]
     IN Chosen(k, IF h[k] # "unset" THEN h[k] ELSE InEnv[k])]

Reading == Len(read) \in 1..(Len(Toggles) - 1)

ToggleInit ==
  /\ up = TRUE /\ away = 0
  /\ hash = [k \in Range(Toggles) |-> "unset"]
  /\ update \in [Writers -> [Range(Toggles) -> Setting \cup {"absent"}]]
  /\ explicit \in [Range(Toggles) -> Setting]
  /\ read = <<>> /\ inForce = {} /\ writes = 0 /\ deaf = FALSE

-----------------------------------------------------------------------------
\* advanced_search resolves the next toggle.
Read ==
  /\ Len(read) < Len(Toggles)
  /\ LET k == Toggles[Len(read) + 1]
     IN /\ read' = Append(read, Chosen(k, EffectiveBool(k)))
        /\ deaf' = (deaf \/ (~up /\ explicit[k] = "unset"))
  /\ inForce' = inForce \cup {InForce(hash)}
  /\ UNCHANGED <<up, hash, update, explicit, writes, away>>

Pending(w) == {k \in Range(Toggles) : update[w][k] # "absent"}

\* The first toggle still to write: search_mode, rerank, then the stages.
NextKey(w) == Toggles[CHOOSE i \in Positions :
                        /\ Toggles[i] \in Pending(w)
                        /\ \A j \in Positions : Toggles[j] \in Pending(w) => i <= j]

\* update_retrieval: set or delete the key; a null deletes it.
WriteToggle(w) ==
  /\ Pending(w) # {} /\ up
  /\ LET k == NextKey(w)
     IN /\ hash' = [hash EXCEPT ![k] = update[w][k]]
        /\ update' = [update EXCEPT ![w][k] = "absent"]
  /\ inForce' = IF Reading THEN inForce \cup {InForce(hash')} ELSE inForce
  /\ writes' = IF Reading /\ InForce(hash') # InForce(hash) THEN writes + 1 ELSE writes
  /\ UNCHANGED <<up, explicit, read, deaf, away>>

\* RuntimeConfigUnavailable: a 503, with the keys before it already written.
WriteFails(w) ==
  /\ Pending(w) # {} /\ ~up
  /\ update' = [update EXCEPT ![w] = [k \in Range(Toggles) |-> "absent"]]
  /\ UNCHANGED <<up, hash, explicit, read, inForce, writes, deaf, away>>

GoAway ==
  /\ up /\ away < MaxAway
  /\ up' = FALSE /\ away' = away + 1
  /\ UNCHANGED <<hash, update, explicit, read, inForce, writes, deaf>>

ComeBack ==
  /\ ~up /\ up' = TRUE
  /\ UNCHANGED <<hash, update, explicit, read, inForce, writes, deaf, away>>

ToggleNext ==
  \/ Read \/ GoAway \/ ComeBack
  \/ \E w \in Writers : WriteToggle(w) \/ WriteFails(w)

ToggleSpec == ToggleInit /\ [][ToggleNext]_toggleVars

-----------------------------------------------------------------------------
\* The stages a request runs with, its explicit fields included, were in force
\* together at some moment of its reading: except that two writes in between can
\* leave it with a mixture that never was, and that a toggle read while Redis is
\* away is the .env default (retrieval_advanced.py:105).
StagesHeld ==
  Len(read) = Len(Toggles) => read \in inForce \/ writes >= 2 \/ deaf
=============================================================================
