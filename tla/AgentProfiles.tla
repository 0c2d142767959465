---------------------------- MODULE AgentProfiles ----------------------------
(***************************************************************************)
(* The default profile of the agents console.  A save that ticks "default" *)
(* unticks every other row with one UPDATE, in the transaction that writes *)
(* its own row; the transactions of the web server's threads run side by   *)
(* side under READ COMMITTED: a statement sees the rows committed when it  *)
(* starts, takes the lock of each row it changes until the transaction     *)
(* ends, and waits for the locks of others.                                *)
(***************************************************************************)
EXTENDS Naturals, FiniteSets

CONSTANTS
  Profiles,   \* rows of agent_profiles
  Requests,   \* saves and deletions; bounds the behaviours
  Nobody      \* no row, no request

\* Assumed of the constants.
NobodyIsNoId == Nobody \notin Profiles \cup Requests \cup {"absent", "plain", "default"}

VARIABLES
  row,      \* the committed rows: absent, plain or default
  tx,       \* the requests
  lock,     \* who holds the lock of a row
  asked,    \* history: the last save or deletion left a default profile
  created,  \* history: a create overlapped a save, and one of the two ticked the box
  stale     \* history: a save found its row before another one committed

profileVars == <<row, tx, lock, asked, created, stale>>

Rows == {"absent", "plain", "default"}

\* A request: what it does to which profile, whether it ticks the box, the row
\* as `find` loaded it, whether it changes another column, the rows its UPDATE
\* has left to visit, the one it waits for, and its uncommitted versions.
NoTx == [at |-> "idle", op |-> "create", id |-> Nobody, ticks |-> FALSE, loaded |-> "absent",
         edits |-> FALSE, todo |-> {}, wants |-> Nobody, version |-> [p \in Profiles |-> Nobody]]

ProfilesTypeOK ==
  /\ row \in [Profiles -> Rows]
  /\ tx \in [Requests -> [at : {"idle", "found", "clear", "write", "commit", "ended"},
                          op : {"create", "update", "destroy"}, id : Profiles \cup {Nobody},
                          ticks : BOOLEAN, loaded : Rows, edits : BOOLEAN,
                          todo : SUBSET Profiles, wants : Profiles \cup {Nobody},
                          version : [Profiles -> Rows \cup {Nobody}]]]
  /\ lock \in [Profiles -> Requests \cup {Nobody}]
  /\ {asked, created, stale} \subseteq BOOLEAN
  /\ \A r \in Requests, p \in Profiles :
       tx[r].version[p] # Nobody => lock[p] = r \/ (tx[r].op = "create" /\ tx[r].id = p)

ProfilesInit ==
  /\ row \in {f \in [Profiles -> Rows] : Cardinality({p \in Profiles : f[p] = "default"}) <= 1}
  /\ tx = [r \in Requests |-> NoTx]
  /\ lock = [p \in Profiles |-> Nobody]
  /\ asked = \E p \in Profiles : row[p] = "default"
  /\ created = FALSE /\ stale = FALSE

Open == {r \in Requests : tx[r].at \notin {"idle", "ended"}}

Exists(p) == row[p] # "absent"

\* One of two overlapping saves creates its row, and one ticks the box.
CreateOverlaps(op, ticks) == \E q \in Open : (ticks \/ tx[q].ticks) /\ "create" \in {op, tx[q].op}

-----------------------------------------------------------------------------

\* ProfilesController#create, #update and #destroy, up to the row they load.
Find(r, op, p, ticks, edits) ==
  /\ tx[r].at = "idle"
  /\ IF op = "create" THEN ~Exists(p) /\ \A q \in Open : tx[q].id # p ELSE Exists(p)
  /\ op = "destroy" => ~ticks /\ ~edits
  /\ tx' = [tx EXCEPT ![r] = [NoTx EXCEPT !.at = "found", !.op = op, !.id = p, !.ticks = ticks,
                                          !.loaded = row[p], !.edits = edits]]
  /\ created' = (created \/ CreateOverlaps(op, ticks))
  /\ UNCHANGED <<row, lock, asked, stale>>

\* Mutant: the callback is a before_create.
X_BeginCreate(r) ==
  /\ tx[r].at = "found"
  /\ tx' = [tx EXCEPT ![r].at = IF tx[r].ticks THEN "clear" ELSE "write",
                      ![r].todo = IF tx[r].ticks /\ tx[r].op = "create"
                                  THEN {p \in Profiles \ {tx[r].id} : Exists(p)} ELSE {}]
  /\ UNCHANGED <<row, lock, asked, created, stale>>

\* `save` validates, then before_save: ensure_single_default.
Begin(r) ==
  /\ tx[r].at = "found"
  /\ tx' = [tx EXCEPT ![r].at = IF tx[r].ticks THEN "clear" ELSE "write",
                      ![r].todo = IF tx[r].ticks
                                  THEN {p \in Profiles \ {tx[r].id} : Exists(p)} ELSE {}]
  /\ UNCHANGED <<row, lock, asked, created, stale>>

\* The form is wrong (422), or the name is taken by now (500).
Invalid(r) ==
  /\ tx[r].at = "found" /\ tx[r].op # "destroy"
  /\ tx' = [tx EXCEPT ![r] = [NoTx EXCEPT !.at = "ended"]]
  /\ UNCHANGED <<row, lock, asked, created, stale>>

\* The UPDATE or DELETE reaches a row, in no order that can be relied on.
Reach(r, p) ==
  /\ tx[r].wants = Nobody
  /\ \/ tx[r].at = "clear" /\ p \in tx[r].todo
     \/ /\ tx[r].at = "write" /\ p = tx[r].id /\ tx[r].op # "create"
        /\ tx[r].op = "destroy" \/ tx[r].edits \/ (tx[r].loaded = "default") # tx[r].ticks
  /\ tx' = [tx EXCEPT ![r].wants = p]
  /\ UNCHANGED <<row, lock, asked, created, stale>>

\* Only the columns that differ from the row that was loaded are written.
Written(r, p) ==
  LET t == tx[r]
  IN IF ~Exists(p) THEN Nobody
     ELSE IF t.at = "clear" THEN "plain"
     ELSE IF t.op = "destroy" THEN "absent"
     ELSE IF (t.loaded = "default") = t.ticks THEN Nobody
     ELSE IF t.ticks THEN "default" ELSE "plain"

\* It gets the lock, and changes the row as it is by then.
Take(r) ==
  LET p == tx[r].wants
  IN /\ p # Nobody /\ lock[p] = Nobody
     /\ lock' = [lock EXCEPT ![p] = r]
     /\ tx' = [tx EXCEPT ![r].wants = Nobody, ![r].todo = @ \ {p}, ![r].version[p] = Written(r, p),
                         ![r].at = IF @ = "write" THEN "commit" ELSE @]
     /\ UNCHANGED <<row, asked, created, stale>>

Cleared(r) ==
  /\ tx[r].at = "clear" /\ tx[r].todo = {}
  /\ tx' = [tx EXCEPT ![r].at = "write"]
  /\ UNCHANGED <<row, lock, asked, created, stale>>

\* INSERT needs no lock; a save that changes no column writes nothing.
WriteNothingHeld(r) ==
  /\ tx[r].at = "write" /\ tx[r].wants = Nobody
  /\ \/ tx[r].op = "create"
     \/ tx[r].op = "update" /\ ~tx[r].edits /\ (tx[r].loaded = "default") = tx[r].ticks
  /\ tx' = [tx EXCEPT ![r].at = "commit",
                      ![r].version[tx[r].id] = IF tx[r].op # "create" THEN Nobody
                                               ELSE IF tx[r].ticks THEN "default" ELSE "plain"]
  /\ UNCHANGED <<row, lock, asked, created, stale>>

Release(r) == lock' = [p \in Profiles |-> IF lock[p] = r THEN Nobody ELSE lock[p]]

Commit(r) ==
  /\ tx[r].at = "commit"
  /\ row' = [p \in Profiles |-> IF tx[r].version[p] = Nobody THEN row[p] ELSE tx[r].version[p]]
  /\ asked' = (tx[r].ticks \/ (asked /\ (row[tx[r].id] = "default" => tx[r].version[tx[r].id] = Nobody)))
  /\ stale' = (stale \/ \E q \in Open \ {r} : tx[q].ticks)
  /\ tx' = [tx EXCEPT ![r] = [NoTx EXCEPT !.at = "ended"]]
  /\ Release(r)
  /\ UNCHANGED created

\* r waits for a lock that q holds.
Waits(r, q) == tx[r].wants # Nobody /\ lock[tx[r].wants] = q /\ q # r

Deadlocked(rs) == \A r \in rs : (\E q \in rs : Waits(r, q)) /\ (\E q \in rs : Waits(q, r))

\* PostgreSQL cancels one transaction of a cycle: the request ends with a 500.
Deadlock(r) ==
  /\ \E rs \in SUBSET Requests : r \in rs /\ Deadlocked(rs)
  /\ tx' = [tx EXCEPT ![r] = [NoTx EXCEPT !.at = "ended"]]
  /\ Release(r)
  /\ UNCHANGED <<row, asked, created, stale>>

ProfilesNext == \E r \in Requests :
  \/ \E op \in {"create", "update", "destroy"}, p \in Profiles, ticks, edits \in BOOLEAN :
       Find(r, op, p, ticks, edits)
  \/ \E p \in Profiles : Reach(r, p)
  \/ Begin(r) \/ Invalid(r) \/ Take(r) \/ Cleared(r) \/ WriteNothingHeld(r) \/ Commit(r)
  \/ Deadlock(r)

ProfilesSpec == ProfilesInit /\ [][ProfilesNext]_profileVars

-----------------------------------------------------------------------------
(* Properties.                                                             *)

Defaults == {p \in Profiles : row[p] = "default"}

\* There is one default profile once a save has asked for one (profile.rb:69).
\* There may be two only if a row was created while a save ran that ticks the
\* box, whose UPDATE cannot see it; there may be none only if a save found its
\* row before another one committed, so that its own UPDATE leaves the box out.
DefaultsHaveCause ==
  /\ Cardinality(Defaults) > 1 => created
  /\ asked /\ Defaults = {} => stale

\* Two transactions wait for each other only if both tick the box: a rename, a
\* deletion or an untick holds one lock at most (profile.rb:72).
CycleNeedsDefaults ==
  \A rs \in SUBSET Requests : Deadlocked(rs) => \A r \in rs : tx[r].ticks
=============================================================================
