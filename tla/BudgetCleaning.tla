--------------------------- MODULE BudgetCleaning ---------------------------
(***************************************************************************)
(* clean_budget_records and validate_with_policy: raw budgets become one   *)
(* row per budget id, and each row goes to the valid, the quarantined or   *)
(* the discarded ones.  pandera is external: it reports every cell that    *)
(* fails a check of the schema, with the check's name and the row, and a   *)
(* column that is not there, or one too many, with no row.                 *)
(***************************************************************************)
EXTENDS Naturals, Sequences

CONSTANTS
  Ids,       \* values of budget_id
  Dates,     \* values of signed_at, in their order; 0 is one that does not parse
  MaxBatch,  \* bound: records of a batch
  NoId       \* a missing budget_id

\* What is wrong in the other columns the batch has: a cell without a value, or one
\* with a value out of range, not in the list, or of another form.
Defects == {"missing", "malformed"}

Records == [id : Ids \cup {NoId}, date : Dates, defects : SUBSET Defects]

\* The columns that deduplication wants: a frame has those that some record has.
KeyColumns == {"budget_id", "signed_at"}

\* Assumed of the constants.
CleaningConstantsOK == Dates \subseteq Nat /\ MaxBatch \in Nat /\ NoId \notin Ids

VARIABLES
  batch,   \* the records as they were read
  columns, \* the key columns they make
  stage,   \* what the batch went through
  frame,   \* the rows of the DataFrame, by their places in the batch
  result   \* the three partitions of the rows

batchVars == <<batch, columns, stage, frame, result>>

NoResult == [valid |-> {}, quarantined |-> {}, discarded |-> {}]

BatchTypeOK ==
  /\ \E n \in 0..MaxBatch : batch \in [1..n -> Records]
  /\ columns \subseteq KeyColumns
  /\ stage \in {"read", "cleaned", "routed"}
  /\ frame \subseteq DOMAIN batch
  /\ result \in [DOMAIN NoResult -> SUBSET DOMAIN batch]

BatchInit ==
  /\ batch \in UNION {[1..n -> Records] : n \in 0..MaxBatch}
  /\ columns \in SUBSET (IF batch = <<>> THEN {} ELSE KeyColumns)
  /\ \A i \in DOMAIN batch : /\ "budget_id" \notin columns => batch[i].id = NoId
                             /\ "signed_at" \notin columns => batch[i].date = 0
  /\ stage = "read"
  /\ frame = DOMAIN batch
  /\ result = NoResult

\* sort_values(by=["budget_id", "signed_at"], na_position="first") is stable.
Before(i, j) ==
  batch[i].date < batch[j].date \/ (batch[i].date = batch[j].date /\ i < j)

\* Mutant: rows of one id are kept in the order they were read.
Kept_LastRead(i) == \A j \in frame \ {i} : batch[j].id = batch[i].id => j < i

\* drop_duplicates(subset=["budget_id"], keep="last"): missing ids are equal.
Kept(i) == \A j \in frame \ {i} : batch[j].id = batch[i].id => Before(j, i)

Deduplicates == KeyColumns \subseteq columns

\* clean_budget_records.
Clean ==
  /\ stage = "read"
  /\ frame' = {i \in frame : Deduplicates => Kept(i)}
  /\ stage' = "cleaned"
  /\ UNCHANGED <<batch, columns, result>>

\* The failure cases that name a row: a null in a column that may not be null, or
\* a value that a check of the column refuses.  A column that is not there fails
\* without a row, and _route_failures passes over it.
Nulls ==
  {i \in frame : \/ "budget_id" \in columns /\ batch[i].id = NoId
                 \/ "signed_at" \in columns /\ batch[i].date = 0
                 \/ "missing" \in batch[i].defects}
Refused == {i \in frame : "malformed" \in batch[i].defects}

\* _route_failures: DISCARD_CHECKS win over QUARANTINE_CHECKS.
Routed ==
  [discarded |-> Refused, quarantined |-> Nulls \ Refused, valid |-> frame \ (Refused \cup Nulls)]

\* validate_with_policy.
Route ==
  /\ stage = "cleaned"
  /\ result' = Routed
  /\ stage' = "routed"
  /\ UNCHANGED <<batch, columns, frame>>

BatchNext == Clean \/ Route

BatchSpec == BatchInit /\ [][BatchNext]_batchVars

-----------------------------------------------------------------------------
(* Properties.                                                             *)

\* Where a record ended up.
Places(i) == {part \in DOMAIN result : i \in result[part]}

\* A record is in one partition; or the batch has ids and dates, and another of
\* its id, at least as recent, is in one: records without an id are taken for one
\* budget, and all but one vanish (budget_records.py:73).  What counts as valid has
\* no defect in the columns the batch has, and has the id and the date of which the
\* batch has the column; no two of one id, unless there was no deduplication.
RecordsRouted ==
  stage = "routed" =>
    /\ \A i \in DOMAIN batch :
         \/ \E part \in DOMAIN result : Places(i) = {part}
         \/ /\ Places(i) = {} /\ columns = KeyColumns
            /\ \E j \in UNION {result[part] : part \in DOMAIN result} :
                 /\ batch[j].id = batch[i].id
                 /\ batch[j].date >= batch[i].date
    /\ \A i \in result.valid :
         /\ batch[i].defects = {}
         /\ "budget_id" \in columns => batch[i].id \in Ids
         /\ "signed_at" \in columns => batch[i].date # 0
         /\ columns = KeyColumns => \A j \in result.valid \ {i} : batch[j].id # batch[i].id
=============================================================================
