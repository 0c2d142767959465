---------------------------- MODULE JobLifecycle ----------------------------
(***************************************************************************)
(* What an ingestion_jobs row promises to whoever polls it (persistence/   *)
(* repositories/jobs.py 3): pending -> running -> completed | failed, each *)
(* job on its own, a terminal status is final, the counter of a running    *)
(* job never goes back, and a failure leaves it where it was.              *)
(***************************************************************************)
EXTENDS Naturals

CONSTANTS
  Jobs,
  LostAcks  \* whether the acknowledgement of a committed update may be lost

VARIABLES status, processed

vars == <<status, processed>>

Terminal == {"completed", "failed"}

Init ==
  /\ status = [j \in Jobs |-> "none"]
  /\ processed = [j \in Jobs |-> 0]

Move(j, from, to) == status[j] = from /\ status' = [status EXCEPT ![j] = to]

Create(j) == Move(j, "none", "pending") /\ UNCHANGED processed

Start(j) == Move(j, "pending", "running") /\ UNCHANGED processed

Advance(j) ==
  /\ status[j] = "running"
  /\ processed' = [processed EXCEPT ![j] = @ + 1]
  /\ UNCHANGED status

\* The final count is not the counter a running job advances: the expansion
\* writes another one.
Complete(j) ==
  /\ Move(j, "running", "completed")
  /\ processed' \in [Jobs -> Nat]
  /\ \A i \in Jobs \ {j} : processed'[i] = processed[i]

\* The corpus expansion marks the end inside the try whose handler marks the
\* failure: after a lost acknowledgement, and only then, completed becomes
\* failed.
Fail(j) ==
  /\ Move(j, "running", "failed") \/ (LostAcks /\ Move(j, "completed", "failed"))
  /\ UNCHANGED processed

Next == \E j \in Jobs : Create(j) \/ Start(j) \/ Advance(j) \/ Complete(j) \/ Fail(j)

Spec == Init /\ [][Next]_vars
=============================================================================
