----------------------------- MODULE SeedHistory -----------------------------
(***************************************************************************)
(* What seeding does to the committed database (app/database/seed.py): it   *)
(* is emptied in one step, or filled in one step when it is empty, and in   *)
(* between it holds everything one run has written.  LoanReads reads such a *)
(* history.                                                                 *)
(***************************************************************************)
CONSTANTS
  Batches,  \* what the runs of the script write
  None

VARIABLE batch  \* whose rows the database holds, None when it is empty

Init == batch \in Batches \cup {None}

Wipe == batch # None /\ batch' = None

Fill == batch = None /\ batch' \in Batches

Next == Wipe \/ Fill

Spec == Init /\ [][Next]_batch

=============================================================================
