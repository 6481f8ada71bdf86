-------------------------------- MODULE Seed --------------------------------
(***************************************************************************)
(* Runs of `python -m app.database.seed [--reset]` (app/database/seed.py)   *)
(* over one PostgreSQL database, which may overlap: every container runs    *)
(* the script when it starts (entrypoint.sh).                               *)
(*                                                                         *)
(* A row stands for all the rows one run writes to a table.  Loans and      *)
(* payments get fresh ids, but the customers' ids are computed from their   *)
(* names, so every run writes customers with the same ids.  Statements run  *)
(* under READ COMMITTED: each sees what is committed when it runs, waits    *)
(* for rows that another transaction has changed, and is refused when a     *)
(* foreign key or the customers' primary key forbids it.                    *)
(***************************************************************************)
EXTENDS Integers, FiniteSets

CONSTANTS
  Seeders,    \* runs of the script
  Resetting,  \* those with --reset
  Earlier,    \* a run that ended before
  None

ASSUME SeedAssumption ==
  /\ Resetting \subseteq Seeders
  /\ Earlier \notin Seeders
  /\ None \notin Seeders \cup {Earlier}

Tables == {"customers", "loans", "payments"}
Batches == Seeders \cup {Earlier}
Row == [table : Tables, batch : Batches]

Batch(b) == [table : Tables, batch : {b}]

VARIABLES
  pc,        \* each run's next statement, or how it ended
  existing,  \* whether its count found customers
  db,        \* the committed rows
  removed,   \* the rows its open transaction has deleted
  added,     \* the rows its open transaction has inserted
  written    \* the runs whose rows were ever committed

vars == <<pc, existing, db, removed, added, written>>

(* "done", "skipped": main returned; "refused": an IntegrityError left it;  *)
(* "dead": killed, or the database was gone.                                *)
Ends == {"done", "skipped", "refused", "dead"}

TableRows(rows, table) == {row \in rows : row.table = table}

(* The rows that other open transactions have deleted or inserted.          *)
Locked(s) == UNION {removed[o] \cup added[o] : o \in Seeders \ {s}}

-----------------------------------------------------------------------------
Init ==
  /\ pc = [s \in Seeders |-> "idle"]
  /\ existing = [s \in Seeders |-> FALSE]
  /\ db \in {{}, Batch(Earlier)}
  /\ removed = [s \in Seeders |-> {}]
  /\ added = [s \in Seeders |-> {}]
  /\ written = {}

(* A run starts and counts the customers.                                   *)
Count(s) ==
  /\ pc[s] = "idle"
  /\ existing' = [existing EXCEPT ![s] = TableRows(db, "customers") # {}]
  /\ pc' = [pc EXCEPT ![s] = "counted"]
  /\ UNCHANGED <<db, removed, added, written>>

(* What the count and --reset lead to.                                      *)
AfterCount(s) ==
  IF existing[s]
    THEN IF s \in Resetting THEN "payments" ELSE "skipped"
    ELSE "insert"

Decide(s) ==
  /\ pc[s] = "counted"
  /\ pc' = [pc EXCEPT ![s] = AfterCount(s)]
  /\ UNCHANGED <<existing, db, removed, added, written>>

-----------------------------------------------------------------------------
(* --reset: three deletes and a commit.                                     *)

After(table) ==
  CASE table = "payments" -> "loans"
    [] table = "loans" -> "customers"
    [] table = "customers" -> "wiped"

(* The rows of another table that refer to a table's rows.                  *)
Referring(table, rows) ==
  CASE table = "payments" -> {}
    [] table = "loans" -> TableRows(rows, "payments")
    [] table = "customers" -> TableRows(rows, "loans")

(* The rows s would still see after its deletes so far.                     *)
Left(s) == db \ removed[s]

(* Variants, which nothing below uses, stand before what they vary: a       *)
(* plausible slip in the code, named for what it does.                      *)
(* Variant: every statement is committed by itself.                         *)
DeleteCommits(s, table) ==
  /\ pc[s] = table
  /\ TableRows(db, table) \cap Locked(s) = {}
  /\ Referring(table, Left(s)) = {} \/ TableRows(db, table) = {}
  /\ db' = db \ TableRows(db, table)
  /\ pc' = [pc EXCEPT ![s] = After(table)]
  /\ UNCHANGED <<existing, removed, added, written>>

Delete(s, table) ==
  /\ pc[s] = table
  /\ TableRows(db, table) \cap Locked(s) = {}
  /\ Referring(table, Left(s)) = {} \/ TableRows(db, table) = {}
  /\ removed' = [removed EXCEPT ![s] = @ \cup TableRows(db, table)]
  /\ pc' = [pc EXCEPT ![s] = After(table)]
  /\ UNCHANGED <<existing, db, added, written>>

CommitDeletes(s) ==
  /\ pc[s] = "wiped"
  /\ db' = db \ removed[s]
  /\ removed' = [removed EXCEPT ![s] = {}]
  /\ pc' = [pc EXCEPT ![s] = "insert"]
  /\ UNCHANGED <<existing, added, written>>

-----------------------------------------------------------------------------
(* The last commit flushes everything that was added to the session.        *)

(* The customers' ids are taken.                                            *)
Taken(s) == TableRows(Left(s), "customers") # {}

(* The inserts wait while another transaction has the customers' ids.       *)
Flush(s) ==
  /\ pc[s] = "insert"
  /\ TableRows(Locked(s), "customers") = {}
  /\ ~Taken(s)
  /\ added' = [added EXCEPT ![s] = Batch(s)]
  /\ pc' = [pc EXCEPT ![s] = "flushed"]
  /\ UNCHANGED <<existing, db, removed, written>>

(* Variant: the session is closed before it commits.                        *)
CloseBeforeCommit(s) ==
  /\ pc[s] = "flushed"
  /\ added' = [added EXCEPT ![s] = {}]
  /\ pc' = [pc EXCEPT ![s] = "done"]
  /\ UNCHANGED <<existing, db, removed, written>>

CommitInserts(s) ==
  /\ pc[s] = "flushed"
  /\ db' = db \cup added[s]
  /\ written' = written \cup {s}
  /\ added' = [added EXCEPT ![s] = {}]
  /\ pc' = [pc EXCEPT ![s] = "done"]
  /\ UNCHANGED <<existing, removed>>

-----------------------------------------------------------------------------
(* Variant: the session is not closed.                                      *)
StayOpen(s, end) ==
  /\ pc' = [pc EXCEPT ![s] = end]
  /\ UNCHANGED <<existing, db, removed, added, written>>

(* The session is closed: what is not committed is rolled back.             *)
RollBack(s, end) ==
  /\ pc' = [pc EXCEPT ![s] = end]
  /\ removed' = [removed EXCEPT ![s] = {}]
  /\ added' = [added EXCEPT ![s] = {}]
  /\ UNCHANGED <<existing, db, written>>

(* A delete would leave rows that refer to nothing, or the ids are taken.   *)
Refusal(s) ==
  \/ \E table \in Tables :
        /\ pc[s] = table
        /\ TableRows(db, table) # {}
        /\ TableRows(db, table) \cap Locked(s) = {}
        /\ Referring(table, Left(s)) # {}
  \/ /\ pc[s] = "insert"
     /\ TableRows(Locked(s), "customers") = {}
     /\ Taken(s)

Refused(s) == Refusal(s) /\ RollBack(s, "refused")

Die(s) == pc[s] \notin Ends \cup {"idle"} /\ RollBack(s, "dead")

Proceed(s) ==
  \/ Decide(s)
  \/ \E table \in Tables : Delete(s, table)
  \/ CommitDeletes(s) \/ Flush(s) \/ CommitInserts(s) \/ Refused(s)

Next == \E s \in Seeders : Count(s) \/ Proceed(s) \/ Die(s)

Spec == Init /\ [][Next]_vars

(* A run that has started goes on unless it waits for a row.                *)
FairSpec == Spec /\ \A s \in Seeders : WF_vars(Proceed(s))

-----------------------------------------------------------------------------
(* Properties.                                                              *)

(* Every variable keeps its type.                                           *)
TypeOK ==
  /\ pc \in [Seeders -> {"idle", "counted", "wiped", "insert", "flushed"}
                         \cup Tables \cup Ends]
  /\ existing \in [Seeders -> BOOLEAN]
  /\ db \subseteq Row
  /\ removed \in [Seeders -> SUBSET Row]
  /\ added \in [Seeders -> SUBSET Row]
  /\ written \subseteq Seeders

(* However runs overlap and die, the committed database is empty or holds   *)
(* exactly what one of them wrote, in all three tables: never two runs'     *)
(* loans under one customer, never customers without loans (seed.py:216-258)*)
WholeBatch == db = {} \/ \E b \in Batches : db = Batch(b)

(* Whose rows these are.                                                    *)
BatchOf(rows) ==
  IF rows = {} THEN None
  ELSE IF \E b \in Batches : rows = Batch(b)
    THEN CHOOSE b \in Batches : rows = Batch(b)
    ELSE rows

History == INSTANCE SeedHistory WITH batch <- BatchOf(db)

(* The committed database changes as SeedHistory says: emptied in one step, *)
(* filled in one step (seed.py:216-258).                                    *)
KeepsHistory == History!Spec

(* "if customers already exist it skips seeding unless --reset is passed"   *)
(* (seed.py:5-6): a run without --reset never takes a committed row away.   *)
OnlyResetDeletes ==
  [][\A s \in Seeders \ Resetting : Proceed(s) => db \subseteq db']_vars

(* A run is refused only because another one has written in the meantime:   *)
(* alone, the script never fails on the data it finds.                      *)
RefusalHasWinner ==
  \A s \in Seeders : pc[s] = "refused" => \E o \in Seeders \ {s} : o \in written

(* When no run was killed and all have ended, the database is seeded,       *)
(* whichever of them were refused.                                          *)
SeededAtEnd ==
  Seeders # {} /\ (\A s \in Seeders : pc[s] \in {"done", "skipped", "refused"})
    => db # {}

(* Whoever waits for another transaction's rows gets on: every run that has *)
(* started ends.                                                            *)
EveryRunEnds == \A s \in Seeders : pc[s] = "counted" ~> pc[s] \in Ends

-----------------------------------------------------------------------------
(* What makes the invariants above inductive.                               *)

Wiping == {"loans", "customers", "wiped"}

(* A run has deleted nothing yet, or from the database as it still is: its  *)
(* locks keep the others away.                                              *)
RemovedBy(place) ==
  CASE place = "loans" -> TableRows(db, "payments")
    [] place = "customers" -> TableRows(db, "payments") \cup TableRows(db, "loans")
    [] place = "wiped" -> db

DeletesOK ==
  \A s \in Seeders :
     removed[s] # {} =>
        /\ pc[s] \in Wiping
        /\ removed[s] = RemovedBy(pc[s])
        /\ \A o \in Seeders \ {s} : removed[o] = {}

(* One run at a time has flushed its rows, and only to an empty database.   *)
InsertsOK ==
  \A s \in Seeders :
     /\ added[s] = IF pc[s] = "flushed" THEN Batch(s) ELSE {}
     /\ pc[s] = "flushed" =>
           /\ db = {}
           /\ \A o \in Seeders \ {s} : pc[o] # "flushed"

(* The rows there are were written by a run that is done, or before; those  *)
(* from before are gone when a run means to insert.                         *)
WrittenOK ==
  /\ db = {} \/ \E b \in written \cup {Earlier} : db = Batch(b)
  /\ \A s \in written : pc[s] = "done"
  /\ \A s \in Seeders :
        \/ pc[s] \in {"insert", "flushed"}
        \/ pc[s] = "counted" /\ ~existing[s]
        \/ pc[s] \in Wiping /\ removed[s] = {}
        => db # Batch(Earlier)

(* While the database is empty some run is still to fill it, or was killed. *)
OnTheWay(s) ==
  \/ pc[s] \in {"idle", "insert", "flushed", "dead", "payments"} \cup Wiping
  \/ pc[s] = "counted" /\ AfterCount(s) # "skipped"

FillerOK == Seeders # {} /\ db = {} => \E s \in Seeders : OnTheWay(s)

ResetOK == \A s \in Seeders : pc[s] \in {"payments"} \cup Wiping => s \in Resetting

SeedInv == DeletesOK /\ InsertsOK /\ WrittenOK /\ FillerOK /\ ResetOK

=============================================================================
