----------------------------- MODULE SeedProofs -----------------------------
(***************************************************************************)
(* Seed, for every set of overlapping runs of the script.                   *)
(***************************************************************************)
EXTENDS Seed, TLAPS

IInv == TypeOK /\ SeedInv

USE SeedAssumption DEF Tables, Batches, Row

-----------------------------------------------------------------------------
(* What a batch looks like.                                                 *)

LEMMA BatchFacts ==
  ASSUME NEW b \in Batches
  PROVE  /\ Batch(b) \subseteq Row
         /\ Batch(b) # {}
         /\ \A table \in Tables : TableRows(Batch(b), table) # {}
         /\ \A c \in Batches : Batch(b) = Batch(c) => b = c
<1>1. \A table \in Tables :
         LET row == [table |-> table, batch |-> b] IN
         row \in Batch(b) /\ row \in TableRows(Batch(b), table)
  BY DEF Batch, TableRows
<1>2. \A row \in Batch(b) : row.batch = b
  BY DEF Batch
<1>3. \A c \in Batches : \A row \in Batch(c) : row.batch = c
  BY DEF Batch
<1>4. Batch(b) \subseteq Row
  BY DEF Batch
<1>5. Batch(b) # {}
  BY <1>1
<1>6. ASSUME NEW c \in Batches, Batch(b) = Batch(c) PROVE b = c
  BY <1>2, <1>3, <1>5, <1>6
<1> QED
  BY <1>1, <1>4, <1>5, <1>6

(* A table of the committed database is empty only when all of it is.       *)
LEMMA AllTablesOrNone ==
  ASSUME TypeOK, WrittenOK, NEW table \in Tables, TableRows(db, table) = {}
  PROVE  db = {}
<1>1. \A b \in written \cup {Earlier} : b \in Batches
  BY DEF TypeOK
<1> QED
  BY <1>1, BatchFacts DEF WrittenOK

(* Rows split by table.                                                     *)
LEMMA RowsByTable ==
  ASSUME NEW rows, rows \subseteq Row
  PROVE  /\ rows = TableRows(rows, "payments") \cup TableRows(rows, "loans")
                   \cup TableRows(rows, "customers")
         /\ \A table : TableRows(rows, table) \subseteq rows
  BY DEF TableRows

(* What another transaction holds keeps this one waiting.                   *)
LEMMA LockedBy ==
  ASSUME TypeOK, NEW s \in Seeders, NEW o \in Seeders \ {s}
  PROVE  removed[o] \subseteq Locked(s) /\ added[o] \subseteq Locked(s)
  BY DEF Locked

-----------------------------------------------------------------------------
(* Types.                                                                   *)

LEMMA TypeInit == Init => TypeOK
<1>1. Batch(Earlier) \subseteq Row
  BY BatchFacts
<1> QED
  BY <1>1 DEF Init, TypeOK, Ends

LEMMA TypeNext == TypeOK /\ [Next]_vars => TypeOK'
<1> SUFFICES ASSUME TypeOK, [Next]_vars PROVE TypeOK'
  OBVIOUS
<1> USE DEF TypeOK, Ends
<1>1. ASSUME NEW s \in Seeders, Count(s) PROVE TypeOK'
  BY <1>1 DEF Count
<1>2. ASSUME NEW s \in Seeders, Decide(s) PROVE TypeOK'
  BY <1>2 DEF Decide, AfterCount
<1>3. ASSUME NEW s \in Seeders, NEW table \in Tables, Delete(s, table) PROVE TypeOK'
  <2>1. After(table) \in {"loans", "customers", "wiped"}
    BY DEF After
  <2>2. removed[s] \cup TableRows(db, table) \in SUBSET Row
    BY DEF TableRows
  <2> QED
    BY <1>3, <2>1, <2>2 DEF Delete
<1>4. ASSUME NEW s \in Seeders, CommitDeletes(s) PROVE TypeOK'
  BY <1>4 DEF CommitDeletes
<1>5. ASSUME NEW s \in Seeders, Flush(s) PROVE TypeOK'
  <2>1. Batch(s) \in SUBSET Row
    BY BatchFacts
  <2> QED
    BY <1>5, <2>1 DEF Flush
<1>6. ASSUME NEW s \in Seeders, CommitInserts(s) PROVE TypeOK'
  BY <1>6 DEF CommitInserts
<1>7. ASSUME NEW s \in Seeders, Refused(s) PROVE TypeOK'
  BY <1>7 DEF Refused, RollBack
<1>8. ASSUME NEW s \in Seeders, Die(s) PROVE TypeOK'
  BY <1>8 DEF Die, RollBack
<1>9. CASE UNCHANGED vars
  BY <1>9 DEF vars
<1> QED
  BY <1>1, <1>2, <1>3, <1>4, <1>5, <1>6, <1>7, <1>8, <1>9 DEF Next, Proceed

-----------------------------------------------------------------------------
(* The order of the deletes.                                                *)

LEMMA AfterFacts ==
  /\ After("payments") = "loans"
  /\ After("loans") = "customers"
  /\ After("customers") = "wiped"
BY DEF After

LEMMA ReferringFacts ==
  ASSUME NEW rows
  PROVE  /\ Referring("payments", rows) = {}
         /\ Referring("loans", rows) = TableRows(rows, "payments")
         /\ Referring("customers", rows) = TableRows(rows, "loans")
BY DEF Referring

LEMMA RemovedByFacts ==
  /\ RemovedBy("loans") = TableRows(db, "payments")
  /\ RemovedBy("customers") = TableRows(db, "payments") \cup TableRows(db, "loans")
  /\ RemovedBy("wiped") = db
BY DEF RemovedBy

(* With an empty database nobody has deleted anything.                      *)
LEMMA NothingToRemove ==
  ASSUME TypeOK, DeletesOK, db = {}
  PROVE  \A s \in Seeders : removed[s] = {}
BY RemovedByFacts DEF DeletesOK, Wiping, TableRows

(* A reset that has deleted something has the payments, and keeps every     *)
(* other run from deleting.                                                 *)
LEMMA HasPayments ==
  ASSUME TypeOK, SeedInv, NEW s \in Seeders, removed[s] # {}
  PROVE  /\ TableRows(db, "payments") \subseteq removed[s]
         /\ TableRows(db, "payments") # {}
<1>1. TableRows(db, "payments") \subseteq removed[s]
  BY RemovedByFacts, RowsByTable DEF SeedInv, DeletesOK, Wiping, TypeOK
<1>2. db # {}
  BY NothingToRemove DEF SeedInv
<1> QED
  BY <1>1, <1>2, AllTablesOrNone DEF SeedInv

-----------------------------------------------------------------------------
(* Each action keeps each part of the invariant.                            *)

(* A delete comes after the deletes of the tables that refer to its own, by *)
(* the same run, or finds nothing.                                          *)
LEMMA DeleteStep ==
  ASSUME TypeOK, SeedInv, NEW s \in Seeders, NEW table \in Tables, Delete(s, table)
  PROVE  /\ removed'[s] = RemovedBy(After(table))
         /\ After(table) \in Wiping
         /\ \A o \in Seeders \ {s} : removed[o] = {}
<1> USE DEF SeedInv
<1>1. After(table) \in Wiping
  BY AfterFacts DEF Wiping
<1>2. removed'[s] = removed[s] \cup TableRows(db, table)
  BY DEF Delete, TypeOK
<1>3. CASE db = {}
  <2>1. removed[s] = {} /\ TableRows(db, table) = {}
    BY <1>3, NothingToRemove DEF TableRows
  <2>2. RemovedBy(After(table)) = {}
    BY <1>3, AfterFacts, RemovedByFacts DEF TableRows
  <2> QED
    BY <1>1, <1>2, <1>3, <2>1, <2>2, NothingToRemove
<1>4. CASE db # {}
  <2>1. \A t \in Tables : TableRows(db, t) # {}
    BY <1>4, AllTablesOrNone
  <2>2. Referring(table, Left(s)) = {} /\ TableRows(db, table) \cap Locked(s) = {}
    BY <2>1 DEF Delete
  <2>3. CASE table = "payments"
    <3>1. removed[s] = {}
      BY <2>3 DEF Delete, DeletesOK, Wiping
    <3>2. ASSUME NEW o \in Seeders \ {s}, removed[o] # {} PROVE FALSE
      BY <2>2, <2>3, <3>2, HasPayments, LockedBy
    <3> QED
      BY <1>1, <1>2, <2>3, <3>1, <3>2, AfterFacts, RemovedByFacts
  <2>4. CASE table # "payments"
    <3>1. removed[s] # {}
      <4>1. TableRows(Left(s), "payments") = {} \/ TableRows(Left(s), "loans") = {}
        BY <2>2, <2>4, ReferringFacts
      <4> QED
        BY <2>1, <4>1 DEF Left, TableRows
    <3>2. removed[s] = RemovedBy(table)
      BY <3>1 DEF Delete, DeletesOK
    <3>3. CASE table = "loans"
      BY <1>1, <1>2, <3>1, <3>2, <3>3, AfterFacts, RemovedByFacts DEF DeletesOK
    <3>4. CASE table = "customers"
      <4>1. db = TableRows(db, "payments") \cup TableRows(db, "loans")
                 \cup TableRows(db, "customers")
        BY RowsByTable DEF TypeOK
      <4> QED
        BY <1>1, <1>2, <3>1, <3>2, <3>4, <4>1, AfterFacts, RemovedByFacts DEF DeletesOK
    <3> QED
      BY <2>4, <3>3, <3>4
  <2> QED
    BY <2>3, <2>4
<1> QED
  BY <1>3, <1>4

(* The commit of the deletes empties the database or leaves it.             *)
LEMMA CommitDeletesStep ==
  ASSUME TypeOK, SeedInv, NEW s \in Seeders, CommitDeletes(s)
  PROVE  \/ removed[s] = {} /\ db' = db
         \/ removed[s] # {} /\ db' = {} /\ \A o \in Seeders \ {s} : removed[o] = {}
BY RemovedByFacts DEF SeedInv, DeletesOK, CommitDeletes

(* Whoever flushes is alone, and finds an empty database.                   *)
LEMMA FlushStep ==
  ASSUME TypeOK, SeedInv, NEW s \in Seeders, Flush(s)
  PROVE  db = {} /\ \A o \in Seeders \ {s} : pc[o] # "flushed"
<1> USE DEF SeedInv
<1>1. removed[s] = {}
  BY DEF Flush, DeletesOK, Wiping
<1>2. db = {}
  BY <1>1, AllTablesOrNone DEF Flush, Taken, Left
<1>3. ASSUME NEW o \in Seeders \ {s}, pc[o] = "flushed" PROVE FALSE
  <2>1. Batch(o) \subseteq Locked(s)
    BY <1>3, LockedBy DEF InsertsOK
  <2>2. TableRows(Batch(o), "customers") # {}
    BY BatchFacts
  <2> QED
    BY <2>1, <2>2 DEF Flush, TableRows
<1> QED
  BY <1>2, <1>3

(* The rows that are committed are all there are.                           *)
LEMMA CommitInsertsStep ==
  ASSUME TypeOK, SeedInv, NEW s \in Seeders, CommitInserts(s)
  PROVE  /\ db = {} /\ db' = Batch(s)
         /\ \A o \in Seeders : removed[o] = {}
         /\ \A o \in Seeders \ {s} : pc[o] # "flushed"
<1>1. db = {} /\ added[s] = Batch(s) /\ \A o \in Seeders \ {s} : pc[o] # "flushed"
  BY DEF CommitInserts, SeedInv, InsertsOK
<1> QED
  BY <1>1, NothingToRemove DEF CommitInserts, SeedInv

-----------------------------------------------------------------------------
(* The invariant, action by action.                                         *)

LEMMA CountKeeps ==
  ASSUME TypeOK, SeedInv, NEW s \in Seeders, Count(s) PROVE SeedInv'
<1> USE DEF SeedInv, Count, TypeOK
<1>1. DeletesOK'
  BY DEF DeletesOK, Wiping, RemovedBy, TableRows
<1>2. InsertsOK'
  BY DEF InsertsOK
<1>3. WrittenOK'
  <2>1. ~existing'[s] => db = {}
    BY AllTablesOrNone
  <2>2. db # Batch(Earlier) \/ db # {}
    BY BatchFacts
  <2>3. db = {} => db # Batch(Earlier)
    BY BatchFacts
  <2> QED
    BY <2>1, <2>3 DEF WrittenOK, Wiping
<1>4. FillerOK'
  <2>1. db = {} => ~existing'[s]
    BY DEF TableRows
  <2>2. db = {} => OnTheWay(s)'
    BY <2>1 DEF OnTheWay, AfterCount
  <2> QED
    BY <2>2 DEF FillerOK
<1>5. ResetOK'
  BY DEF ResetOK, Wiping
<1> QED
  BY <1>1, <1>2, <1>3, <1>4, <1>5

LEMMA DecideKeeps ==
  ASSUME TypeOK, SeedInv, NEW s \in Seeders, Decide(s) PROVE SeedInv'
<1> USE DEF SeedInv, Decide, TypeOK
<1>0. AfterCount(s) \in {"payments", "skipped", "insert"}
  BY DEF AfterCount
<1>1. DeletesOK'
  BY <1>0 DEF DeletesOK, Wiping, RemovedBy, TableRows
<1>2. InsertsOK'
  BY <1>0 DEF InsertsOK
<1>3. WrittenOK'
  <2>1. AfterCount(s) = "insert" => ~existing[s]
    BY DEF AfterCount
  <2> QED
    BY <1>0, <2>1 DEF WrittenOK, Wiping
<1>4. FillerOK'
  <2>1. ASSUME NEW o \in Seeders, OnTheWay(o) PROVE OnTheWay(o)'
    BY <1>0, <2>1 DEF OnTheWay, AfterCount, Wiping
  <2> QED
    BY <2>1 DEF FillerOK
<1>5. ResetOK'
  BY <1>0 DEF ResetOK, Wiping, AfterCount
<1> QED
  BY <1>1, <1>2, <1>3, <1>4, <1>5

LEMMA DeleteKeeps ==
  ASSUME TypeOK, SeedInv, NEW s \in Seeders, NEW table \in Tables, Delete(s, table)
  PROVE  SeedInv'
<1> USE DEF SeedInv, TypeOK
<1>0. /\ pc[s] \in Tables /\ pc' = [pc EXCEPT ![s] = After(table)]
      /\ pc'[s] \in Wiping
      /\ \A o \in Seeders \ {s} : removed'[o] = {} /\ pc'[o] = pc[o]
      /\ removed'[s] = RemovedBy(pc'[s])
      /\ db' = db /\ added' = added /\ existing' = existing /\ written' = written
  BY DeleteStep DEF Delete
<1>1. DeletesOK'
  <2>1. RemovedBy(pc[s])' = RemovedBy(pc'[s])
    BY <1>0 DEF RemovedBy, TableRows
  <2> QED
    BY <1>0, <2>1 DEF DeletesOK
<1>2. InsertsOK'
  BY <1>0 DEF InsertsOK, Wiping
<1>3. WrittenOK'
  <2>1. removed'[s] = {} => db = {}
    BY AllTablesOrNone DEF Delete
  <2>2. db = {} => db # Batch(Earlier)
    BY BatchFacts
  <2>3. \A o \in Seeders \ {s} : removed'[o] = {} /\ removed[o] = {}
    BY <1>0, DeleteStep
  <2>4. \A o \in written' : pc'[o] = "done"
    BY <1>0 DEF WrittenOK
  <2>5. pc'[s] \notin {"insert", "flushed", "counted"}
    BY <1>0 DEF Wiping
  <2>6. ASSUME removed'[s] = {} PROVE db' # Batch(Earlier)
    BY <1>0, <2>1, <2>2, <2>6
  <2>7. ASSUME NEW o \in Seeders \ {s},
               \/ pc[o] \in {"insert", "flushed"}
               \/ pc[o] = "counted" /\ ~existing[o]
               \/ pc[o] \in Wiping
        PROVE  db' # Batch(Earlier)
    BY <1>0, <2>3, <2>7 DEF WrittenOK
  <2> QED
    BY <1>0, <2>3, <2>4, <2>5, <2>6, <2>7 DEF WrittenOK
<1>4. FillerOK'
  BY <1>0 DEF FillerOK, OnTheWay
<1>5. ResetOK'
  BY <1>0 DEF ResetOK, Wiping
<1> QED
  BY <1>1, <1>2, <1>3, <1>4, <1>5

LEMMA CommitDeletesKeeps ==
  ASSUME TypeOK, SeedInv, NEW s \in Seeders, CommitDeletes(s) PROVE SeedInv'
<1> USE DEF SeedInv, CommitDeletes, TypeOK
<1>1. DeletesOK'
  <2>1. ASSUME NEW o \in Seeders \ {s}, removed[o] # {}
        PROVE  RemovedBy(pc[o])' = RemovedBy(pc[o])
    BY <2>1, CommitDeletesStep DEF RemovedBy, TableRows
  <2> QED
    BY <2>1 DEF DeletesOK, Wiping
<1>2. InsertsOK'
  BY DEF InsertsOK
<1>3. WrittenOK'
  <2>1. {} # Batch(Earlier)
    BY BatchFacts
  <2>2. db' = {} \/ (db' = db /\ removed[s] = {})
    BY CommitDeletesStep
  <2>3. CASE db' = {}
    BY <2>1, <2>3 DEF WrittenOK, Wiping
  <2>4. CASE db' = db /\ removed[s] = {}
    BY <2>4 DEF WrittenOK, Wiping
  <2> QED
    BY <2>2, <2>3, <2>4
<1>4. FillerOK'
  BY DEF FillerOK, OnTheWay
<1>5. ResetOK'
  BY DEF ResetOK, Wiping
<1> QED
  BY <1>1, <1>2, <1>3, <1>4, <1>5

LEMMA FlushKeeps ==
  ASSUME TypeOK, SeedInv, NEW s \in Seeders, Flush(s) PROVE SeedInv'
<1> USE DEF SeedInv, Flush, TypeOK
<1>1. DeletesOK'
  BY DEF DeletesOK, Wiping, RemovedBy, TableRows
<1>2. InsertsOK'
  BY FlushStep DEF InsertsOK
<1>3. WrittenOK'
  BY DEF WrittenOK, Wiping
<1>4. FillerOK'
  BY DEF FillerOK, OnTheWay
<1>5. ResetOK'
  BY DEF ResetOK, Wiping
<1> QED
  BY <1>1, <1>2, <1>3, <1>4, <1>5

LEMMA CommitInsertsKeeps ==
  ASSUME TypeOK, SeedInv, NEW s \in Seeders, CommitInserts(s) PROVE SeedInv'
<1> USE DEF SeedInv, TypeOK
<1>0. /\ db' = Batch(s) /\ written' = written \cup {s}
      /\ pc' = [pc EXCEPT ![s] = "done"] /\ added' = [added EXCEPT ![s] = {}]
      /\ existing' = existing /\ removed' = removed
  BY CommitInsertsStep DEF CommitInserts
<1>1. DeletesOK'
  BY <1>0, CommitInsertsStep DEF DeletesOK
<1>2. InsertsOK'
  BY <1>0, CommitInsertsStep DEF InsertsOK
<1>3. WrittenOK'
  <2>1. Batch(s) # Batch(Earlier)
    BY BatchFacts
  <2> QED
    BY <1>0, <2>1 DEF WrittenOK, Wiping
<1>4. FillerOK'
  BY <1>0, BatchFacts DEF FillerOK
<1>5. ResetOK'
  BY <1>0 DEF ResetOK, Wiping
<1> QED
  BY <1>1, <1>2, <1>3, <1>4, <1>5

(* A refused run leaves rows behind: somebody else has seeded.              *)
LEMMA RollBackKeeps ==
  ASSUME TypeOK, SeedInv, NEW s \in Seeders, Refused(s) \/ Die(s) PROVE SeedInv'
<1> USE DEF SeedInv, TypeOK
<1>0. /\ pc' = [pc EXCEPT ![s] = "refused"] \/ pc' = [pc EXCEPT ![s] = "dead"]
      /\ pc[s] \notin Ends
      /\ removed' = [removed EXCEPT ![s] = {}] /\ added' = [added EXCEPT ![s] = {}]
      /\ existing' = existing /\ db' = db /\ written' = written
  BY DEF Refused, Refusal, Die, RollBack, Ends
<1>1. DeletesOK'
  <2>1. \A o \in Seeders : RemovedBy(pc[o])' = RemovedBy(pc'[o])
    BY <1>0 DEF RemovedBy, TableRows
  <2>2. \A o \in Seeders \ {s} : pc'[o] = pc[o] /\ removed'[o] = removed[o]
    BY <1>0
  <2>3. removed'[s] = {}
    BY <1>0
  <2> QED
    BY <2>1, <2>2, <2>3 DEF DeletesOK
<1>2. InsertsOK'
  BY <1>0 DEF InsertsOK
<1>3. WrittenOK'
  BY <1>0 DEF WrittenOK, Wiping, Ends
<1>4. FillerOK'
  <2>1. CASE Refused(s)
    <3>1. db # {}
      BY <2>1 DEF Refused, Refusal, Taken, Left, TableRows
    <3> QED
      BY <1>0, <3>1 DEF FillerOK
  <2>2. CASE Die(s)
    BY <2>2 DEF FillerOK, OnTheWay, Die, RollBack
  <2> QED
    BY <2>1, <2>2
<1>5. ResetOK'
  BY <1>0 DEF ResetOK, Wiping
<1> QED
  BY <1>1, <1>2, <1>3, <1>4, <1>5

LEMMA InvInit == Init => SeedInv
<1> SUFFICES ASSUME Init PROVE SeedInv
  OBVIOUS
<1> USE DEF Init
<1>1. DeletesOK
  BY DEF DeletesOK
<1>2. InsertsOK
  BY DEF InsertsOK
<1>3. WrittenOK
  BY DEF WrittenOK, Wiping
<1>4. FillerOK
  BY DEF FillerOK, OnTheWay
<1>5. ResetOK
  BY DEF ResetOK, Wiping
<1> QED
  BY <1>1, <1>2, <1>3, <1>4, <1>5 DEF SeedInv

LEMMA InvNext == IInv /\ [Next]_vars => IInv'
<1> SUFFICES ASSUME TypeOK, SeedInv, [Next]_vars PROVE SeedInv'
  BY TypeNext DEF IInv
<1>1. CASE UNCHANGED vars
  BY <1>1 DEF vars, SeedInv, DeletesOK, InsertsOK, WrittenOK, FillerOK, ResetOK,
              RemovedBy, OnTheWay, AfterCount, TableRows, Batch, Wiping
<1>2. CASE Next
  BY <1>2, CountKeeps, DecideKeeps, DeleteKeeps, CommitDeletesKeeps, FlushKeeps,
     CommitInsertsKeeps, RollBackKeeps DEF Next, Proceed
<1> QED
  BY <1>1, <1>2

(* Every variable keeps its type, and the strengthened invariant holds.     *)
THEOREM Inductive == Spec => []IInv
<1>1. Init => IInv
  BY TypeInit, InvInit DEF IInv
<1> QED
  BY <1>1, InvNext, PTL DEF Spec

-----------------------------------------------------------------------------
(* However runs overlap and die, the committed database is empty or holds   *)
(* exactly what one of them wrote (seed.py:216-258).                        *)
THEOREM AtomicSeeding == Spec => []WholeBatch
<1>1. IInv => WholeBatch
  BY DEF IInv, TypeOK, SeedInv, WrittenOK, WholeBatch
<1> QED
  BY <1>1, Inductive, PTL

(* When no run was killed and all have ended, the database is seeded,       *)
(* whichever of them were refused.                                          *)
THEOREM NobodyLeavesItEmpty == Spec => []SeededAtEnd
<1>1. IInv => SeededAtEnd
  BY DEF IInv, SeedInv, FillerOK, OnTheWay, SeededAtEnd, Wiping
<1> QED
  BY <1>1, Inductive, PTL

(* A refusal meets rows that another run of now has committed: the run had  *)
(* the earlier ones deleted, or found none.                                 *)
LEMMA RefusedByWinner ==
  ASSUME IInv, NEW s \in Seeders, Refused(s)
  PROVE  \E o \in Seeders \ {s} : o \in written
<1> USE DEF IInv, SeedInv, TypeOK
<1>1. pc[s] \in {"loans", "customers", "insert"} /\ db # {} /\ pc[s] # "done"
  BY ReferringFacts DEF Refused, Refusal, Taken, Left, TableRows
<1>2. removed[s] = {}
  <2>1. CASE pc[s] = "loans"
    <3>1. TableRows(Left(s), "payments") # {}
      BY <2>1, ReferringFacts DEF Refused, Refusal
    <3> QED
      BY <2>1, <3>1, RemovedByFacts DEF DeletesOK, Left, TableRows
  <2>2. CASE pc[s] = "customers"
    <3>1. TableRows(Left(s), "loans") # {}
      BY <2>2, ReferringFacts DEF Refused, Refusal
    <3> QED
      BY <2>2, <3>1, RemovedByFacts DEF DeletesOK, Left, TableRows
  <2>3. CASE pc[s] = "insert"
    BY <2>3 DEF DeletesOK, Wiping
  <2> QED
    BY <1>1, <2>1, <2>2, <2>3
<1>3. db # Batch(Earlier)
  BY <1>1, <1>2 DEF WrittenOK, Wiping
<1> QED
  BY <1>1, <1>3 DEF WrittenOK

(* A run is refused only because another one has written in the meantime:   *)
(* alone, the script never fails on the data it finds.                      *)
THEOREM RefusalsHaveWinners == Spec => []RefusalHasWinner
<1>1. Init => RefusalHasWinner
  BY DEF Init, RefusalHasWinner
<1>2. IInv /\ RefusalHasWinner /\ [Next]_vars => RefusalHasWinner'
  <2> SUFFICES ASSUME IInv, RefusalHasWinner, [Next]_vars,
                      NEW s \in Seeders, pc'[s] = "refused"
               PROVE  \E o \in Seeders \ {s} : o \in written'
    BY DEF RefusalHasWinner
  <2>1. written \subseteq written'
    BY DEF Next, Proceed, Count, Decide, Delete, CommitDeletes, Flush, CommitInserts,
           Refused, RollBack, Die, vars
  <2>2. CASE pc[s] = "refused"
    BY <2>1, <2>2 DEF RefusalHasWinner
  <2>3. CASE pc[s] # "refused"
    <3>1. ASSUME NEW o \in Seeders, Count(o) \/ Decide(o) \/ CommitDeletes(o) \/ Flush(o)
                                    \/ CommitInserts(o) \/ Die(o)
          PROVE  FALSE
      BY <2>3, <3>1 DEF IInv, TypeOK, Count, Decide, AfterCount, CommitDeletes, Flush,
                        CommitInserts, Die, RollBack
    <3>2. ASSUME NEW o \in Seeders, NEW table \in Tables, Delete(o, table) PROVE FALSE
      BY <2>3, <3>2, AfterFacts DEF IInv, TypeOK, Delete
    <3>3. ASSUME NEW o \in Seeders, Refused(o) PROVE o = s
      BY <2>3, <3>3 DEF IInv, TypeOK, Refused, RollBack
    <3>4. Refused(s)
      BY <2>3, <3>1, <3>2, <3>3 DEF Next, Proceed, vars
    <3> QED
      BY <2>1, <3>4, RefusedByWinner
  <2> QED
    BY <2>2, <2>3
<1> QED
  BY <1>1, <1>2, Inductive, PTL DEF Spec

(* "if customers already exist it skips seeding unless --reset is passed"   *)
(* (seed.py:5-6): a run without --reset never takes a committed row away.   *)
THEOREM RowsAreSafe == Spec => OnlyResetDeletes
<1>1. IInv /\ [Next]_vars
        => [\A s \in Seeders \ Resetting : Proceed(s) => db \subseteq db']_vars
  <2> SUFFICES ASSUME IInv, NEW s \in Seeders \ Resetting, Proceed(s)
               PROVE  db \subseteq db'
    OBVIOUS
  <2>1. ~CommitDeletes(s)
    BY DEF IInv, SeedInv, ResetOK, Wiping, CommitDeletes
  <2> QED
    BY <2>1 DEF Proceed, Decide, Delete, Flush, CommitInserts, Refused, RollBack
<1> QED
  BY <1>1, Inductive, PTL DEF Spec, OnlyResetDeletes

-----------------------------------------------------------------------------
(* The history of the committed database.                                   *)

LEMMA BatchOfFacts ==
  /\ BatchOf({}) = None
  /\ \A b \in Batches : BatchOf(Batch(b)) = b /\ b # None
BY BatchFacts DEF BatchOf

(* The committed database changes as SeedHistory says: emptied in one step, *)
(* filled in one step (seed.py:216-258).                                    *)
THEOREM Implements == Spec => KeepsHistory
<1> USE DEF History!Wipe, History!Fill, History!Next
<1>1. Init => History!Init
  BY BatchOfFacts DEF Init, History!Init
<1>2. IInv /\ [Next]_vars => [History!Next]_(BatchOf(db))
  <2> SUFFICES ASSUME IInv, [Next]_vars PROVE History!Next \/ BatchOf(db') = BatchOf(db)
    OBVIOUS
  <2>0. db = {} \/ \E b \in Batches : db = Batch(b)
    BY DEF IInv, SeedInv, WrittenOK, TypeOK
  <2>1. ASSUME NEW s \in Seeders, CommitDeletes(s)
        PROVE  History!Next \/ BatchOf(db') = BatchOf(db)
    <3>1. db' = db \/ db' = {}
      BY <2>1, CommitDeletesStep DEF IInv
    <3> QED
      BY <2>0, <3>1, BatchOfFacts
  <2>2. ASSUME NEW s \in Seeders, CommitInserts(s) PROVE History!Next
    <3>1. db = {} /\ db' = Batch(s)
      BY <2>2, CommitInsertsStep DEF IInv
    <3> QED
      BY <3>1, BatchOfFacts
  <2>3. ASSUME NEW s \in Seeders,
               \/ Count(s) \/ Decide(s) \/ Flush(s) \/ Refused(s) \/ Die(s)
               \/ \E table \in Tables : Delete(s, table)
        PROVE  db' = db
    BY <2>3 DEF Count, Decide, Delete, Flush, Refused, Die, RollBack
  <2> QED
    BY <2>1, <2>2, <2>3 DEF Next, Proceed, vars
<1> QED
  BY <1>1, <1>2, Inductive, PTL DEF Spec, KeepsHistory, History!Spec

-----------------------------------------------------------------------------
(* Every run gets on.  What liveness needs of the locks, beside fairness:   *)
(* whoever waits waits for a run that does not, and no run goes on for ever.*)

(* A run has started and not ended.                                         *)
UnderWay(s) == pc[s] \notin Ends \cup {"idle"}

(* The next statement meets rows that another transaction holds.            *)
Waits(s) ==
  \/ \E table \in Tables : pc[s] = table /\ TableRows(db, table) \cap Locked(s) # {}
  \/ pc[s] = "insert" /\ TableRows(Locked(s), "customers") # {}

(* A run that waits waits for one that is under way and waits for nobody:   *)
(* transactions never wait in a circle (seed.py:221-258).                   *)
NoCircle ==
  \A s \in Seeders : Waits(s) => \E o \in Seeders \ {s} : UnderWay(o) /\ ~Waits(o)

(* A reset that has deleted something finds nobody in its way.              *)
LEMMA WiperGoesOn ==
  ASSUME TypeOK, SeedInv, NEW o \in Seeders, removed[o] # {}
  PROVE  UnderWay(o) /\ ~Waits(o)
<1>1. pc[o] \in Wiping /\ \A x \in Seeders \ {o} : removed[x] = {}
  BY DEF SeedInv, DeletesOK
<1>2. db # {}
  BY NothingToRemove DEF SeedInv
<1>3. \A x \in Seeders \ {o} : added[x] = {}
  BY <1>2 DEF SeedInv, InsertsOK
<1>4. Locked(o) = {}
  BY <1>1, <1>3 DEF Locked
<1> QED
  BY <1>1, <1>4 DEF UnderWay, Waits, Wiping, Ends

(* Rows are locked by somebody.                                             *)
LEMMA WhoHolds ==
  ASSUME TypeOK, NEW s \in Seeders, Locked(s) # {}
  PROVE  \E o \in Seeders \ {s} : removed[o] # {} \/ added[o] # {}
BY DEF Locked

(* The transactions of the script never wait in a circle: whoever waits,    *)
(* waits for a run that has all it needs (seed.py:221-258).                 *)
THEOREM NobodyWaitsInACircle == Spec => []NoCircle
<1>1. IInv => NoCircle
  <2> SUFFICES ASSUME IInv, NEW s \in Seeders, Waits(s)
               PROVE  \E o \in Seeders \ {s} : UnderWay(o) /\ ~Waits(o)
    BY DEF NoCircle
  <2>1. Locked(s) # {}
    BY DEF Waits, TableRows
  <2>2. PICK o \in Seeders \ {s} : removed[o] # {} \/ added[o] # {}
    BY <2>1, WhoHolds DEF IInv
  <2>3. CASE removed[o] # {}
    BY <2>3, WiperGoesOn DEF IInv
  <2>4. CASE added[o] # {}
    <3>1. pc[o] = "flushed"
      BY <2>4 DEF IInv, SeedInv, InsertsOK
    <3> QED
      BY <3>1 DEF UnderWay, Waits, Ends
  <2> QED
    BY <2>2, <2>3, <2>4
<1> QED
  BY <1>1, Inductive, PTL

(* The statements a run has still to make, at most.                         *)
StatementsLeft(s) ==
  CASE pc[s] = "counted" -> 7
    [] pc[s] = "payments" -> 6
    [] pc[s] = "loans" -> 5
    [] pc[s] = "customers" -> 4
    [] pc[s] = "wiped" -> 3
    [] pc[s] = "insert" -> 2
    [] pc[s] = "flushed" -> 1
    [] OTHER -> 0

(* StatementsLeft, one case at a time.                                      *)
LEMMA StatementsLeftIs ==
  ASSUME NEW s
  PROVE  /\ pc[s] = "counted" => StatementsLeft(s) = 7
         /\ pc[s] = "payments" => StatementsLeft(s) = 6
         /\ pc[s] = "loans" => StatementsLeft(s) = 5
         /\ pc[s] = "customers" => StatementsLeft(s) = 4
         /\ pc[s] = "wiped" => StatementsLeft(s) = 3
         /\ pc[s] = "insert" => StatementsLeft(s) = 2
         /\ pc[s] = "flushed" => StatementsLeft(s) = 1
         /\ pc[s] \in Ends \cup {"idle"} => StatementsLeft(s) = 0
BY DEF StatementsLeft, Ends

(* Every statement of a run, and its death, lowers what it has still to do  *)
(* (seed.py:213-260), and a run never repeats one.                          *)
EveryStatementIsSpent ==
  [][\A s \in Seeders :
       Proceed(s) \/ Die(s) =>
         /\ StatementsLeft(s)' < StatementsLeft(s)
         /\ \A o \in Seeders \ {s} : StatementsLeft(o)' = StatementsLeft(o)]_vars

(* Each statement, a refusal or a death leaves fewer.                       *)
LEMMA StatementCosts ==
  ASSUME TypeOK, NEW s \in Seeders, Proceed(s) \/ Die(s)
  PROVE  StatementsLeft(s)' < StatementsLeft(s)
<1>1. CASE Decide(s)
  <2>1. pc[s] = "counted" /\ pc'[s] \in {"payments", "skipped", "insert"}
    BY <1>1 DEF Decide, AfterCount, TypeOK
  <2> QED
    BY <2>1 DEF StatementsLeft
<1>2. ASSUME NEW table \in Tables, Delete(s, table)
      PROVE  StatementsLeft(s)' < StatementsLeft(s)
  <2>1. pc[s] = table /\ pc'[s] = After(table)
    BY <1>2 DEF Delete, TypeOK
  <2>2. \/ pc[s] = "payments" /\ pc'[s] = "loans"
        \/ pc[s] = "loans" /\ pc'[s] = "customers"
        \/ pc[s] = "customers" /\ pc'[s] = "wiped"
    BY <2>1, AfterFacts
  <2> QED
    BY <2>2 DEF StatementsLeft
<1>3. CASE CommitDeletes(s) \/ Flush(s) \/ CommitInserts(s)
  <2>1. \/ pc[s] = "wiped" /\ pc'[s] = "insert"
        \/ pc[s] = "insert" /\ pc'[s] = "flushed"
        \/ pc[s] = "flushed" /\ pc'[s] = "done"
    BY <1>3 DEF CommitDeletes, Flush, CommitInserts, TypeOK
  <2> QED
    BY <2>1 DEF StatementsLeft
<1>4. CASE Refused(s) \/ Die(s)
  <2>1. /\ pc[s] \in {"counted", "payments", "loans", "customers", "wiped", "insert", "flushed"}
        /\ pc'[s] \in {"refused", "dead"}
    BY <1>4 DEF Refused, Refusal, Die, RollBack, TypeOK, Ends
  <2>2. StatementsLeft(s) \in 1..7
    BY <2>1, StatementsLeftIs
  <2>3. StatementsLeft(s)' = 0
    BY <2>1 DEF StatementsLeft
  <2> QED
    BY <2>2, <2>3
<1> QED
  BY <1>1, <1>2, <1>3, <1>4 DEF Proceed

(* So no run goes on for ever: with NobodyWaitsInACircle, what EveryRunEnds *)
(* needs beside fairness (seed.py:213-260).                                 *)
THEOREM StatementsRunOut == Spec => EveryStatementIsSpent
<1>1. ASSUME TypeOK, NEW s \in Seeders, Proceed(s) \/ Die(s), NEW o \in Seeders \ {s}
      PROVE  StatementsLeft(o)' = StatementsLeft(o)
  <2>1. pc'[o] = pc[o]
    BY <1>1 DEF Proceed, Decide, Delete, CommitDeletes, Flush, CommitInserts, Refused,
                Die, RollBack, TypeOK
  <2> QED
    BY <2>1 DEF StatementsLeft
<1>2. IInv /\ [Next]_vars
        => [\A s \in Seeders :
              Proceed(s) \/ Die(s) =>
                /\ StatementsLeft(s)' < StatementsLeft(s)
                /\ \A o \in Seeders \ {s} : StatementsLeft(o)' = StatementsLeft(o)]_vars
  BY <1>1, StatementCosts DEF IInv
<1> QED
  BY <1>2, Inductive, PTL DEF Spec, EveryStatementIsSpent

=============================================================================
