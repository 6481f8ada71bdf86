----------------------------- MODULE BootProofs -----------------------------
(***************************************************************************)
(* Boot, for any launches and resets by hand.  The launches' runs of the    *)
(* script are runs of Seed, so what SeedProofs proves of them holds here;   *)
(* with that, an invariant that ties the launches' stages to the runs, to   *)
(* the tables and to the rows.  Then Migration, for any processes: the step *)
(* in which Boot's tables come is one.                                      *)
(***************************************************************************)
EXTENDS Boot, Migration, TLAPS

SP == INSTANCE SeedProofs

USE BootAssumption DEF seedVars, launchVars

-----------------------------------------------------------------------------
(* SeedProofs brings an instance of Seed of its own.                        *)

LEMMA SameInit == S!Init => SP!Init
  BY DEF S!Init, SP!Init, S!Batch, SP!Batch, S!Tables, SP!Tables

LEMMA SameNext == S!Next => SP!Next
  BY Zenon
     DEF S!Next, S!Count, S!Proceed, S!Die, S!Decide, S!AfterCount, S!Delete, S!After,
         S!Referring, S!Left, S!CommitDeletes, S!Taken, S!Flush, S!CommitInserts,
         S!RollBack, S!Refusal, S!Refused, S!TableRows, S!Locked, S!Batch, S!Tables,
         S!Ends,
         SP!Next, SP!Count, SP!Proceed, SP!Die, SP!Decide, SP!AfterCount, SP!Delete,
         SP!After, SP!Referring, SP!Left, SP!CommitDeletes, SP!Taken, SP!Flush,
         SP!CommitInserts, SP!RollBack, SP!Refusal, SP!Refused, SP!TableRows,
         SP!Locked, SP!Batch, SP!Tables, SP!Ends

LEMMA SameSpec == S!Spec => SP!Spec
<1>1. [S!Next]_(S!vars) => [SP!Next]_(SP!vars)
  BY SameNext DEF S!vars, SP!vars
<1> QED
  BY <1>1, SameInit, PTL DEF S!Spec, SP!Spec

(* Boot's steps are steps of Seed or leave its variables alone, so what is  *)
(* proved of Seed holds here.                                               *)
LEMMA BootRunsSeed == Spec => S!Spec
<1>1. Init => S!Init
  BY DEF Init
<1>2. [Next]_vars => [S!Next]_(S!vars)
  <2>1. ASSUME NEW s \in Seeders, S!Count(s) \/ S!Proceed(s) \/ S!Die(s)
        PROVE  S!Next
    BY <2>1 DEF S!Next
  <2>2. ASSUME NEW l \in Launches, CountCustomers(l) \/ CountByHand(l) PROVE S!Next
    BY <2>1, <2>2 DEF CountCustomers, CountByHand, Launches
  <2>3. ASSUME NEW s \in Seeders, SeedOn(s) \/ SeedDies(s) \/ CountByHand(s)
        PROVE  S!Next
    BY <2>1, <2>3 DEF SeedOn, SeedDies, CountByHand
  <2>4. ASSUME NEW l \in Launches,
               \/ Start(l) \/ Reach(l) \/ Miss(l) \/ ReadVersion(l)
               \/ CreateTables(l) \/ CommitTables(l) \/ EndSeed(l) \/ LaunchDies(l)
        PROVE  UNCHANGED S!vars
    BY <2>4 DEF Start, Reach, Miss, ReadVersion, CreateTables, CommitTables, EndSeed,
                LaunchDies, S!vars
  <2>5. DatabaseStops \/ DatabaseStarts \/ UNCHANGED vars => UNCHANGED S!vars
    BY DEF DatabaseStops, DatabaseStarts, vars, S!vars
  <2> QED
    BY <2>2, <2>3, <2>4, <2>5 DEF Next, Continue
<1> QED
  BY <1>1, <1>2, PTL DEF Spec, S!Spec

LEMMA SeedInvariant == Spec => [](SP!IInv /\ SP!RefusalHasWinner)
  BY BootRunsSeed, SameSpec, SP!Inductive, SP!RefusalsHaveWinners, PTL

(* A run of the script is idle, under way or over.                          *)
Underway == {"counted", "payments", "loans", "customers", "wiped", "insert", "flushed"}
Over == {"done", "skipped", "refused", "dead"}

(* What is needed of it here.                                               *)
SeedOK ==
  /\ pc \in [Seeders -> {"idle"} \cup Underway \cup Over]
  /\ DOMAIN existing = Seeders
  /\ \A s \in Seeders :
        /\ pc[s] \in {"payments", "loans", "customers", "wiped"} => s \in Resetting
        /\ pc[s] = "flushed" => added[s] # {}
        /\ pc[s] = "refused" => written \ {s} # {}
        /\ s \in written => pc[s] = "done"
  /\ written \subseteq Seeders

LEMMA SeedFacts == SP!IInv /\ SP!RefusalHasWinner => SeedOK
<1> SUFFICES ASSUME SP!IInv, SP!RefusalHasWinner PROVE SeedOK
  OBVIOUS
<1> USE DEF SP!IInv, SP!SeedInv
<1>1. /\ pc \in [Seeders -> {"idle"} \cup Underway \cup Over]
      /\ DOMAIN existing = Seeders
      /\ written \subseteq Seeders
  BY DEF SP!TypeOK, SP!Tables, SP!Ends, Underway, Over
<1>2. ASSUME NEW s \in Seeders,
             pc[s] \in {"payments", "loans", "customers", "wiped"}
      PROVE  s \in Resetting
  BY <1>2 DEF SP!ResetOK, SP!Wiping
<1>3. ASSUME NEW s \in Seeders, pc[s] = "flushed" PROVE added[s] # {}
  <2>1. [table |-> "loans", batch |-> s] \in added[s]
    BY <1>3 DEF SP!InsertsOK, SP!Batch, SP!Tables
  <2> QED
    BY <2>1
<1>4. ASSUME NEW s \in Seeders, pc[s] = "refused" PROVE written \ {s} # {}
  BY <1>4 DEF SP!RefusalHasWinner
<1>5. \A s \in Seeders : s \in written => pc[s] = "done"
  BY DEF SP!WrittenOK
<1> QED
  BY <1>1, <1>2, <1>3, <1>4, <1>5 DEF SeedOK

-----------------------------------------------------------------------------
(* A step of a run moves that run only, and one that is not over.         *)
Moves(s) ==
  /\ pc[s] \in {"idle"} \cup Underway
  /\ pc'[s] \in Underway \cup Over
  /\ DOMAIN pc' = DOMAIN pc
  /\ \A o \in Seeders \ {s} : pc'[o] = pc[o] /\ existing'[o] = existing[o]

LEMMA CountMoves ==
  ASSUME SeedOK, NEW s \in Seeders, S!Count(s)
  PROVE  Moves(s) /\ pc[s] = "idle" /\ pc'[s] = "counted"
  BY DEF SeedOK, S!Count, Moves, Underway

LEMMA ProceedMoves ==
  ASSUME SeedOK, NEW s \in Seeders, S!Proceed(s)
  PROVE  Moves(s) /\ pc[s] \in Underway
<1>1. CASE S!Decide(s)
  BY <1>1 DEF SeedOK, S!Decide, S!AfterCount, Moves, Underway, Over
<1>2. CASE \E table \in S!Tables : S!Delete(s, table)
  BY <1>2 DEF SeedOK, S!Tables, S!Delete, S!After, Moves, Underway, Over
<1>3. CASE S!CommitDeletes(s) \/ S!Flush(s) \/ S!CommitInserts(s)
  BY <1>3 DEF SeedOK, S!CommitDeletes, S!Flush, S!CommitInserts, Moves, Underway, Over
<1>4. CASE S!Refused(s)
  <2>1. pc[s] \in Underway
    BY <1>4 DEF S!Refused, S!Refusal, S!Tables, Underway
  <2> QED
    BY <1>4, <2>1 DEF SeedOK, S!Refused, S!RollBack, Moves, Over
<1> QED
  BY <1>1, <1>2, <1>3, <1>4 DEF S!Proceed

(* A script that has been started by a launch and has ended well, or is     *)
(* about to skip, has found or written rows: they are there, or a reset has *)
(* taken them.                                                              *)
Loaded ==
  \/ db # {}
  \/ \E s \in Resetting : pc[s] \in {"insert", "flushed", "dead"}

FoundOrWritten(l) ==
  pc[l] \in {"done", "skipped"} \/ (pc[l] = "counted" /\ existing[l])

LoadedOK == (\E l \in Launches : FoundOrWritten(l)) => Loaded

LEMMA CountLoads ==
  ASSUME SeedOK, LoadedOK, NEW s \in Seeders, S!Count(s)
  PROVE  LoadedOK'
<1>1. /\ db' = db
      /\ pc[s] = "idle"
      /\ pc' = [pc EXCEPT ![s] = "counted"]
      /\ existing' = [existing EXCEPT ![s] = S!TableRows(db, "customers") # {}]
  BY DEF S!Count
<1>2. S!TableRows(db, "customers") # {} => db # {}
  BY DEF S!TableRows
<1>3. Loaded => Loaded'
  BY <1>1 DEF SeedOK, Loaded
<1>4. ASSUME NEW l \in Launches, FoundOrWritten(l)' PROVE Loaded'
  <2>1. CASE l = s
    BY <1>1, <1>2, <1>4, <2>1 DEF SeedOK, FoundOrWritten, Loaded, Launches
  <2>2. CASE l # s
    BY <1>1, <1>3, <1>4, <2>2 DEF SeedOK, LoadedOK, FoundOrWritten, Launches
  <2> QED
    BY <2>1, <2>2
<1> QED
  BY <1>4 DEF LoadedOK

LEMMA DecideLoads ==
  ASSUME SeedOK, LoadedOK, NEW s \in Seeders, S!Decide(s)
  PROVE  LoadedOK'
<1>1. /\ UNCHANGED <<db, existing>>
      /\ pc[s] = "counted"
      /\ pc' = [pc EXCEPT ![s] = S!AfterCount(s)]
  BY DEF S!Decide
<1>2. Loaded => Loaded'
  BY <1>1 DEF SeedOK, Loaded
<1>3. ASSUME NEW l \in Launches, FoundOrWritten(l)' PROVE FoundOrWritten(l)
  BY <1>1, <1>3 DEF SeedOK, FoundOrWritten, S!AfterCount, Launches
<1> QED
  BY <1>2, <1>3 DEF LoadedOK

LEMMA DeleteLoads ==
  ASSUME SeedOK, LoadedOK, NEW s \in Seeders, NEW table \in S!Tables, S!Delete(s, table)
  PROVE  LoadedOK'
<1>1. /\ UNCHANGED <<db, existing>>
      /\ pc[s] \in {"payments", "loans", "customers"}
      /\ pc' = [pc EXCEPT ![s] = S!After(table)]
      /\ S!After(table) \in {"loans", "customers", "wiped"}
  BY DEF S!Delete, S!After, S!Tables
<1>2. Loaded => Loaded'
  BY <1>1 DEF SeedOK, Loaded
<1>3. ASSUME NEW l \in Launches, FoundOrWritten(l)' PROVE FoundOrWritten(l)
  BY <1>1, <1>3 DEF SeedOK, FoundOrWritten, Launches
<1> QED
  BY <1>2, <1>3 DEF LoadedOK

LEMMA CommitDeletesLoads ==
  ASSUME SeedOK, LoadedOK, NEW s \in Seeders, S!CommitDeletes(s)
  PROVE  LoadedOK'
<1>1. s \in Resetting /\ pc'[s] = "insert"
  BY DEF SeedOK, S!CommitDeletes
<1> QED
  BY <1>1 DEF LoadedOK, Loaded

LEMMA FlushLoads ==
  ASSUME SeedOK, LoadedOK, NEW s \in Seeders, S!Flush(s)
  PROVE  LoadedOK'
<1>1. /\ UNCHANGED <<db, existing>>
      /\ pc' = [pc EXCEPT ![s] = "flushed"]
  BY DEF S!Flush
<1>2. Loaded => Loaded'
  BY <1>1 DEF SeedOK, Loaded
<1>3. ASSUME NEW l \in Launches, FoundOrWritten(l)' PROVE FoundOrWritten(l)
  BY <1>1, <1>3 DEF SeedOK, FoundOrWritten, Launches
<1> QED
  BY <1>2, <1>3 DEF LoadedOK

LEMMA CommitInsertsLoads ==
  ASSUME SeedOK, NEW s \in Seeders, S!CommitInserts(s)
  PROVE  LoadedOK'
  BY DEF SeedOK, S!CommitInserts, LoadedOK, Loaded

LEMMA RollBackLoads ==
  ASSUME SeedOK, LoadedOK, NEW s \in Seeders, S!Refused(s) \/ S!Die(s)
  PROVE  LoadedOK'
<1>1. PICK end \in {"refused", "dead"} : pc' = [pc EXCEPT ![s] = end]
  BY DEF S!Refused, S!Die, S!RollBack
<1>2. UNCHANGED <<db, existing>>
  BY DEF S!Refused, S!Die, S!RollBack
<1>3. ASSUME NEW l \in Launches, FoundOrWritten(l)' PROVE FoundOrWritten(l)
  BY <1>1, <1>2, <1>3 DEF SeedOK, FoundOrWritten, Launches
<1>4. Loaded => Loaded'
  <2>1. CASE S!Die(s)
    <3>1. pc'[s] = "dead"
      BY <2>1 DEF SeedOK, S!Die, S!RollBack
    <3> QED
      BY <1>1, <1>2, <3>1 DEF SeedOK, Loaded
  <2>2. CASE S!Refused(s)
    <3>1. pc[s] = "insert" => db # {}
      BY <2>2 DEF S!Refused, S!Refusal, S!Taken, S!Left, S!TableRows, S!Tables
    <3>2. pc[s] \notin {"flushed", "dead"}
      BY <2>2 DEF S!Refused, S!Refusal, S!Tables
    <3> QED
      BY <1>1, <1>2, <3>1, <3>2 DEF SeedOK, Loaded
  <2> QED
    BY <2>1, <2>2
<1> QED
  BY <1>3, <1>4 DEF LoadedOK

LEMMA SeedLoads ==
  ASSUME SeedOK, LoadedOK, NEW s \in Seeders, S!Count(s) \/ S!Proceed(s) \/ S!Die(s)
  PROVE  LoadedOK'
  BY CountLoads, DecideLoads, DeleteLoads, CommitDeletesLoads, FlushLoads,
     CommitInsertsLoads, RollBackLoads DEF S!Proceed

-----------------------------------------------------------------------------
(* The stages.                                                              *)

(* How a launch's stage and its run of the script go together.              *)
RunOK(l) ==
  /\ pc[l] # "idle" => stage[l] \in {"seeding", "serving", "refused", "dead"}
  /\ stage[l] = "serving" => pc[l] \in {"done", "skipped"}
  /\ stage[l] = "refused" => pc[l] = "refused"
  /\ stage[l] = "dead" => pc[l] \in {"idle"} \cup Over

(* The tables of a launch that has got past its migration are there; those  *)
(* that it clashed with are another's.                                      *)
TablesOK(l) ==
  /\ stage[l] = "unversioned" => tables \in {None} \cup (Launches \ {l})
  /\ stage[l] = "clashed" => tables \in Launches \ {l}
  /\ tables = l => stage[l] \in {"seeding", "serving", "refused", "dead"}
  /\ stage[l] = "seeding" => tables # None

StagesOK == \A l \in Launches : RunOK(l) /\ TablesOK(l)

IInv == TypeOK /\ StagesOK /\ LoadedOK

LEMMA InvInit == Init => IInv
<1> SUFFICES ASSUME Init PROVE IInv
  OBVIOUS
<1> USE DEF Init, S!Init
<1>1. TypeOK
  BY DEF TypeOK, Stages, Launches
<1>2. StagesOK
  BY DEF StagesOK, RunOK, TablesOK, Launches
<1>3. LoadedOK
  BY DEF LoadedOK, FoundOrWritten, Launches
<1> QED
  BY <1>1, <1>2, <1>3 DEF IInv

(* A step of a launch outside the script.                                   *)
LaunchStep(l) ==
  \/ Start(l) \/ Reach(l) \/ Miss(l) \/ ReadVersion(l)
  \/ CreateTables(l) \/ CommitTables(l) \/ EndSeed(l) \/ LaunchDies(l)

LEMMA LaunchTypes ==
  ASSUME TypeOK, NEW l \in Launches, LaunchStep(l)
  PROVE  TypeOK'
<1> USE DEF TypeOK, Stages, Ended, Failures, GoOn
<1>1. CASE Start(l)
  BY <1>1 DEF Start
<1>2. CASE Reach(l)
  BY <1>2 DEF Reach
<1>3. CASE Miss(l)
  BY <1>3 DEF Miss
<1>4. CASE ReadVersion(l)
  BY <1>4 DEF ReadVersion
<1>5. CASE CreateTables(l)
  BY <1>5 DEF CreateTables, Launches
<1>6. CASE CommitTables(l)
  BY <1>6 DEF CommitTables, Launches
<1>7. CASE EndSeed(l)
  BY <1>7 DEF EndSeed, NextCommand, S!Ends
<1>8. CASE LaunchDies(l)
  BY <1>8 DEF LaunchDies, Launches
<1> QED
  BY <1>1, <1>2, <1>3, <1>4, <1>5, <1>6, <1>7, <1>8 DEF LaunchStep

LEMMA LaunchStages ==
  ASSUME TypeOK, StagesOK, NEW l \in Launches, LaunchStep(l)
  PROVE  StagesOK'
<1>1. SUFFICES ASSUME NEW k \in Launches PROVE RunOK(k)' /\ TablesOK(k)'
  BY DEF StagesOK
<1>2. RunOK(k) /\ TablesOK(k) /\ RunOK(l) /\ TablesOK(l)
  BY DEF StagesOK
<1> USE <1>2 DEF TypeOK, RunOK, TablesOK, GoOn
<1>3. CASE Start(l)
  BY <1>3 DEF Start
<1>4. CASE Reach(l)
  BY <1>4 DEF Reach
<1>5. CASE Miss(l)
  BY <1>5 DEF Miss
<1>6. CASE ReadVersion(l)
  BY <1>6 DEF ReadVersion
<1>7. CASE CreateTables(l)
  BY <1>7 DEF CreateTables
<1>8. CASE CommitTables(l)
  BY <1>8 DEF CommitTables, Launches
<1>9. CASE EndSeed(l)
  BY <1>9 DEF EndSeed, NextCommand, S!Ends, Over
<1>10. CASE LaunchDies(l)
  BY <1>10 DEF LaunchDies, Ended, Failures
<1> QED
  BY <1>3, <1>4, <1>5, <1>6, <1>7, <1>8, <1>9, <1>10 DEF LaunchStep

LEMMA LaunchLoads ==
  ASSUME LoadedOK, UNCHANGED seedVars
  PROVE  LoadedOK'
  BY DEF LoadedOK, Loaded, FoundOrWritten

(* A step of the script, of a launch that is seeding or by hand.            *)
SeedStep(s) ==
  /\ S!Count(s) \/ S!Proceed(s) \/ S!Die(s)
  /\ S!Count(s) => tables # None /\ (s \in Launches => stage[s] = "seeding")
  /\ UNCHANGED <<up, launchVars>>

LEMMA SeedStepMoves ==
  ASSUME SeedOK, NEW s \in Seeders, SeedStep(s)
  PROVE  Moves(s) /\ (pc[s] = "idle" => S!Count(s))
<1>1. CASE S!Count(s)
  BY <1>1, CountMoves
<1>2. CASE S!Proceed(s)
  BY <1>2, ProceedMoves DEF Underway
<1>3. CASE S!Die(s)
  <2>1. UNCHANGED existing
    BY <1>3 DEF S!Die, S!RollBack
  <2>2. pc[s] # "idle" /\ pc[s] \in Underway
    BY <1>3 DEF SeedOK, S!Die, S!Ends, Over
  <2> QED
    BY <1>3, <2>1, <2>2 DEF SeedOK, S!Die, S!RollBack, Moves, Underway, Over
<1> QED
  BY <1>1, <1>2, <1>3 DEF SeedStep

LEMMA SeedStepKeeps ==
  ASSUME IInv, SeedOK, NEW s \in Seeders, SeedStep(s)
  PROVE  IInv'
<1>1. Moves(s) /\ (pc[s] = "idle" => S!Count(s))
  BY SeedStepMoves
<1>2. UNCHANGED <<up, tables, creator, stage, attempt>>
  BY DEF SeedStep
<1>3. TypeOK'
  <2>1. tables # None
    BY <1>1 DEF IInv, TypeOK, SeedStep
  <2> QED
    BY <1>2, <2>1 DEF IInv, TypeOK
<1>4. StagesOK'
  <2>1. SUFFICES ASSUME NEW k \in Launches PROVE RunOK(k)' /\ TablesOK(k)'
    BY DEF StagesOK
  <2>2. RunOK(k) /\ TablesOK(k)
    BY DEF IInv, StagesOK
  <2>3. CASE k = s
    BY <1>1, <1>2, <2>2, <2>3 DEF RunOK, TablesOK, Moves, Underway, Over, SeedStep
  <2>4. CASE k # s
    BY <1>1, <1>2, <2>2, <2>4 DEF RunOK, TablesOK, Moves, Launches
  <2> QED
    BY <2>3, <2>4
<1>5. LoadedOK'
  BY SeedLoads DEF IInv, SeedStep
<1> QED
  BY <1>3, <1>4, <1>5 DEF IInv

LEMMA InvNext == IInv /\ SeedOK /\ [Next]_vars => IInv'
<1> SUFFICES ASSUME IInv, SeedOK, [Next]_vars PROVE IInv'
  OBVIOUS
<1>1. ASSUME NEW l \in Launches, LaunchStep(l) PROVE IInv'
  <2>1. UNCHANGED seedVars
    BY <1>1 DEF LaunchStep, Start, Reach, Miss, ReadVersion, CreateTables,
                CommitTables, EndSeed, LaunchDies
  <2> QED
    BY <1>1, <2>1, LaunchTypes, LaunchStages, LaunchLoads DEF IInv
<1>2. ASSUME NEW s \in Seeders,
             SeedOn(s) \/ SeedDies(s) \/ CountByHand(s)
                \/ (s \in Launches /\ CountCustomers(s))
      PROVE  IInv'
  <2>1. S!Proceed(s) \/ S!Die(s) => ~S!Count(s)
    BY ProceedMoves DEF S!Die, S!Count, Underway
  <2>2. CASE SeedOn(s) \/ SeedDies(s)
    BY <2>1, <2>2, SeedStepKeeps DEF SeedOn, SeedDies, SeedStep
  <2>3. CASE CountByHand(s)
    BY <2>3, SeedStepKeeps DEF CountByHand, SeedStep, Launches
  <2>4. CASE s \in Launches /\ CountCustomers(s)
    <3>1. tables # None
      BY <2>4 DEF CountCustomers, IInv, StagesOK, TablesOK
    <3> QED
      BY <2>4, <3>1, SeedStepKeeps DEF CountCustomers, SeedStep
  <2> QED
    BY <1>2, <2>2, <2>3, <2>4
<1>3. CASE DatabaseStops \/ DatabaseStarts \/ UNCHANGED vars
  <2>1. UNCHANGED <<seedVars, tables, creator, stage, attempt>> /\ up' \in BOOLEAN
    BY <1>3 DEF DatabaseStops, DatabaseStarts, vars, IInv, TypeOK
  <2> QED
    BY <2>1, LaunchLoads DEF IInv, TypeOK, StagesOK, RunOK, TablesOK
<1>4. \A l \in Launches : l \in Seeders
  BY DEF Launches
<1> QED
  BY <1>1, <1>2, <1>3, <1>4 DEF Next, Continue, LaunchStep

LEMMA Inductive == Spec => [](IInv /\ SeedOK)
<1>1. Spec => []SeedOK
  BY SeedInvariant, SeedFacts, PTL
<1> QED
  BY <1>1, InvInit, InvNext, PTL DEF Spec

-----------------------------------------------------------------------------
(* Stages, attempts and tables keep their types; one transaction at a time  *)
(* creates tables (entrypoint.sh:4-7).                                      *)
THEOREM BootTypes == Spec => []TypeOK
<1>1. IInv => TypeOK
  BY DEF IInv
<1> QED
  BY <1>1, Inductive, PTL

(* A container that serves finds loans, unless a reset by hand has emptied  *)
(* the database and is at work or was killed (seed.py:220-233).             *)
THEOREM ServingFindsLoans == Spec => []ServesLoans
<1>1. IInv => ServesLoans
  BY DEF IInv, StagesOK, RunOK, LoadedOK, FoundOrWritten, Loaded, ServesLoans
<1> QED
  BY <1>1, Inductive, PTL

(* A launch fails on the tables or rows it finds only when another launch   *)
(* or run has put them there meanwhile (entrypoint.sh:5-6).                 *)
THEOREM FailuresHaveWinners == Spec => []LosersHaveWinners
<1>1. IInv /\ SeedOK => LosersHaveWinners
  BY DEF IInv, StagesOK, RunOK, TablesOK, SeedOK, LosersHaveWinners, Launches
<1> QED
  BY <1>1, Inductive, PTL

(* When all launches have ended by themselves, one of them serves or a      *)
(* reset by hand has filled the database (entrypoint.sh:4-7).               *)
THEOREM SomeLaunchServes == Spec => []OneServes
<1>1. IInv /\ SeedOK => OneServes
  <2>1. SUFFICES ASSUME IInv, SeedOK, Launches # {},
                        \A l \in Launches : stage[l] \in {"clashed", "refused"}
                 PROVE  written \cap Resetting # {}
    BY DEF OneServes
  <2>2. PICK l \in Launches : TRUE
    BY <2>1
  <2>3. PICK k \in Launches : stage[k] = "refused"
    <3>1. CASE stage[l] = "refused"
      BY <3>1
    <3>2. CASE stage[l] = "clashed"
      <4>1. tables \in Launches
        BY <2>1, <3>2 DEF IInv, StagesOK, TablesOK
      <4> QED
        BY <2>1, <4>1 DEF IInv, StagesOK, TablesOK
    <3> QED
      BY <2>1, <3>1, <3>2
  <2>4. PICK o \in written : TRUE
    BY <2>1, <2>3 DEF IInv, StagesOK, RunOK, SeedOK, Launches
  <2>5. o \in Seeders /\ pc[o] = "done"
    BY <2>1, <2>4 DEF SeedOK
  <2>6. o \notin Launches
    BY <2>1, <2>5 DEF IInv, StagesOK, RunOK
  <2> QED
    BY <2>4, <2>5, <2>6 DEF Launches
<1> QED
  BY <1>1, Inductive, PTL

-----------------------------------------------------------------------------
(* Every launch gets on.  What LaunchesEnd needs beside fairness.           *)

(* The runs of the script, by containers and by hand, never wait for each   *)
(* other in a circle (seed.py:221-258).                                     *)
THEOREM ScriptsNeverWaitInACircle == Spec => []SP!NoCircle
  BY BootRunsSeed, SameSpec, SP!NobodyWaitsInACircle, PTL

(* The steps a launch has still to make, at most: attempts, migration,      *)
(* statements of the script.                                                *)
LaunchLeft(l) ==
  CASE stage[l] = "waiting" -> (MAX_ATTEMPTS - attempt[l]) + 9
    [] stage[l] = "migrating" -> 8
    [] stage[l] = "unversioned" -> 7
    [] stage[l] = "creating" -> 6
    [] stage[l] = "seeding" /\ pc[l] = "idle" -> 5
    [] stage[l] = "seeding" /\ pc[l] = "counted" -> 4
    [] stage[l] = "seeding" /\ pc[l] = "insert" -> 3
    [] stage[l] = "seeding" /\ pc[l] = "flushed" -> 2
    [] stage[l] = "seeding" /\ pc[l] \in Over -> 1
    [] OTHER -> 0

(* Everything a launch does, and its death, brings its end nearer, and      *)
(* nothing that another launch, a reset by hand or the database does puts   *)
(* it off (entrypoint.sh:4-8, wait_for_db.py:20-37).                        *)
EveryAttemptIsSpent ==
  [][\A l \in Launches :
       /\ Continue(l) \/ LaunchDies(l) \/ SeedOn(l) \/ SeedDies(l)
             => LaunchLeft(l)' < LaunchLeft(l)
       /\ ~Start(l) => LaunchLeft(l)' <= LaunchLeft(l)]_vars

(* LaunchLeft, one case at a time.                                          *)
LEMMA LaunchLeftIs ==
  ASSUME NEW l
  PROVE  /\ stage[l] = "waiting" => LaunchLeft(l) = (MAX_ATTEMPTS - attempt[l]) + 9
         /\ stage[l] = "migrating" => LaunchLeft(l) = 8
         /\ stage[l] = "unversioned" => LaunchLeft(l) = 7
         /\ stage[l] = "creating" => LaunchLeft(l) = 6
         /\ stage[l] = "seeding" =>
               /\ pc[l] = "idle" => LaunchLeft(l) = 5
               /\ pc[l] = "counted" => LaunchLeft(l) = 4
               /\ pc[l] = "insert" => LaunchLeft(l) = 3
               /\ pc[l] = "flushed" => LaunchLeft(l) = 2
               /\ pc[l] \in Over => LaunchLeft(l) = 1
         /\ stage[l] \in Ended \cup {"down"} => LaunchLeft(l) = 0
BY DEF LaunchLeft, Over, Ended, Failures

(* What is left is never negative: the attempts stay in their bounds.       *)
LEMMA LaunchLeftBounds ==
  ASSUME TypeOK, SeedOK, NEW l \in Launches
  PROVE  LaunchLeft(l) \in Nat
<1>1. stage[l] \in Stages /\ attempt[l] \in 0..MAX_ATTEMPTS
  BY DEF TypeOK
<1>2. pc[l] \in {"idle", "counted", "insert", "flushed"} \cup Over
  BY DEF SeedOK, Underway, Launches
<1> QED
  BY <1>1, <1>2, LaunchLeftIs DEF Stages

(* Each step of a launch outside the script leaves fewer ...                *)
LEMMA LaunchStepCosts ==
  ASSUME IInv, SeedOK, NEW l \in Launches, LaunchStep(l), ~Start(l)
  PROVE  LaunchLeft(l)' < LaunchLeft(l)
<1> USE DEF GoOn
<1>0. stage \in [Launches -> Stages] /\ attempt \in [Launches -> 0..MAX_ATTEMPTS]
      /\ pc' = pc
  BY DEF IInv, TypeOK, LaunchStep, Start, Reach, Miss, ReadVersion, CreateTables,
         CommitTables, EndSeed, LaunchDies
<1>1. CASE Miss(l) /\ stage' = stage
  <2>1. /\ stage[l] = "waiting" /\ stage'[l] = "waiting"
        /\ attempt'[l] = attempt[l] + 1
    BY <1>0, <1>1 DEF Miss, Stages, Ended, Failures
  <2>2. LaunchLeft(l)' = (MAX_ATTEMPTS - attempt'[l]) + 9
    BY <2>1 DEF LaunchLeft
  <2> QED
    BY <1>0, <2>1, <2>2, LaunchLeftIs
<1>2. CASE Reach(l) \/ (Miss(l) /\ stage' # stage)
  <2>1. stage[l] = "waiting" /\ stage'[l] \in {"migrating", "unreachable"}
    BY <1>0, <1>2 DEF Reach, Miss
  <2>2. LaunchLeft(l)' \in {0, 8}
    BY <2>1 DEF LaunchLeft
  <2>3. LaunchLeft(l) = (MAX_ATTEMPTS - attempt[l]) + 9
    BY <2>1, LaunchLeftIs
  <2> QED
    BY <1>0, <2>2, <2>3
<1>3. CASE ReadVersion(l) \/ CreateTables(l) \/ CommitTables(l)
  <2>1. \/ stage[l] = "migrating" /\ stage'[l] \in {"unversioned", "seeding"}
        \/ stage[l] = "unversioned" /\ stage'[l] \in {"creating", "clashed"}
        \/ stage[l] = "creating" /\ stage'[l] = "seeding"
    BY <1>0, <1>3 DEF ReadVersion, CreateTables, CommitTables
  <2>2. stage'[l] = "seeding" => LaunchLeft(l)' \in 0..5
    BY DEF LaunchLeft
  <2>3. /\ stage'[l] = "unversioned" => LaunchLeft(l)' = 7
        /\ stage'[l] = "creating" => LaunchLeft(l)' = 6
        /\ stage'[l] = "clashed" => LaunchLeft(l)' = 0
    BY DEF LaunchLeft
  <2> QED
    BY <2>1, <2>2, <2>3, LaunchLeftIs
<1>4. CASE EndSeed(l) \/ LaunchDies(l)
  <2>1. /\ stage[l] \in Stages \ (Ended \cup {"down"})
        /\ stage'[l] \in Ended
        /\ stage[l] = "seeding" => pc[l] \in {"idle"} \cup Over
    BY <1>0, <1>4 DEF EndSeed, LaunchDies, NextCommand, S!Ends, Stages, Ended, Failures, Over
  <2>2. LaunchLeft(l)' = 0
    BY <2>1 DEF LaunchLeft, Ended, Failures
  <2>3. LaunchLeft(l) \in Nat \ {0}
    BY <1>0, <2>1, LaunchLeftIs DEF Stages
  <2> QED
    BY <2>2, <2>3
<1> QED
  BY <1>1, <1>2, <1>3, <1>4 DEF LaunchStep

(* ... and so does each step of its run of the script.                      *)
LEMMA ScriptCosts ==
  ASSUME IInv, SeedOK, NEW l \in Launches, SeedStep(l)
  PROVE  LaunchLeft(l)' < LaunchLeft(l)
<1>0. l \in Seeders \ Resetting
  BY DEF Launches
<1>1. pc[l] \in {"idle", "counted", "insert", "flushed"} /\ pc'[l] \in Underway \cup Over
  BY <1>0, SeedStepMoves DEF SeedOK, Moves, Underway
<1>2. stage[l] = "seeding" /\ stage' = stage
  BY <1>0, <1>1, SeedStepMoves DEF SeedStep, IInv, StagesOK, RunOK, launchVars, Over
<1>3. \/ pc[l] = "idle" /\ pc'[l] = "counted"
      \/ pc[l] = "counted" /\ pc'[l] \in {"insert"} \cup Over
      \/ pc[l] = "insert" /\ pc'[l] \in {"flushed"} \cup Over
      \/ pc[l] = "flushed" /\ pc'[l] \in Over
  <2>1. CASE S!Count(l)
    BY <1>0, <2>1 DEF S!Count, SeedOK
  <2>2. CASE S!Die(l)
    BY <1>0, <1>1, <2>2 DEF S!Die, S!RollBack, SeedOK, S!Ends, Over
  <2>3. CASE S!Proceed(l)
    BY <1>0, <1>1, <2>3
       DEF S!Proceed, S!Decide, S!AfterCount, S!Delete, S!CommitDeletes, S!Flush,
           S!CommitInserts, S!Refused, S!Refusal, S!RollBack, S!Tables, SeedOK, Over
  <2> QED
    BY <2>1, <2>2, <2>3 DEF SeedStep
<1>4. /\ pc'[l] = "counted" => LaunchLeft(l)' = 4
      /\ pc'[l] = "insert" => LaunchLeft(l)' = 3
      /\ pc'[l] = "flushed" => LaunchLeft(l)' = 2
      /\ pc'[l] \in Over => LaunchLeft(l)' = 1
  BY <1>2 DEF LaunchLeft, Over
<1> QED
  BY <1>2, <1>3, <1>4, LaunchLeftIs

(* Boot's steps of the script are steps of Seed that begin no run ...       *)
LEMMA OnIsAStep ==
  ASSUME SeedOK, NEW s \in Seeders, SeedOn(s) \/ SeedDies(s)
  PROVE  SeedStep(s)
<1>1. S!Proceed(s) \/ S!Die(s) => ~S!Count(s)
  BY ProceedMoves DEF S!Die, S!Count, Underway
<1> QED
  BY <1>1 DEF SeedOn, SeedDies, SeedStep

(* ... or begin it when the launch has got to it.                           *)
LEMMA CountIsAStep ==
  ASSUME IInv, NEW l \in Launches, CountCustomers(l)
  PROVE  l \in Seeders /\ SeedStep(l)
BY DEF CountCustomers, SeedStep, IInv, StagesOK, TablesOK, Launches

(* What one step of Boot is.                                                *)
LEMMA OneStep ==
  ASSUME IInv, SeedOK, [Next]_vars
  PROVE  \/ \E l \in Launches : LaunchStep(l)
         \/ \E s \in Seeders : SeedStep(s)
         \/ DatabaseStops \/ DatabaseStarts \/ UNCHANGED vars
<1>1. ASSUME NEW s \in Seeders, SeedOn(s) \/ SeedDies(s) PROVE SeedStep(s)
  BY <1>1, OnIsAStep
<1>2. ASSUME NEW s \in Seeders, CountByHand(s) PROVE SeedStep(s)
  BY <1>2 DEF CountByHand, SeedStep, Launches
<1>3. ASSUME NEW l \in Launches, CountCustomers(l) PROVE l \in Seeders /\ SeedStep(l)
  BY <1>3, CountIsAStep
<1>4. ASSUME NEW l \in Launches, Continue(l)
      PROVE  LaunchStep(l) \/ CountCustomers(l)
  BY <1>4 DEF Continue, LaunchStep
<1> QED
  BY <1>1, <1>2, <1>3, <1>4 DEF Next, LaunchStep

(* What anyone else does leaves a launch where it is.                       *)
LEMMA OthersLeaveIt ==
  ASSUME IInv, SeedOK, [Next]_vars, NEW l \in Launches, ~LaunchStep(l), ~SeedStep(l)
  PROVE  LaunchLeft(l)' = LaunchLeft(l)
<1>1. pc'[l] = pc[l] /\ stage'[l] = stage[l] /\ attempt'[l] = attempt[l]
  <2>1. ASSUME NEW k \in Launches, k # l, LaunchStep(k)
        PROVE  pc'[l] = pc[l] /\ stage'[l] = stage[l] /\ attempt'[l] = attempt[l]
    BY <2>1 DEF LaunchStep, Start, Reach, Miss, ReadVersion, CreateTables, CommitTables,
                EndSeed, LaunchDies, GoOn, IInv, TypeOK
  <2>2. ASSUME NEW s \in Seeders, s # l, SeedStep(s)
        PROVE  pc'[l] = pc[l] /\ stage'[l] = stage[l] /\ attempt'[l] = attempt[l]
    BY <2>2, SeedStepMoves DEF Moves, SeedStep, Launches
  <2>3. ASSUME DatabaseStops \/ DatabaseStarts \/ UNCHANGED vars
        PROVE  pc'[l] = pc[l] /\ stage'[l] = stage[l] /\ attempt'[l] = attempt[l]
    BY <2>3 DEF DatabaseStops, DatabaseStarts, vars
  <2> QED
    BY <2>1, <2>2, <2>3, OneStep
<1> QED
  BY <1>1 DEF LaunchLeft

(* So every launch comes to its end: the attempts are counted, and so are   *)
(* the statements (entrypoint.sh:4-8, wait_for_db.py:20-37).                *)
THEOREM AttemptsRunOut == Spec => EveryAttemptIsSpent
<1>0. \A l \in Launches : (IInv /\ SeedOK => LaunchLeft(l) \in Int)'
  <2>1. IInv /\ SeedOK => \A l \in Launches : LaunchLeft(l) \in Int
    BY LaunchLeftBounds DEF IInv
  <2>2. (IInv /\ SeedOK => \A l \in Launches : LaunchLeft(l) \in Int)'
    BY <2>1, PTL
  <2> QED
    BY <2>2
<1>1. ASSUME IInv, SeedOK, IInv', SeedOK', [Next]_vars, NEW l \in Launches
      PROVE  /\ Continue(l) \/ LaunchDies(l) \/ SeedOn(l) \/ SeedDies(l)
                   => LaunchLeft(l)' < LaunchLeft(l)
             /\ ~Start(l) => LaunchLeft(l)' <= LaunchLeft(l)
  <2>1. Continue(l) \/ LaunchDies(l) \/ SeedOn(l) \/ SeedDies(l)
          => (LaunchStep(l) /\ ~Start(l)) \/ SeedStep(l)
    <3>1. Continue(l) => (LaunchStep(l) /\ ~Start(l)) \/ CountCustomers(l)
      BY DEF Continue, LaunchStep, Start, Reach, Miss, ReadVersion, CreateTables,
             CommitTables, EndSeed, LaunchDies
    <3>2. LaunchDies(l) => LaunchStep(l) /\ ~Start(l)
      BY DEF LaunchDies, LaunchStep, Start
    <3> QED
      BY <1>1, <3>1, <3>2, OnIsAStep, CountIsAStep DEF Launches
  <2>2. (LaunchStep(l) /\ ~Start(l)) \/ SeedStep(l) => LaunchLeft(l)' < LaunchLeft(l)
    BY <1>1, LaunchStepCosts, ScriptCosts
  <2>3. ~LaunchStep(l) /\ ~SeedStep(l) => LaunchLeft(l)' = LaunchLeft(l)
    BY <1>1, OthersLeaveIt
  <2>4. LaunchLeft(l) \in Int /\ LaunchLeft(l)' \in Int
    BY <1>0, <1>1, LaunchLeftBounds DEF IInv
  <2> QED
    BY <2>1, <2>2, <2>3, <2>4
<1> QED
  <2>1. (IInv /\ SeedOK) /\ (IInv /\ SeedOK)' /\ [Next]_vars
          => [\A l \in Launches :
                /\ Continue(l) \/ LaunchDies(l) \/ SeedOn(l) \/ SeedDies(l)
                      => LaunchLeft(l)' < LaunchLeft(l)
                /\ ~Start(l) => LaunchLeft(l)' <= LaunchLeft(l)]_vars
    BY <1>1
  <2> QED
    BY <2>1, Inductive, PTL DEF Spec, EveryAttemptIsSpent

-----------------------------------------------------------------------------
(* What Boot's one-step creation of the tables rests on: `alembic upgrade   *)
(* head` and `downgrade base`, statement by statement, for any processes.   *)

(* The revision a script starts from.                                       *)
From(script) == IF script = "upgrade" THEN "base" ELSE "head"

(* A run under way that has executed a statement.                           *)
Writes(p) == run[p] \in Running /\ step[p] > 0

MigrationTypes ==
  /\ objects \subseteq Objects
  /\ revision \in {"base", "head"}
  /\ run \in [Processes -> Running \cup Ends]
  /\ step \in [Processes -> 0..7]
  /\ overtaken \in [Processes -> BOOLEAN]

(* The revision a run read is still the committed one, unless another has   *)
(* committed since.                                                         *)
FreshOK ==
  \A p \in Processes : run[p] \in Running /\ ~overtaken[p] => revision = From(run[p])

(* Who has executed a statement runs from the committed revision: the first *)
(* one named what only that revision has, or lacks.                         *)
WriterOK == \A p \in Processes : Writes(p) => revision = From(run[p])

(* At most one open transaction has changed anything, of whichever          *)
(* direction, because the first names are waited for or refused.            *)
OneWriter == \A p, q \in Processes : Writes(p) /\ Writes(q) => p = q

MigrationInv ==
  /\ MigrationTypes
  /\ RevisionTrue
  /\ CyclesRepeat
  /\ FreshOK
  /\ WriterOK
  /\ OneWriter

-----------------------------------------------------------------------------
(* The two scripts.                                                         *)

LEMMA UpgradeScript ==
  /\ Upgrade \in Seq(Objects) /\ Len(Upgrade) = 7
  /\ Upgrade[1] = "customers" /\ Upgrade[2] = "loan_type"
  /\ Upgrade[3] = "loan_status" /\ Upgrade[4] = "loans"
  /\ Upgrade[5] = "ix_loans_customer_id" /\ Upgrade[6] = "payments"
  /\ Upgrade[7] = "ix_payments_loan_id"
  BY DEF Upgrade, Objects

LEMMA DowngradeScript ==
  /\ Downgrade \in Seq(Objects) /\ Len(Downgrade) = 7
  /\ Downgrade[1] = "ix_payments_loan_id" /\ Downgrade[2] = "payments"
  /\ Downgrade[3] = "ix_loans_customer_id" /\ Downgrade[4] = "loans"
  /\ Downgrade[5] = "customers" /\ Downgrade[6] = "loan_status"
  /\ Downgrade[7] = "loan_type"
  BY DEF Downgrade, Objects

(* What the first n statements name.                                        *)
LEMMA RangeOfPrefix ==
  ASSUME NEW T, NEW s \in Seq(T), NEW n \in 0..Len(s)
  PROVE  Range(SubSeq(s, 1, n)) = {s[i] : i \in 1..n}
<1>1. DOMAIN SubSeq(s, 1, n) = 1..n /\ \A i \in 1..n : SubSeq(s, 1, n)[i] = s[i]
  OBVIOUS
<1> QED
  BY <1>1 DEF Range

LEMMA ScriptFacts ==
  ASSUME MigrationTypes, NEW p \in Processes
  PROVE  /\ Script(p) \in Seq(Objects) /\ Len(Script(p)) = 7
         /\ run[p] \in Running => Touched(p) = {Script(p)[i] : i \in 1..step[p]}
         /\ run[p] \notin Running => Touched(p) = {}
<1>1. Script(p) \in Seq(Objects) /\ Len(Script(p)) = 7
  BY UpgradeScript, DowngradeScript DEF Script
<1>2. step[p] \in 0..Len(Script(p))
  BY <1>1 DEF MigrationTypes
<1>3. Range(SubSeq(Script(p), 1, step[p])) = {Script(p)[i] : i \in 1..step[p]}
  BY <1>1, <1>2, RangeOfPrefix
<1> QED
  BY <1>1, <1>3 DEF Touched

(* Started from its own revision, a run sees what its next statement needs. *)
LEMMA UpgradePossible ==
  ASSUME MigrationTypes, NEW p \in Processes, run[p] = "upgrade", step[p] < 7,
         objects = {}
  PROVE  Possible(p)
<1>1. /\ Script(p) = Upgrade
      /\ Seen(p) = {Upgrade[i] : i \in 1..step[p]}
  BY ScriptFacts DEF Script, Seen, Running
<1>2. step[p] \in 0..6
  BY DEF MigrationTypes
<1>3. Named(p) = Upgrade[step[p] + 1]
  BY <1>1 DEF Named
<1>4. \A i \in 1..7 : Upgrade[i] \in Seen(p) <=> i <= step[p]
  <2>1. \A i, j \in 1..7 : Upgrade[i] = Upgrade[j] => i = j
    BY UpgradeScript
  <2> QED
    BY <1>1, <1>2, <2>1
<1>5. Named(p) \notin Seen(p)
  BY <1>2, <1>3, <1>4
<1>6. Needs(Named(p)) \subseteq Seen(p)
  BY <1>2, <1>3, <1>4, UpgradeScript DEF Needs
<1> QED
  BY <1>5, <1>6 DEF Possible

LEMMA DowngradePossible ==
  ASSUME MigrationTypes, NEW p \in Processes, run[p] = "downgrade", step[p] < 7,
         objects = Objects
  PROVE  Possible(p)
<1>1. /\ Script(p) = Downgrade
      /\ Seen(p) = Objects \ {Downgrade[i] : i \in 1..step[p]}
  BY ScriptFacts DEF Script, Seen, Running
<1>2. step[p] \in 0..6
  BY DEF MigrationTypes
<1>3. Named(p) = Downgrade[step[p] + 1]
  BY <1>1 DEF Named
<1>4. \A i \in 1..7 : Downgrade[i] \in Seen(p) <=> i > step[p]
  <2>1. \A i, j \in 1..7 : Downgrade[i] = Downgrade[j] => i = j
    BY DowngradeScript
  <2>2. \A i \in 1..7 : Downgrade[i] \in Objects
    BY DowngradeScript DEF Objects
  <2> QED
    BY <1>1, <1>2, <2>1, <2>2
<1>5. Named(p) \in Seen(p)
  BY <1>2, <1>3, <1>4
<1>6. \A o \in Seen(p) : Named(p) \notin Needs(o)
  <2>1. \A i \in 1..7 : \A j \in 1..7 :
           Downgrade[i] \in Needs(Downgrade[j]) => j < i
    BY DowngradeScript DEF Needs
  <2>2. \A o \in Seen(p) : \E j \in 1..7 : o = Downgrade[j]
    BY <1>1, DowngradeScript DEF Objects
  <2> QED
    BY <1>2, <1>3, <1>4, <2>1, <2>2
<1> QED
  BY <1>5, <1>6 DEF Possible

(* The first statement of a run that may be executed is the first change:   *)
(* nobody else has one open, and the revision is the one it starts from.    *)
LEMMA FirstStatement ==
  ASSUME MigrationInv, NEW p \in Processes, Execute(p), step[p] = 0
  PROVE  /\ revision = From(run[p])
         /\ \A q \in Processes : ~Writes(q)
<1> USE DEF MigrationInv, MigrationTypes
<1>1. Touched(p) = {} /\ run[p] \in Running
  BY ScriptFacts DEF Execute, Executing
<1>2. Named(p) = IF run[p] = "upgrade" THEN "customers" ELSE "ix_payments_loan_id"
  BY <1>1, UpgradeScript, DowngradeScript DEF Named, Script
<1>3. revision = From(run[p])
  BY <1>1, <1>2 DEF Execute, Possible, Seen, RevisionTrue, Objects, From,
                    Running
<1>4. ASSUME NEW q \in Processes, Writes(q) PROVE FALSE
  <2>1. run[q] = run[p]
    BY <1>1, <1>3, <1>4 DEF WriterOK, Writes, From, Running
  <2>2. Script(p)[1] \in Touched(q) /\ Script(q) = Script(p)
    BY <1>4, <2>1, ScriptFacts DEF Writes, Script
  <2>3. Named(p) = Script(p)[1]
    BY DEF Named
  <2>4. q # p
    BY <1>4 DEF Writes
  <2> QED
    BY <1>1, <2>1, <2>2, <2>3, <2>4 DEF Execute, Waits, Running
<1> QED
  BY <1>3, <1>4

-----------------------------------------------------------------------------
(* The invariant, action by action.                                         *)

LEMMA BeginKeeps ==
  ASSUME MigrationInv, NEW p \in Processes, NEW script \in Running,
         Begin(p, script)
  PROVE  MigrationInv'
<1> USE DEF MigrationInv, MigrationTypes, Begin
<1>1. MigrationTypes'
  OBVIOUS
<1>2. RevisionTrue' /\ CyclesRepeat'
  BY DEF RevisionTrue, CyclesRepeat, Running
<1>3. FreshOK'
  BY DEF FreshOK, From
<1>4. \A q \in Processes : Writes(q)' => q # p /\ Writes(q)
  BY DEF Writes
<1>5. WriterOK' /\ OneWriter'
  BY <1>4 DEF WriterOK, OneWriter
<1> QED
  BY <1>1, <1>2, <1>3, <1>5

LEMMA ExecuteKeeps ==
  ASSUME MigrationInv, NEW p \in Processes, Execute(p)
  PROVE  MigrationInv'
<1> USE DEF MigrationInv, MigrationTypes
<1>1. MigrationTypes'
  <2>1. step[p] < 7
    BY ScriptFacts DEF Execute, Executing
  <2>2. step[p] + 1 \in 0..7
    BY <2>1
  <2> QED
    BY <2>2 DEF Execute
<1>2. RevisionTrue' /\ CyclesRepeat' /\ FreshOK'
  BY DEF RevisionTrue, CyclesRepeat, FreshOK, Execute
<1>3. \A q \in Processes : Writes(q)' => q = p \/ Writes(q)
  BY DEF Writes, Execute
<1>4. WriterOK' /\ OneWriter'
  <2>1. CASE step[p] = 0
    <3>1. revision = From(run[p]) /\ \A q \in Processes : ~Writes(q)
      BY <2>1, FirstStatement
    <3> QED
      BY <1>3, <3>1 DEF WriterOK, OneWriter, Execute
  <2>2. CASE step[p] # 0
    <3>1. Writes(p)
      BY <2>2 DEF Writes, Execute, Executing
    <3> QED
      BY <1>3, <3>1 DEF WriterOK, OneWriter, Execute
  <2> QED
    BY <2>1, <2>2
<1> QED
  BY <1>1, <1>2, <1>4

LEMMA RefuseKeeps ==
  ASSUME MigrationInv, NEW p \in Processes, Refuse(p)
  PROVE  MigrationInv'
<1> USE DEF MigrationInv, MigrationTypes
<1>1. run[p] \in Running /\ step[p] < 7 /\ ~Possible(p)
  BY ScriptFacts DEF Refuse, Executing
<1>2. overtaken[p]
  <2>1. SUFFICES ASSUME ~overtaken[p] PROVE FALSE
    OBVIOUS
  <2>2. revision = From(run[p])
    BY <1>1, <2>1 DEF FreshOK
  <2>3. CASE run[p] = "upgrade"
    BY <1>1, <2>2, <2>3, UpgradePossible DEF From, RevisionTrue
  <2>4. CASE run[p] = "downgrade"
    BY <1>1, <2>2, <2>4, DowngradePossible DEF From, RevisionTrue
  <2> QED
    BY <1>1, <2>3, <2>4 DEF Running
<1>3. MigrationTypes' /\ RevisionTrue'
  BY DEF Refuse, Ends, RevisionTrue
<1>4. CyclesRepeat'
  BY <1>2 DEF Refuse, CyclesRepeat
<1>5. \A q \in Processes : run'[q] \in Running => run'[q] = run[q]
  BY DEF Refuse, Running
<1>6. FreshOK' /\ WriterOK' /\ OneWriter'
  BY <1>5 DEF Refuse, FreshOK, WriterOK, OneWriter, Writes
<1> QED
  BY <1>3, <1>4, <1>6

LEMMA DieKeeps ==
  ASSUME MigrationInv, NEW p \in Processes, Die(p)
  PROVE  MigrationInv'
<1> USE DEF MigrationInv, MigrationTypes
<1>1. MigrationTypes' /\ RevisionTrue' /\ CyclesRepeat'
  BY DEF Die, Ends, RevisionTrue, CyclesRepeat
<1>2. \A q \in Processes : run'[q] \in Running => run'[q] = run[q]
  BY DEF Die, Running
<1>3. FreshOK' /\ WriterOK' /\ OneWriter'
  BY <1>2 DEF Die, FreshOK, WriterOK, OneWriter, Writes
<1> QED
  BY <1>1, <1>3

(* A transaction that commits has executed its whole script, so it had begun*)
(* at the other revision and leaves all of the schema or nothing.           *)
LEMMA CommitEffect ==
  ASSUME MigrationInv, NEW p \in Processes, Commit(p)
  PROVE  /\ Writes(p) /\ revision = From(run[p])
         /\ objects' = IF run[p] = "upgrade" THEN Objects ELSE {}
<1> USE DEF MigrationInv, MigrationTypes
<1>1. run[p] \in Running /\ step[p] = 7
  BY ScriptFacts DEF Commit
<1>2. Writes(p) /\ revision = From(run[p])
  BY <1>1 DEF Writes, WriterOK
<1>3. Touched(p) = {Script(p)[i] : i \in 1..7}
  BY <1>1, ScriptFacts
<1>4. Touched(p) = Objects
  BY <1>3, UpgradeScript, DowngradeScript DEF Script, Objects
<1> QED
  BY <1>1, <1>2, <1>4 DEF Commit, Seen

LEMMA CommitKeeps ==
  ASSUME MigrationInv, NEW p \in Processes, Commit(p)
  PROVE  MigrationInv'
<1> USE DEF MigrationInv, MigrationTypes
<1>1. run[p] \in Running
  BY DEF Commit
<1>2. MigrationTypes'
  BY CommitEffect DEF Commit, Ends
<1>3. RevisionTrue'
  BY CommitEffect DEF Commit, RevisionTrue
<1>4. CyclesRepeat'
  BY DEF Commit, CyclesRepeat
<1>5. \A q \in Processes : run'[q] \in Running => q # p /\ run'[q] = run[q]
  BY DEF Commit, Running
<1>6. \A q \in Processes : ~Writes(q)'
  BY <1>5, CommitEffect DEF OneWriter, Writes, Commit
<1>7. FreshOK' /\ WriterOK' /\ OneWriter'
  BY <1>5, <1>6 DEF Commit, FreshOK, WriterOK, OneWriter
<1> QED
  BY <1>2, <1>3, <1>4, <1>7

LEMMA MigrationInvNext == MigrationInv /\ [MigrationNext]_migrationVars => MigrationInv'
<1> SUFFICES ASSUME MigrationInv, [MigrationNext]_migrationVars PROVE MigrationInv'
  OBVIOUS
<1>1. CASE UNCHANGED migrationVars
  BY <1>1 DEF migrationVars, MigrationInv, MigrationTypes, RevisionTrue, CyclesRepeat,
              FreshOK, WriterOK, OneWriter, Writes
<1> QED
  BY <1>1, BeginKeeps, ExecuteKeeps, RefuseKeeps, CommitKeeps, DieKeeps
     DEF MigrationNext, Migrate

LEMMA MigrationInductive == MigrationSpec => []MigrationInv
<1>1. MigrationInit => MigrationInv
  BY DEF MigrationInit, MigrationInv, MigrationTypes, Ends, RevisionTrue, CyclesRepeat,
         FreshOK, WriterOK, OneWriter, Writes, Running
<1> QED
  BY <1>1, MigrationInvNext, PTL DEF MigrationSpec

-----------------------------------------------------------------------------
(* Of some runs one has executed most.                                      *)
LEMMA FurthestRun ==
  ASSUME MigrationTypes, NEW R \in SUBSET Processes, R # {}
  PROVE  \E p \in R : \A q \in R : step[q] <= step[p]
<1> DEFINE At(n) == \E p \in R : step[p] = n
<1>1. \A p \in R : step[p] \in 0..7 /\ At(step[p])
  BY DEF MigrationTypes
<1>2. \E n \in 0..7 : At(n) /\ \A m \in 0..7 : At(m) => m <= n
  <2>1. At(0) \/ At(1) \/ At(2) \/ At(3) \/ At(4) \/ At(5) \/ At(6) \/ At(7)
    BY <1>1
  <2> HIDE DEF At
  <2> QED
    BY <2>1
<1>3. PICK n \in 0..7 : At(n) /\ \A m \in 0..7 : At(m) => m <= n
  BY <1>2
<1>4. PICK p \in R : step[p] = n
  BY <1>3
<1>5. \A q \in R : step[q] <= step[p]
  BY <1>1, <1>3, <1>4
<1> QED
  BY <1>5

(* A run waits for one of its own direction only if that has come further.  *)
LEMMA WaitsForFurther ==
  ASSUME MigrationTypes, NEW p \in Processes, NEW o \in Processes,
         Executing(p), run[o] = run[p], Named(p) \in Touched(o)
  PROVE  step[p] < step[o]
<1>1. /\ Script(o) = Script(p) /\ run[p] \in Running
      /\ step[p] < 7 /\ step[p] \in 0..7 /\ step[o] \in 0..7
  BY ScriptFacts DEF Script, Executing, MigrationTypes
<1>2. Touched(o) = {Script(p)[i] : i \in 1..step[o]}
  BY <1>1, ScriptFacts
<1>3. \A i, j \in 1..7 : Script(p)[i] = Script(p)[j] => i = j
  <2>1. \A i, j \in 1..7 : Upgrade[i] = Upgrade[j] => i = j
    BY UpgradeScript
  <2>2. \A i, j \in 1..7 : Downgrade[i] = Downgrade[j] => i = j
    BY DowngradeScript
  <2> QED
    BY <2>1, <2>2 DEF Script
<1>4. PICK i \in 1..step[o] : Script(p)[step[p] + 1] = Script(p)[i]
  BY <1>2 DEF Named
<1>5. step[p] + 1 \in 1..7 /\ i \in 1..7
  BY <1>1
<1>6. step[p] + 1 = i
  BY <1>3, <1>4, <1>5
<1> QED
  BY <1>1, <1>6

LEMMA NobodyWaitsInACircle == ASSUME MigrationTypes PROVE SomeRunGoesOn
<1> DEFINE Of(script) == {p \in Processes : run[p] = script}
<1>1. CASE Of("downgrade") # {}
  <2>1. PICK p \in Of("downgrade") :
           \A q \in Of("downgrade") : step[q] <= step[p]
    BY <1>1, FurthestRun
  <2>2. ~(Executing(p) /\ Waits(p))
    <3> SUFFICES ASSUME Executing(p), NEW o \in Processes \ {p},
                        Named(p) \in Touched(o), run[o] = "downgrade"
                 PROVE  FALSE
      BY <2>1 DEF Waits
    <3>1. step[p] < step[o] /\ step[o] <= step[p]
      BY <2>1, WaitsForFurther
    <3> QED
      BY <3>1 DEF MigrationTypes
  <2> QED
    BY <2>1, <2>2 DEF SomeRunGoesOn, Running
<1>2. CASE Of("downgrade") = {} /\ Of("upgrade") # {}
  <2>1. PICK p \in Of("upgrade") :
           \A q \in Of("upgrade") : step[q] <= step[p]
    BY <1>2, FurthestRun
  <2>2. ~(Executing(p) /\ Waits(p))
    <3> SUFFICES ASSUME Executing(p), NEW o \in Processes \ {p},
                        Named(p) \in Touched(o)
                 PROVE  FALSE
      BY DEF Waits
    <3>1. run[o] = "upgrade"
      BY <1>2 DEF Touched, Running
    <3>2. step[p] < step[o] /\ step[o] <= step[p]
      BY <2>1, <3>1, WaitsForFurther
    <3> QED
      BY <3>2 DEF MigrationTypes
  <2> QED
    BY <2>1, <2>2 DEF SomeRunGoesOn, Running
<1>3. CASE Of("downgrade") = {} /\ Of("upgrade") = {}
  BY <1>3 DEF SomeRunGoesOn, Running
<1> QED
  BY <1>1, <1>2, <1>3

-----------------------------------------------------------------------------
(* At head everything models.py declares is there, at base nothing, for any *)
(* processes that upgrade and downgrade at once, refused or killed anywhere *)
(* (env.py:37-41).                                                          *)
THEOREM RevisionTellsTheTruth == MigrationSpec => []RevisionTrue
<1>1. MigrationInv => RevisionTrue
  BY DEF MigrationInv
<1> QED
  BY <1>1, MigrationInductive, PTL

(* A run that nobody overtakes is never refused, so upgrade and downgrade   *)
(* can follow each other for ever (ac72b166a3a9_initial_schema.py:68-70).   *)
THEOREM OnlyTheOvertakenAreRefused == MigrationSpec => []CyclesRepeat
<1>1. MigrationInv => CyclesRepeat
  BY DEF MigrationInv
<1> QED
  BY <1>1, MigrationInductive, PTL

(* However many runs wait for each other's tables and types, one of them    *)
(* can go on (ac72b166a3a9_initial_schema.py:21-70).                        *)
THEOREM MigrationsGoOn == MigrationSpec => []SomeRunGoesOn
<1>1. MigrationInv => SomeRunGoesOn
  BY NobodyWaitsInACircle DEF MigrationInv
<1> QED
  BY <1>1, MigrationInductive, PTL

(* Of the transactions that are open at a time one at most has changed      *)
(* anything (ac72b166a3a9_initial_schema.py:21-70).                         *)
THEOREM OneMigrationAtATime == MigrationSpec => []OneWriter
<1>1. MigrationInv => OneWriter
  BY DEF MigrationInv
<1> QED
  BY <1>1, MigrationInductive, PTL

(* The abstract specification: the whole schema comes and goes in one step, *)
(* together with its revision, and never twice in a row the same way.       *)
Raise == objects = {} /\ objects' = Objects /\ revision = "base" /\ revision' = "head"
Lower == objects = Objects /\ objects' = {} /\ revision = "head" /\ revision' = "base"

SchemaSpec ==
  objects = {} /\ revision = "base" /\ [][Raise \/ Lower]_<<objects, revision>>

LEMMA CommitRaisesOrLowers ==
  ASSUME MigrationInv, NEW p \in Processes, Commit(p)
  PROVE  Raise \/ Lower
<1>1. run[p] \in Running /\ revision = From(run[p])
  BY CommitEffect DEF Commit
<1>2. objects' = IF run[p] = "upgrade" THEN Objects ELSE {}
  BY CommitEffect
<1> QED
  BY <1>1, <1>2
     DEF Commit, Running, From, MigrationInv, RevisionTrue, Raise, Lower

(* Migration implements it: what others see of a run is one step from       *)
(* nothing to everything or back, whoever else runs or dies (env.py:37-41). *)
THEOREM SchemaIsAtomic == MigrationSpec => SchemaSpec
<1>1. MigrationInit => objects = {} /\ revision = "base"
  BY DEF MigrationInit
<1>2. MigrationInv /\ [MigrationNext]_migrationVars => [Raise \/ Lower]_<<objects, revision>>
  <2> SUFFICES ASSUME MigrationInv, [MigrationNext]_migrationVars
               PROVE  [Raise \/ Lower]_<<objects, revision>>
    OBVIOUS
  <2>1. ASSUME NEW p \in Processes,
               \/ \E script \in Running : Begin(p, script)
               \/ Execute(p) \/ Refuse(p) \/ Die(p)
        PROVE  UNCHANGED <<objects, revision>>
    BY <2>1 DEF Begin, Execute, Refuse, Die
  <2> QED
    BY <2>1, CommitRaisesOrLowers DEF MigrationNext, Migrate, migrationVars
<1> QED
  BY <1>1, <1>2, MigrationInductive, PTL DEF MigrationSpec, SchemaSpec

=============================================================================
