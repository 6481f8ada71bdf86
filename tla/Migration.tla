------------------------------ MODULE Migration ------------------------------
(***************************************************************************)
(* `alembic upgrade head` and `alembic downgrade base` (alembic/env.py,     *)
(* alembic/versions/ac72b166a3a9_initial_schema.py) over one PostgreSQL     *)
(* database, run again and again, and by several processes at once.  A run  *)
(* reads the revision and then executes the statements of the migration     *)
(* and records the new revision, all in one transaction.  A statement waits *)
(* for another's open transaction that has created what it creates or       *)
(* dropped what it drops, and is refused when what it needs is missing or   *)
(* in the way.                                                              *)
(***************************************************************************)
EXTENDS Integers, Sequences, Functions, FiniteSets

CONSTANT Processes

Objects == {"customers", "loans", "payments", "loan_type", "loan_status",
            "ix_loans_customer_id", "ix_payments_loan_id"}

(* What an object refers to: foreign keys, column types, indexed tables.    *)
Needs(o) ==
  CASE o = "loans" -> {"customers", "loan_type", "loan_status"}
    [] o = "payments" -> {"loans"}
    [] o = "ix_loans_customer_id" -> {"loans"}
    [] o = "ix_payments_loan_id" -> {"payments"}
    [] OTHER -> {}

(* upgrade(): create_table creates the types of its columns before it.  The *)
(* very first run creates alembic_version before all that, to the same      *)
(* effect on another one.                                                   *)
Upgrade == <<"customers", "loan_type", "loan_status", "loans",
             "ix_loans_customer_id", "payments", "ix_payments_loan_id">>

(* Variants, which nothing below uses, stand before what they vary: a       *)
(* plausible slip in the code, named for what it does.                      *)
(* Variant: the types stay, as they do when tables are dropped.              *)
DowngradeKeepsTypes ==
  <<"ix_payments_loan_id", "payments", "ix_loans_customer_id", "loans", "customers">>

(* downgrade()                                                              *)
Downgrade == <<"ix_payments_loan_id", "payments", "ix_loans_customer_id", "loans",
               "customers", "loan_status", "loan_type">>

VARIABLES
  objects,   \* what is committed
  revision,  \* the committed row of alembic_version: "head" or "base"
  run,       \* each process's migration: "upgrade", "downgrade" or how it ended
  step,      \* how many of its statements it has executed
  overtaken  \* whether another has committed since it read the revision

migrationVars == <<objects, revision, run, step, overtaken>>

Running == {"upgrade", "downgrade"}
Ends == {"idle", "refused", "dead"}

MigrationInit ==
  /\ objects = {}
  /\ revision = "base"
  /\ run = [p \in Processes |-> "idle"]
  /\ step = [p \in Processes |-> 0]
  /\ overtaken = [p \in Processes |-> FALSE]

Script(p) == IF run[p] = "upgrade" THEN Upgrade ELSE Downgrade

(* What the open transaction of p has created or dropped, and the objects   *)
(* it sees.                                                                 *)
Touched(p) == IF run[p] \in Running THEN Range(SubSeq(Script(p), 1, step[p])) ELSE {}

Seen(p) == IF run[p] = "upgrade" THEN objects \cup Touched(p) ELSE objects \ Touched(p)

-----------------------------------------------------------------------------
(* The revision is read; at the one wanted there is nothing to run.         *)
Begin(p, script) ==
  /\ run[p] \in Ends
  /\ revision = IF script = "upgrade" THEN "base" ELSE "head"
  /\ run' = [run EXCEPT ![p] = script]
  /\ step' = [step EXCEPT ![p] = 0]
  /\ overtaken' = [overtaken EXCEPT ![p] = FALSE]
  /\ UNCHANGED <<objects, revision>>

Named(p) == Script(p)[step[p] + 1]

Executing(p) == run[p] \in Running /\ step[p] < Len(Script(p))

(* Variant: a process that died keeps its transaction open.                 *)
WaitsForTheDead(p) ==
  \E o \in Processes \ {p} :
     /\ run[o] \in {run[p], "dead"}
     /\ Named(p) \in Range(SubSeq(Script(o), 1, step[o]))

(* A name that another has created, or dropped, and not committed.  What it *)
(* has created a drop does not even see, and what it has dropped is still   *)
(* in the way of a create: these are refused at once.                       *)
Waits(p) ==
  \E o \in Processes \ {p} : Named(p) \in Touched(o) /\ run[o] = run[p]

(* The two types are dropped with checkfirst.                               *)
Possible(p) ==
  IF run[p] = "upgrade"
    THEN Named(p) \notin Seen(p) /\ Needs(Named(p)) \subseteq Seen(p)
    ELSE /\ Named(p) \in Seen(p) \cup {"loan_type", "loan_status"}
         /\ \A o \in Seen(p) : Named(p) \notin Needs(o)

Execute(p) ==
  /\ Executing(p)
  /\ ~Waits(p)
  /\ Possible(p)
  /\ step' = [step EXCEPT ![p] = @ + 1]
  /\ UNCHANGED <<objects, revision, run, overtaken>>

(* A statement fails, and the transaction is rolled back.                   *)
Refuse(p) ==
  /\ Executing(p)
  /\ ~Waits(p)
  /\ ~Possible(p)
  /\ run' = [run EXCEPT ![p] = "refused"]
  /\ UNCHANGED <<objects, revision, step, overtaken>>

(* Variant: what was executed before a process died is kept.                *)
DieHalfWay(p) ==
  /\ run[p] \in Running
  /\ objects' = Seen(p)
  /\ run' = [run EXCEPT ![p] = "dead"]
  /\ UNCHANGED <<revision, step, overtaken>>

Die(p) ==
  /\ run[p] \in Running
  /\ run' = [run EXCEPT ![p] = "dead"]
  /\ UNCHANGED <<objects, revision, step, overtaken>>

(* The end of begin_transaction: objects and revision together.             *)
Commit(p) ==
  /\ run[p] \in Running
  /\ step[p] = Len(Script(p))
  /\ objects' = Seen(p)
  /\ revision' = IF run[p] = "upgrade" THEN "head" ELSE "base"
  /\ run' = [run EXCEPT ![p] = "idle"]
  /\ overtaken' = [o \in Processes |-> o # p]
  /\ UNCHANGED step

Migrate(p) == Execute(p) \/ Refuse(p) \/ Commit(p)

MigrationNext ==
  \E p \in Processes :
     \/ \E script \in Running : Begin(p, script)
     \/ Migrate(p) \/ Die(p)

MigrationSpec == MigrationInit /\ [][MigrationNext]_migrationVars

-----------------------------------------------------------------------------
(* The revision tells the truth: at head all that models.py declares is     *)
(* there, at base nothing, whoever was killed or refused half way.          *)
RevisionTrue == objects = IF revision = "head" THEN Objects ELSE {}

(* A run is refused only if another has committed since it read the         *)
(* revision: alone, upgrade and downgrade can follow each other for ever    *)
(* ("keep downgrade/upgrade cycles repeatable",                             *)
(* ac72b166a3a9_initial_schema.py:68-70).                                   *)
CyclesRepeat == \A p \in Processes : run[p] = "refused" => overtaken[p]

(* Runs never wait for each other in a circle: while any are under way, one *)
(* of them can go on.                                                       *)
SomeRunGoesOn ==
  (\E p \in Processes : run[p] \in Running) =>
     \E p \in Processes : run[p] \in Running /\ ~(Executing(p) /\ Waits(p))
=============================================================================
