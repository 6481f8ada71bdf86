-------------------------------- MODULE Boot --------------------------------
(***************************************************************************)
(* Containers that start over one database (entrypoint.sh): each waits for  *)
(* the database, migrates it, seeds it, and serves, one command after the   *)
(* other, and is over at the first that fails (set -e).  Nothing keeps the  *)
(* launches apart, nor from a `seed --reset` by hand, and the database may  *)
(* stop and come back between any two of their steps.  The runs of the seed *)
(* script are those of Seed, over the same variables.                       *)
(***************************************************************************)
EXTENDS Integers, FiniteSets

CONSTANTS
  Seeders,      \* runs of the seed script
  Resetting,    \*   by hand with --reset; the others are a launch's
  Earlier,
  None,
  MAX_ATTEMPTS  \* 60 in the code

ASSUME BootAssumption ==
  /\ Resetting \subseteq Seeders
  /\ Earlier \notin Seeders
  /\ None \notin Seeders \cup {Earlier}
  /\ MAX_ATTEMPTS \in Nat \ {0}

VARIABLES pc, existing, db, removed, added, written  \* as in Seed

S == INSTANCE Seed

Launches == Seeders \ Resetting

VARIABLES
  up,       \* whether the database accepts connections
  tables,   \* who created the tables that are there
  creator,  \* the launch whose open transaction has created them
  stage,    \* each launch's command, or how it ended
  attempt   \* wait_for_db's attempt

seedVars == <<pc, existing, db, removed, added, written>>
launchVars == <<tables, creator, stage, attempt>>
vars == <<seedVars, up, launchVars>>

(* "unreachable": wait_for_db exits with 1; "clashed", "refused": alembic   *)
(* or the seed script fails on what another has written; "dead": killed, or *)
(* the database was gone in the midst of a command.                         *)
Failures == {"unreachable", "clashed", "refused", "dead"}
Ended == Failures \cup {"serving"}

Init ==
  /\ S!Init
  /\ up \in BOOLEAN
  /\ tables \in {None, Earlier}
  /\ tables = None => db = {}
  /\ creator = None
  /\ stage = [l \in Launches |-> "down"]
  /\ attempt = [l \in Launches |-> 0]

GoOn(l, to) == stage' = [stage EXCEPT ![l] = to]

-----------------------------------------------------------------------------
(* python -m app.database.wait_for_db                                       *)

Start(l) ==
  /\ stage[l] = "down"
  /\ GoOn(l, "waiting")
  /\ attempt' = [attempt EXCEPT ![l] = 1]
  /\ UNCHANGED <<seedVars, up, tables, creator>>

Reach(l) ==
  /\ stage[l] = "waiting"
  /\ up
  /\ GoOn(l, "migrating")
  /\ UNCHANGED <<seedVars, up, tables, creator, attempt>>

(* Variants, which nothing below uses, stand before what they vary: a       *)
(* plausible slip in the code, named for what it does.                      *)
(* Variant: it tries for ever.                                              *)
MissForever(l) ==
  /\ stage[l] = "waiting"
  /\ ~up
  /\ attempt' = [attempt EXCEPT ![l] = IF @ = MAX_ATTEMPTS THEN 1 ELSE @ + 1]
  /\ UNCHANGED <<seedVars, up, tables, creator, stage>>

(* An attempt fails and the next follows, if there is one.                  *)
Miss(l) ==
  /\ stage[l] = "waiting"
  /\ ~up
  /\ IF attempt[l] = MAX_ATTEMPTS
       THEN GoOn(l, "unreachable") /\ UNCHANGED attempt
       ELSE attempt' = [attempt EXCEPT ![l] = @ + 1] /\ UNCHANGED stage
  /\ UNCHANGED <<seedVars, up, tables, creator>>

-----------------------------------------------------------------------------
(* alembic upgrade head                                                     *)

(* Variant: upgrade() whatever the revision.                                *)
UpgradeAnyway(l) ==
  /\ stage[l] = "migrating"
  /\ up
  /\ GoOn(l, "unversioned")
  /\ UNCHANGED <<seedVars, up, tables, creator, attempt>>

(* The revision that is committed: at head there is nothing to do.          *)
ReadVersion(l) ==
  /\ stage[l] = "migrating"
  /\ up
  /\ GoOn(l, IF tables = None THEN "unversioned" ELSE "seeding")
  /\ UNCHANGED <<seedVars, up, tables, creator, attempt>>

(* upgrade() waits for another's open transaction on the same tables, and   *)
(* fails when that has committed.                                           *)
CreateTables(l) ==
  /\ stage[l] = "unversioned"
  /\ up
  /\ creator = None
  /\ IF tables = None
       THEN creator' = l /\ GoOn(l, "creating")
       ELSE UNCHANGED creator /\ GoOn(l, "clashed")
  /\ UNCHANGED <<seedVars, up, tables, attempt>>

CommitTables(l) ==
  /\ stage[l] = "creating"
  /\ tables' = l
  /\ creator' = None
  /\ GoOn(l, "seeding")
  /\ UNCHANGED <<seedVars, up, attempt>>

-----------------------------------------------------------------------------
(* python -m app.database.seed, and exec uvicorn                            *)

CountCustomers(l) ==
  /\ stage[l] = "seeding"
  /\ up
  /\ S!Count(l)
  /\ UNCHANGED <<up, launchVars>>

SeedOn(s) ==
  /\ up
  /\ S!Proceed(s)
  /\ UNCHANGED <<up, launchVars>>

(* Variants: without set -e; and a script that fails if it has skipped.     *)
NextCommandAnyway(end) == "serving"
SkippedIsRefused(end) == IF end = "done" THEN "serving" ELSE "refused"

(* What the end of the seed script leads to.                                *)
NextCommand(end) == IF end \in {"done", "skipped"} THEN "serving" ELSE end

EndSeed(l) ==
  /\ stage[l] = "seeding"
  /\ pc[l] \in S!Ends
  /\ GoOn(l, NextCommand(pc[l]))
  /\ UNCHANGED <<seedVars, up, tables, creator, attempt>>

-----------------------------------------------------------------------------
(* Failures.                                                                *)

(* The seed script is killed or loses the database.                         *)
SeedDies(s) == S!Die(s) /\ UNCHANGED <<up, launchVars>>

(* So is another command, and its transaction is rolled back.               *)
LaunchDies(l) ==
  /\ stage[l] \notin Ended \cup {"down"}
  /\ pc[l] = "idle"
  /\ GoOn(l, "dead")
  /\ creator' = IF creator = l THEN None ELSE creator
  /\ UNCHANGED <<seedVars, up, tables, attempt>>

(* A reset by hand, once there are tables.                                  *)
CountByHand(s) ==
  /\ s \in Resetting
  /\ up
  /\ tables # None
  /\ S!Count(s)
  /\ UNCHANGED <<up, launchVars>>

(* The database stops when the transactions that were open have died; after *)
(* its deletes the script has none, and pool_pre_ping would have it connect *)
(* anew.                                                                    *)
DatabaseStops ==
  /\ up
  /\ \A l \in Launches : stage[l] \notin {"unversioned", "creating"}
  /\ \A s \in Seeders : pc[s] \in {"idle", "insert"} \cup S!Ends
  /\ up' = FALSE
  /\ UNCHANGED <<seedVars, launchVars>>

DatabaseStarts == ~up /\ up' = TRUE /\ UNCHANGED <<seedVars, launchVars>>

-----------------------------------------------------------------------------
(* What a launch does by itself, and what happens to it when the database   *)
(* is gone.                                                                 *)
Continue(l) ==
  \/ Reach(l) \/ Miss(l) \/ ReadVersion(l) \/ CreateTables(l) \/ CommitTables(l)
  \/ CountCustomers(l) \/ EndSeed(l)
  \/ ~up /\ stage[l] # "waiting" /\ LaunchDies(l)

RunOn(s) == SeedOn(s) \/ (~up /\ SeedDies(s))

Next ==
  \/ \E l \in Launches : Start(l) \/ Continue(l) \/ LaunchDies(l)
  \/ \E s \in Seeders : SeedOn(s) \/ SeedDies(s) \/ CountByHand(s)
  \/ DatabaseStops \/ DatabaseStarts

Spec == Init /\ [][Next]_vars

(* Commands that have started go on; nobody has to start one, nor to start  *)
(* or stop the database.                                                    *)
FairSpec ==
  /\ Spec
  /\ \A l \in Launches : WF_vars(Continue(l))
  /\ \A s \in Seeders : WF_vars(RunOn(s))

-----------------------------------------------------------------------------
Stages == {"down", "waiting", "migrating", "unversioned", "creating", "seeding"}
            \cup Ended

(* Every variable has its type; the tables are created by one launch at a   *)
(* time, and a script that has started found them there.                    *)
TypeOK ==
  /\ up \in BOOLEAN
  /\ tables \in Launches \cup {None, Earlier}
  /\ creator \in Launches \cup {None}
  /\ stage \in [Launches -> Stages]
  /\ attempt \in [Launches -> 0..MAX_ATTEMPTS]
  /\ \A l \in Launches : stage[l] = "creating" <=> creator = l
  /\ creator # None => tables = None
  /\ \A s \in Seeders : pc[s] # "idle" => tables # None

(* A container that serves finds loans in the database, unless a reset by   *)
(* hand has emptied it and is at work or was killed.                        *)
ServesLoans ==
  \A l \in Launches :
     stage[l] = "serving" =>
        \/ db # {}
        \/ \E s \in Resetting : pc[s] \in {"insert", "flushed", "dead"}

(* A launch that another one makes fail has a winner: one that has created  *)
(* the tables, or a run of the script that has filled them.  No launch      *)
(* alone, and none on a database from before, fails on what it finds        *)
(* (entrypoint.sh:5-6).                                                     *)
LosersHaveWinners ==
  \A l \in Launches :
     /\ stage[l] = "clashed" => tables \in Launches \ {l}
     /\ stage[l] = "refused" => written \ {l} # {}

(* When all launches have ended, none killed or out of patience, one of     *)
(* them serves, although each may have been another's undoing; or a reset   *)
(* by hand got in before them.                                              *)
OneServes ==
  /\ \A l \in Launches : stage[l] \in {"serving", "clashed", "refused"}
  /\ Launches # {}
  => \/ \E l \in Launches : stage[l] = "serving"
     \/ written \cap Resetting # {}

(* Every launch serves or is over at last, with the database gone or come   *)
(* back in the midst of it: the attempts are counted, no lock is for ever.  *)
LaunchesEnd == \A l \in Launches : stage[l] # "down" ~> stage[l] \in Ended

=============================================================================
