----------------------------- MODULE Migrations -----------------------------
(***************************************************************************)
(* runMigrations: the one-way upgrade of the database when a process opens *)
(* it.                                                                     *)
(*                                                                         *)
(* A migration is its id; what it brings (tables, columns, backfilled      *)
(* values) is one change, which is there or not.  Databases built before   *)
(* migrations were registered have the changes up to some id and an empty  *)
(* register; they are recognised by their structure and registered, one    *)
(* committed row at a time.  Each pending migration then runs in a         *)
(* transaction with its registration.  A process can die between any two   *)
(* transactions and be started again, and a second process opens the file  *)
(* before it finds the port taken, so several of them may be at it.        *)
(* Transactions are atomic; one that meets the lock of another fails.      *)
(***************************************************************************)
EXTENDS Integers

CONSTANTS
  Processes,     \* processes that open the database
  Latest,        \* LATEST_SCHEMA_VERSION
  Recognised,    \* the newest version detectBaseline can tell
  MaxFaults      \* bound on failed transactions and crashes

Ids == 1..Latest

ASSUME MigrationAssumption ==
  /\ Latest \in Nat \ {0}
  /\ Recognised \in Ids
  /\ MaxFaults \in Nat

VARIABLES
  changes,     \* the changes that are in effect
  register,    \* table schema_migrations
  userData,    \* history: the database has been in use
  snapshots,   \* the changes in effect in each backup
  runner,      \* what each process is doing
  faults       \* failed transactions and crashes so far

vars == <<changes, register, userData, snapshots, runner, faults>>

\* stage "baseline": todo is still to be registered; "plan": the backup is
\* next; "apply": todo is still to be run. recorded: what the runner takes as
\* applied.
Off == [stage |-> "off", dryRun |-> FALSE, todo |-> {}, recorded |-> {},
        baseline |-> 0]
Runner == [stage : {"off", "baseline", "plan", "apply", "serving"},
           dryRun : BOOLEAN, todo : SUBSET Ids, recorded : SUBSET Ids,
           baseline : 0..Latest]

TypeOK ==
  /\ changes   \subseteq Ids
  /\ register  \subseteq Ids
  /\ userData  \in BOOLEAN
  /\ snapshots \subseteq SUBSET Ids
  /\ runner    \in [Processes -> Runner]
  /\ faults    \in 0..MaxFaults

\* A new file, a database of an unregistered past, or a registered one.
Init ==
  /\ \E v \in 0..Latest : /\ changes  = 1..v
                          /\ userData = (v > 0)
                          /\ \/ register = 1..v
                             \/ register = {} /\ v <= Recognised
  /\ snapshots = {}
  /\ runner    = [p \in Processes |-> Off]
  /\ faults    = 0

-----------------------------------------------------------------------------
Least(S)    == CHOOSE i \in S : \A j \in S : i <= j
Greatest(S) == IF S = {} THEN 0 ELSE CHOOSE i \in S : \A j \in S : j <= i

\* detectBaseline: the newest recognised change, if the core tables are there.
Baseline == IF 1 \notin changes THEN 0
            ELSE Greatest({i \in changes : i <= Recognised})

\* The register is read; an empty one makes the runner look for a baseline.
Open(p, dryRun) ==
  LET found == IF register = {} THEN Baseline ELSE 0 IN
  /\ runner[p].stage = "off"
  /\ runner' = [runner EXCEPT ![p] =
       [stage |-> "baseline", dryRun |-> dryRun, todo |-> 1..found,
        recorded |-> register, baseline |-> found]]
  /\ UNCHANGED <<changes, register, userData, snapshots, faults>>

\* Mutant of RegisterBaseline: the newest version is registered first.
RegisterBaselineDown(p) ==
  LET i == Greatest(runner[p].todo) IN
  /\ runner[p].stage = "baseline" /\ runner[p].todo # {}
  /\ i \notin register
  /\ register' = register \cup {i}
  /\ runner' = [runner EXCEPT ![p].todo = @ \ {i}, ![p].recorded = @ \cup {i}]
  /\ UNCHANGED <<changes, userData, snapshots, faults>>

\* One baseline row is inserted and committed, in a dry run too.
RegisterBaseline(p) ==
  LET i == Least(runner[p].todo) IN
  /\ runner[p].stage = "baseline" /\ runner[p].todo # {}
  /\ i \notin register
  /\ register' = register \cup {i}
  /\ runner' = [runner EXCEPT ![p].todo = @ \ {i}, ![p].recorded = @ \cup {i}]
  /\ UNCHANGED <<changes, userData, snapshots, faults>>

\* What is not recorded is pending; a dry run stops here.
Compute(p) ==
  /\ runner[p].stage = "baseline" /\ runner[p].todo = {}
  /\ runner' = [runner EXCEPT ![p] =
       IF runner[p].dryRun THEN Off
       ELSE [@ EXCEPT !.stage = "plan", !.todo = Ids \ runner[p].recorded]]
  /\ UNCHANGED <<changes, register, userData, snapshots, faults>>

\* Mutant of Fresh: a database without registered versions has no data.
FreshByRegister(p) == runner[p].recorded \ (1..runner[p].baseline) = {}

\* A new file holds nothing to lose.
Fresh(p) == /\ runner[p].recorded = {}
            /\ runner[p].baseline = 0
            /\ 1 \notin changes

\* The snapshot before the upgrade, when there is something to do and to lose.
Backup(p) ==
  /\ runner[p].stage = "plan"
  /\ snapshots' = IF runner[p].todo = {} \/ Fresh(p) THEN snapshots
                                                     ELSE snapshots \cup {changes}
  /\ runner' = [runner EXCEPT ![p].stage = "apply"]
  /\ UNCHANGED <<changes, register, userData, faults>>

\* Mutant of Migrate: run, but not registered.
MigrateUnregistered(p) ==
  LET i == Least(runner[p].todo) IN
  /\ runner[p].stage = "apply" /\ runner[p].todo # {}
  /\ i \notin register
  /\ changes'  = changes \cup {i}
  /\ runner'   = [runner EXCEPT ![p].todo = @ \ {i}]
  /\ UNCHANGED <<register, userData, snapshots, faults>>

\* up() and the registration, in one transaction.
Migrate(p) ==
  LET i == Least(runner[p].todo) IN
  /\ runner[p].stage = "apply" /\ runner[p].todo # {}
  /\ i \notin register
  /\ changes'  = changes \cup {i}
  /\ register' = register \cup {i}
  /\ runner'   = [runner EXCEPT ![p].todo = @ \ {i}]
  /\ UNCHANGED <<userData, snapshots, faults>>

\* The primary key of the register refuses a row another process inserted:
\* the transaction is rolled back and the process gives up.
Conflict(p) ==
  /\ runner[p].stage \in {"baseline", "apply"} /\ runner[p].todo # {}
  /\ Least(runner[p].todo) \in register
  /\ runner' = [runner EXCEPT ![p] = Off]
  /\ UNCHANGED <<changes, register, userData, snapshots, faults>>

\* The database is up to date, and is used from now on.
Serve(p) ==
  /\ runner[p].stage = "apply" /\ runner[p].todo = {}
  /\ runner'   = [runner EXCEPT ![p] = [Off EXCEPT !.stage = "serving"]]
  /\ userData' = TRUE
  /\ UNCHANGED <<changes, register, snapshots, faults>>

\* close(), or the death of a process that has no migration to make.
Stop(p) ==
  /\ runner[p].stage = "serving"
  /\ runner' = [runner EXCEPT ![p] = Off]
  /\ UNCHANGED <<changes, register, userData, snapshots, faults>>

\* A statement fails or the process dies; committed transactions stay.
Fault(p) ==
  /\ runner[p].stage \notin {"off", "serving"}
  /\ faults < MaxFaults
  /\ faults' = faults + 1
  /\ runner' = [runner EXCEPT ![p] = Off]
  /\ UNCHANGED <<changes, register, userData, snapshots>>

Step(p) == \/ RegisterBaseline(p) \/ Compute(p) \/ Backup(p)
           \/ Migrate(p) \/ Conflict(p) \/ Serve(p)

Next == \E p \in Processes : \/ \E dryRun \in BOOLEAN : Open(p, dryRun)
                             \/ Step(p) \/ Stop(p) \/ Fault(p)

Spec == Init /\ [][Next]_vars

\* A process that has begun goes on, and one that gave up is started again, by
\* its supervisor or its operator, also between dry runs.
FairSpec == /\ Spec
            /\ \A p \in Processes : /\ WF_vars(Step(p))
                                    /\ SF_vars(Open(p, FALSE))

-----------------------------------------------------------------------------
\* The register is 1..n at every moment, whatever crashes or races, so
\* currentSchemaVersion describes the whole database.
RegisterIsPrefix == register = 1..Greatest(register)

\* Nothing is registered that is not in effect ("执行了但没登记" is the other
\* half), and what is in effect but not registered is an unregistered past
\* that detectBaseline still recognises.
RegisterIsTrue ==
  /\ register \subseteq changes
  /\ changes \ register \subseteq 1..Recognised

\* Both together: the register is a true prefix.
RegisterSound == RegisterIsPrefix /\ RegisterIsTrue

\* A database that has been in use never changes without a backup that lacks
\* the change.
UpgradesBackedUp ==
  [][\A i \in changes' \ changes :
       userData => \E s \in snapshots : s # {} /\ i \notin s]_vars

\* Started again after each failure, the upgrade is completed in the end.
UpgradeCompletes == <>[](register = Ids /\ changes = Ids)

=============================================================================
